------------------------------ MODULE Format ------------------------------
(***************************************************************************)
(* The output formatters: what each puts to the stream, in the runs of     *)
(* characters that it puts them in, and the size that it counts for each   *)
(* run.  Digits are written to an array from its end; what no statement    *)
(* writes stays UNWRITTEN.                                                 *)
(*                                                                         *)
(* A text is a sequence of characters, a byte a number.                    *)
(***************************************************************************)
EXTENDS Integers, Sequences, SequencesExt, FiniteSetsExt

CONSTANTS
    DIGITS,            \* digits of the Integer of Bin, Dec and Hex
    ROW_BYTES,
    MEMORY_OFFSET_NIBBLES,
    Glyphs             \* a function: the characters of the bytes that are printable

NIBBLE_DIGITS == 4

BYTE_NIBBLES == 2

UNWRITTEN == "unwritten"

Digit(n) == <<"0", "1", "2", "3", "4", "5", "6", "7", "8", "9", "A", "B", "C", "D", "E", "F">>[n + 1]

\* Array<char, n>, its elements numbered from 0
Unwritten(n) == [k \in 0 .. n - 1 |-> UNWRITTEN]

Put_(array, k, character) == [array EXCEPT ![k] = character]

Text(array, begin, end) == [k \in 1 .. end - begin |-> array[begin + k - 1]]

Run(text, size) == <<[text |-> text, size |-> size]>>

Whole(array) == LET n == Cardinality(DOMAIN array) IN Run(Text(array, 0, n), n)

Loop(Step(_, _), state, n) == FoldLeft(Step, state, [k \in 1 .. n |-> k])

to_unsigned(integer, digits) == integer % 2^digits

\* digits of an integer, the last one first, written before position end
WriteDigits(array, end, integer, base, n) ==
    Loop(LAMBDA s, k : [array |-> Put_(s.array, end - k, Digit(s.integer % base)), integer |-> s.integer \div base],
         [array |-> array, integer |-> integer], n).array

-----------------------------------------------------------------------------

Bin(integer) ==
    LET digits == WriteDigits(Unwritten(2 + DIGITS), 2 + DIGITS, to_unsigned(integer, DIGITS), 2, DIGITS)
    IN  Whole(Put_(Put_(digits, 1, "b"), 0, "0"))

Hex(integer) ==
    LET nibbles == DIGITS \div NIBBLE_DIGITS
        digits == WriteDigits(Unwritten(2 + nibbles), 2 + nibbles, to_unsigned(integer, DIGITS), 16, nibbles)
    IN  Whole(Put_(Put_(digits, 1, "x"), 0, "0"))

\* std::numeric_limits<Integer>::digits10 of an integer whose largest value is max
digits10(max) == CHOOSE n \in 0 .. max : 10^n - 1 <= max /\ 10^(n + 1) - 1 > max

\* division and remainder truncate toward zero
Truncated(integer, n) == IF integer < 0 THEN -((-integer) \div n) ELSE integer \div n

\* do ... while ( integer ): its digits, the last one first
Decimal[integer \in Int] ==
    LET rest == Truncated(integer, 10)
        last == integer - 10 * rest
        digit == <<Digit(IF last < 0 THEN -last ELSE last)>>
    IN  IF rest = 0 THEN digit ELSE digit \o Decimal[rest]

\* in an array of this size, from its end; i.base() is where they begin
FromEnd(characters, size) ==
    LET array == Loop(LAMBDA r, k : Put_(r, size - k, characters[k]), Unwritten(size), Len(characters))
        begin == size - Len(characters)
    IN  Run(Text(array, begin, size), size - begin)

Signed_Dec(integer) ==
    FromEnd(Decimal[integer] \o (IF integer < 0 THEN <<"-">> ELSE <<>>),
            1 + digits10(2^(DIGITS - 1) - 1) + 1)

Unsigned_Dec(integer, digits) == FromEnd(Decimal[integer], digits10(2^digits - 1) + 1)

-----------------------------------------------------------------------------

DATA_HEX_OFFSET == MEMORY_OFFSET_NIBBLES + 2

DATA_ASCII_OFFSET == DATA_HEX_OFFSET + (BYTE_NIBBLES + 1) * ROW_BYTES - 1 + 2 + 1

ROW_SIZE == DATA_ASCII_OFFSET + ROW_BYTES + 1 + 1

Fill(array, first, last, character) ==
    [k \in DOMAIN array |-> IF k \in first .. last - 1 THEN character ELSE array[k]]

format_hex(row, location, integer, nibbles) == WriteDigits(row, location + nibbles, integer, 16, nibbles)

format_ascii(byte) == IF byte \in DOMAIN Glyphs THEN Glyphs[byte] ELSE "."

\* A mutant: of a row that is reused, what is not written is not blank.
generate_row_KeepsRow(row, memory_offset, bytes) ==
    LET blank == IF row[ROW_SIZE - 1] = UNWRITTEN THEN Fill(row, 0, ROW_SIZE, " ") ELSE row
        framed == Put_(Put_(blank, ROW_SIZE - 1, "\n"), DATA_ASCII_OFFSET - 1, "|")
        offset == format_hex(framed, 0, memory_offset, MEMORY_OFFSET_NIBBLES)
        Byte(r, k) ==
            Put_(format_hex(r, DATA_HEX_OFFSET + (BYTE_NIBBLES + 1) * (k - 1), bytes[k], BYTE_NIBBLES),
                 DATA_ASCII_OFFSET + k - 1, format_ascii(bytes[k]))
        n == Min({Len(bytes), ROW_BYTES})
    IN  Put_(Loop(Byte, offset, n), DATA_ASCII_OFFSET + n, "|")

\* the row is reused: what it holds is the row before
generate_row(row, memory_offset, bytes) ==
    LET blank == Fill(row, MEMORY_OFFSET_NIBBLES, ROW_SIZE - 1, " ")
        framed == Put_(Put_(blank, ROW_SIZE - 1, "\n"), DATA_ASCII_OFFSET - 1, "|")
        offset == format_hex(framed, 0, memory_offset, MEMORY_OFFSET_NIBBLES)
        Byte(r, k) ==
            Put_(format_hex(r, DATA_HEX_OFFSET + (BYTE_NIBBLES + 1) * (k - 1), bytes[k], BYTE_NIBBLES),
                 DATA_ASCII_OFFSET + k - 1, format_ascii(bytes[k]))
        n == Min({Len(bytes), ROW_BYTES})
    IN  Put_(Loop(Byte, offset, n), DATA_ASCII_OFFSET + n, "|")

Hex_Dump(bytes) ==
    LET rows == (Len(bytes) + ROW_BYTES - 1) \div ROW_BYTES
        Row(s, k) ==
            LET offset == (k - 1) * ROW_BYTES
                row == generate_row(s.row, offset, SubSeq(bytes, offset + 1, Len(bytes)))
            IN  [row |-> row, runs |-> s.runs \o Whole(row)]
    IN  Loop(Row, [row |-> Unwritten(ROW_SIZE), runs |-> <<>>], rows).runs

-----------------------------------------------------------------------------

Char(character) == Run(<<character>>, 1)

\* the size is that of strlen()
String(text) == Run(text, Len(text))

\* print() of several values: each is put when those before it were
Printed(values) == FlattenSeq(values)

\* and of an enumeration of error codes
Error(error) == Printed(<<String(error.category), String(<<":", ":">>), String(error.description)>>)

IPv4_Address(bytes) ==
    LET Dec(k) == Unsigned_Dec(bytes[k], 8)
    IN  Printed(<<Dec(1), Char("."), Dec(2), Char("."), Dec(3), Char("."), Dec(4)>>)

\* an address of no version prints nothing
IP_Address(address) ==
    CASE address.is_any -> String(<<"A", "N", "Y">>)
      [] ~address.is_any /\ address.version = 4 -> IPv4_Address(address.bytes)
      [] OTHER -> <<>>

Port(port) == Unsigned_Dec(port, 16)

Endpoint(endpoint) == Printed(<<IP_Address(endpoint.address), Char(":"), Port(endpoint.port)>>)

MAC_Address(bytes) ==
    LET nibbles == [k \in 1 .. 2 * Len(bytes) |->
                       IF k % 2 = 1 THEN bytes[(k + 1) \div 2] \div 16 ELSE bytes[k \div 2] % 16]
        size == 3 * Len(bytes) - 1
        Nibble(s, k) ==
            LET written == Put_(s.array, s.i, Digit(nibbles[k]))
                end == s.i + 1
            IN  IF k % 2 = 0 /\ end # size
                THEN [array |-> Put_(written, end, "-"), i |-> end + 1]
                ELSE [array |-> written, i |-> end]
    IN  Whole(Loop(Nibble, [array |-> Unwritten(size), i |-> 0], Len(nibbles)).array)

\* the name and the description, and what the event prints of its details
Event(event) == Printed(<<Error(event), String(event.details)>>)

\* The reliable formatter adds the results of two calls, and C++ does not say
\* which of the operands of an addition is evaluated first.
Reliable_Event(event, details_first) ==
    IF details_first THEN Printed(<<String(event.details), Error(event)>>) ELSE Event(event)

=============================================================================
