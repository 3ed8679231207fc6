----------------------------- MODULE MCLibrary -----------------------------
(***************************************************************************)
(* A model-checking instance of the parts of the library that need no      *)
(* device.  They share no state: "subject" is the one that a behaviour is  *)
(* about, and the others rest.                                             *)
(***************************************************************************)
EXTENDS CircularBuffer, FixedCapacityVector, CRC, OutputStream, AsynchronousSerial, Debounce,
        StateMachine

VARIABLE subject

library == <<subject, vars, vector, crc, stream, serial, debouncers, machine>>

\* two polynomials for each of two widths, one byte and two
FourPolynomials ==
    {<<0, 0, 1, 1>>, <<1, 0, 0, 1>>, <<0, 0, 0, 0, 0, 1, 1, 1>>, <<1, 0, 0, 1, 1, 0, 1, 1>>}

FourRemainders ==
    {<<0, 0, 0, 0>>, <<1, 0, 1, 1>>, <<0, 0, 0, 0, 0, 0, 0, 0>>, <<1, 1, 0, 1, 0, 0, 1, 0>>}

\* every integer of eight digits, in every base
EightDigits ==
    [kind : {"bin", "hex"}, value : -128 .. 255] \cup [kind : {"signed"}, value : -128 .. 127]
        \cup [kind : {"unsigned"}, value : 0 .. 255]

ThreeGlyphs ==
    [byte \in {48, 65, 126} |-> CASE byte = 48 -> "0" [] byte = 65 -> "A" [] byte = 126 -> "~"]

\* no row, a row that is short or full, and rows after a longer one
Dumps == {<<>>, <<65>>, <<65, 126, 0>>, <<126, 255, 48, 10>>, <<1, 2, 3, 65, 5, 6, 7>>}

Addresses ==
    {[is_any |-> TRUE, version |-> 4, bytes |-> <<0, 0, 0, 0>>],
     [is_any |-> FALSE, version |-> 0, bytes |-> <<>>],
     [is_any |-> FALSE, version |-> 4, bytes |-> <<192, 9, 10, 255>>]}

ManyPrintables ==
    EightDigits
        \cup {[kind |-> "dump", value |-> bytes] : bytes \in Dumps}
        \cup [kind : {"endpoint"}, value : [address : Addresses, port : {0, 80, 65535}]]
        \cup [kind : {"mac"}, value : {<<0, 18, 171, 9, 160, 255>>}]
        \cup [kind : {"error"}, value : {[category |-> <<"C">>, description |-> <<"e", "r">>]}]
        \cup [kind : {"event"},
              value : {[category |-> <<"C">>, description |-> <<"e">>, details |-> <<"d">>]}]

FiveSequences ==
    LET char == [kind |-> "char", value |-> "c"]
        string == [kind |-> "string", value |-> <<"s", "t">>]
        nothing == [kind |-> "string", value |-> <<>>]
        number == [kind |-> "signed", value |-> -10]
        dump == [kind |-> "dump", value |-> <<1, 2, 3, 4>>]
    IN  {<<>>, <<char>>, <<string, number, char>>, <<nothing, char, nothing>>, <<dump, string>>}

Rests(name) == subject # name

LibraryInit ==
    /\ subject \in {"buffer", "vector", "crc", "stream", "serial", "debouncers", "machine"}
    /\ Init
    /\ Rests("buffer") => use_case = "MAIN_READS_MAIN_WRITES"
    /\ VectorInit
    /\ CrcInit
    /\ Rests("crc") =>
           /\ parameters.polynomial = <<0, 0, 1, 1>>
           /\ parameters.initial_remainder = <<0, 0, 0, 0>> /\ parameters.xor_output = <<0, 0, 0, 0>>
           /\ ~parameters.input_is_reflected /\ ~parameters.output_is_reflected
    /\ StreamInit
    /\ Rests("stream") => ~reliable
    /\ SerialInit
    /\ DebounceInit
    /\ Rests("debouncers") => multiple_state = {}
    /\ MachineInit

LibraryNext ==
    \/ subject = "buffer" /\ Next
          /\ UNCHANGED <<subject, vector, crc, stream, serial, debouncers, machine>>
    \/ subject = "vector" /\ VectorNext
          /\ UNCHANGED <<subject, vars, crc, stream, serial, debouncers, machine>>
    \/ subject = "crc" /\ CrcNext
          /\ UNCHANGED <<subject, vars, vector, stream, serial, debouncers, machine>>
    \/ subject = "stream" /\ StreamNext
          /\ UNCHANGED <<subject, vars, vector, crc, serial, debouncers, machine>>
    \/ subject = "serial" /\ SerialNext
          /\ UNCHANGED <<subject, vars, vector, crc, stream, debouncers, machine>>
    \/ subject = "debouncers" /\ DebounceNext
          /\ UNCHANGED <<subject, vars, vector, crc, stream, serial, machine>>
    \/ subject = "machine" /\ MachineNext
          /\ UNCHANGED <<subject, vars, vector, crc, stream, serial, debouncers>>

LibrarySpec == LibraryInit /\ [][LibraryNext]_library

=============================================================================
