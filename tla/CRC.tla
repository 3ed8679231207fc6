-------------------------------- MODULE CRC --------------------------------
(***************************************************************************)
(* crc.h: five calculators of the same check, one bit, one nibble or one   *)
(* byte at a time.  Each is a loop over the bytes of a message; the model  *)
(* runs the loops side by side, so that "remainder" is the local variable  *)
(* of each after the bytes of "message".                                   *)
(*                                                                         *)
(* An unsigned integer is the sequence of its bits, the highest first.     *)
(***************************************************************************)
EXTENDS Integers, Sequences, SequencesExt, FiniteSetsExt

CONSTANTS
    BYTE_DIGITS,       \* digits of std::uint8_t
    NIBBLE_BITS,
    Polynomials,       \* of calculation registers of any width
    Remainders,        \* initial remainders and XOR output values
    MaxBytes           \* bound: bytes of a message

\* uint8_t has two nibbles, and a register is as many bytes as its type
ASSUME DigitsAssumption == NIBBLE_BITS \in Nat \ {0} /\ BYTE_DIGITS = 2 * NIBBLE_BITS

Bit == {0, 1}

Bits(n) == [1 .. n -> Bit]

ASSUME PolynomialsAssumption ==
    \A q \in Polynomials :
        q \in Bits(Len(q)) /\ Len(q) \in Nat /\ \E n \in 1 .. Len(q) : Len(q) = n * BYTE_DIGITS

ASSUME RemaindersAssumption == \A r \in Remainders : Len(r) \in Nat /\ r \in Bits(Len(r))

VARIABLES parameters, message, remainder

crc == <<parameters, message, remainder>>

Zeros(n) == [k \in 1 .. n |-> 0]

Xor(a, b) == [k \in DOMAIN a |-> (a[k] + b[k]) % 2]

\* r << Len(chunk) | chunk
Shifted(r, chunk) == SubSeq(r \o chunk, Len(chunk) + 1, Len(chunk) + Len(r))

\* r >> ( digits of r - n )
Top(r, n) == SubSeq(r, 1, n)

Repeated(Step(_), n, r) == FoldLeft(LAMBDA s, k : Step(s), r, Zeros(n))

\* the loop ends with the highest bit that is set
reflect(value) ==
    LET digits == Len(value)
        shifts == Max({0} \cup {digits - k : k \in {k \in 1 .. digits : value[k] = 1}})
        Shift(r, k) == Shifted(r, <<value[digits - k]>>)
    IN  Shifted(FoldLeft(Shift, value, [k \in 1 .. shifts |-> k]), Zeros(digits - 1 - shifts))

process_input(p, byte) == IF p.input_is_reflected THEN reflect(byte) ELSE byte

process_output(p, r) == IF p.output_is_reflected THEN reflect(r) ELSE r

-----------------------------------------------------------------------------

BitStep(r, bit, polynomial) ==
    IF r[1] = 1 THEN Xor(Shifted(r, <<bit>>), polynomial) ELSE Shifted(r, <<bit>>)

\* of a table that is indexed by as many bits as i has
TableEntry(polynomial, i) ==
    Repeated(LAMBDA r : BitStep(r, 0, polynomial), Len(i), i \o Zeros(Len(polynomial) - Len(i)))

AugmentedStep(p, r, chunk) == Xor(Shifted(r, chunk), TableEntry(p.polynomial, Top(r, Len(chunk))))

DirectStep(p, r, chunk) ==
    Xor(Shifted(r, Zeros(Len(chunk))), TableEntry(p.polynomial, Xor(Top(r, Len(chunk)), chunk)))

\* A mutant: the table is used once, whatever the width of the register.
preprocess_initial_remainder_Once(p, digits) == AugmentedStep(p, p.initial_remainder, Zeros(digits))

preprocess_initial_remainder(p, digits) ==
    Repeated(LAMBDA r : AugmentedStep(p, r, Zeros(digits)), Len(p.polynomial) \div digits,
             p.initial_remainder)

get_byte_nibbles(byte) ==
    <<SubSeq(byte, 1, NIBBLE_BITS), SubSeq(byte, NIBBLE_BITS + 1, BYTE_DIGITS)>>

Bitwise(p, r, byte) == FoldLeft(LAMBDA s, bit : BitStep(s, bit, p.polynomial), r, byte)

Augmented_Byte(p, r, byte) == AugmentedStep(p, r, byte)

Direct_Byte(p, r, byte) == DirectStep(p, r, byte)

Augmented_Nibble(p, r, byte) ==
    FoldLeft(LAMBDA s, nibble : AugmentedStep(p, s, nibble), r, get_byte_nibbles(byte))

Direct_Nibble(p, r, byte) ==
    FoldLeft(LAMBDA s, nibble : DirectStep(p, s, nibble), r, get_byte_nibbles(byte))

-----------------------------------------------------------------------------

\* the members of a calculator have one register type
Calculation_Parameters ==
    UNION {LET registers == {r \in Remainders : Len(r) = Len(q)}
           IN  [polynomial : {q}, initial_remainder : registers, xor_output : registers,
                input_is_reflected : BOOLEAN, output_is_reflected : BOOLEAN] : q \in Polynomials}

CrcInit ==
    /\ parameters \in Calculation_Parameters
    /\ message = <<>>
    /\ remainder =
           [Bitwise |-> parameters.initial_remainder,
            Augmented_Byte |-> parameters.initial_remainder,
            Augmented_Nibble |-> parameters.initial_remainder,
            Direct_Byte |-> preprocess_initial_remainder(parameters, BYTE_DIGITS),
            Direct_Nibble |-> preprocess_initial_remainder(parameters, NIBBLE_BITS)]

Fed(p, r, byte) ==
    [Bitwise |-> Bitwise(p, r.Bitwise, byte),
     Augmented_Byte |-> Augmented_Byte(p, r.Augmented_Byte, byte),
     Augmented_Nibble |-> Augmented_Nibble(p, r.Augmented_Nibble, byte),
     Direct_Byte |-> Direct_Byte(p, r.Direct_Byte, byte),
     Direct_Nibble |-> Direct_Nibble(p, r.Direct_Nibble, byte)]

Feed ==
    /\ Len(message) < MaxBytes
    /\ \E byte \in Bits(BYTE_DIGITS) :
        /\ message' = Append(message, byte)
        /\ remainder' = Fed(parameters, remainder, process_input(parameters, byte))
    /\ UNCHANGED parameters

CrcNext == Feed

CrcSpec == CrcInit /\ [][CrcNext]_crc

\* Message_Augment: the zeros that the direct calculators do without
Augmented(p, r) ==
    LET zeros == process_input(p, Zeros(BYTE_DIGITS))
        augmented == Repeated(LAMBDA s : Fed(p, s, zeros), Len(p.polynomial) \div BYTE_DIGITS, r)
    IN  [augmented EXCEPT !.Direct_Byte = r.Direct_Byte, !.Direct_Nibble = r.Direct_Nibble]

\* what calculate() returns if the message ends here
Calculated(name) ==
    Xor(process_output(parameters, Augmented(parameters, remainder)[name]), parameters.xor_output)

-----------------------------------------------------------------------------

\* The remainder of a division of polynomials, all of its bits at once.
Divided(dividend, divisor) ==
    LET n == Len(dividend) - Len(divisor) + 1
        Subtract(s, k) ==
            IF s[k] = 0 THEN s
            ELSE [j \in DOMAIN s |->
                     IF j \in k .. k + Len(divisor) - 1 THEN (s[j] + divisor[j - k + 1]) % 2 ELSE s[j]]
    IN  SubSeq(FoldLeft(Subtract, dividend, [k \in 1 .. n |-> k]), n + 1, Len(dividend))

\* All five calculators return the same check: the remainder of the initial
\* remainder, the message and as many zeros as the register has digits,
\* divided by the polynomial, reflected and XORed as the parameters say.
CalculatorsDivide ==
    LET p == parameters
        bytes == [k \in DOMAIN message |-> IF p.input_is_reflected THEN Reverse(message[k]) ELSE message[k]]
        dividend == p.initial_remainder \o FlattenSeq(bytes) \o Zeros(Len(p.polynomial))
        check == Divided(dividend, <<1>> \o p.polynomial)
    IN  \A name \in DOMAIN remainder :
            Calculated(name) = Xor(IF p.output_is_reflected THEN Reverse(check) ELSE check, p.xor_output)

=============================================================================
