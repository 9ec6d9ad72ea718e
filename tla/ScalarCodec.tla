---------------------------- MODULE ScalarCodec -----------------------------
(***************************************************************************)
(* The integer encodings of write-value.ts and read-value.ts, and the      *)
(* decimal and hexadecimal strings of join64.ts.  JavaScript has neither   *)
(* 64-bit integers nor exact numbers of that size: the code works on two   *)
(* words and on signed and unsigned readings of each.                      *)
(*                                                                         *)
(* The widths are parameters, so that every word can be enumerated; in the *)
(* code a byte of a varint carries 7 bits, and a word has 4 * 7 + 4 bits.  *)
(* A byte is a number, a decimal or hexadecimal string its sign and its    *)
(* digits, most significant first.                                         *)
(***************************************************************************)
EXTENDS Integers, Sequences, SequencesExt

CONSTANTS
    VarintBits,   \* bits a byte of a varint carries: 7
    RestBits,     \* bits of a word that do not fit four such bytes: 4
    SafeBits,     \* numbers below 2^SafeBits are exact: 53
    ChunkBits,    \* bits of the lower chunks of unsignedDecimal: 24
    ChunkDigits,  \* decimal digits of its large digits: 7
    HexBits       \* bits of a digit of toString(16): 4

WordBits == 4 * VarintBits + RestBits
ByteBits == VarintBits + 1
Word == 2 ^ WordBits
More == 2 ^ VarintBits     \* 0x80
Sign == Word \div 2        \* 0x80000000

ASSUME VarintAssumption == VarintBits \in Nat /\ RestBits \in 1 .. VarintBits - 1
ASSUME SafeAssumption == SafeBits \in WordBits + 1 .. 2 * WordBits - 1
ASSUME ChunkAssumption ==
    /\ ChunkBits < WordBits /\ WordBits < 2 * ChunkBits
    /\ 10 ^ ChunkDigits < 2 ^ ChunkBits
ASSUME HexAssumption == WordBits % HexBits = 0

-----------------------------------------------------------------------------
(* JavaScript's bit operators on words *)

Unsigned(x) == x % Word                                           \* x >>> 0
Signed(x) == IF Unsigned(x) >= Sign THEN Unsigned(x) - Word       \* x | 0
                                    ELSE Unsigned(x)
Not(x) == Unsigned(-1 - x)                                        \* ~x >>> 0
Lowest(n, x) == x % (2 ^ n)                                       \* x & mask
Flip(mask, x) == IF mask THEN Not(x) ELSE Unsigned(x)             \* x ^ (0 or -1)

Words(low, high) == [low |-> low, high |-> high]
Magnitude(n) == IF n < 0 THEN 0 - n ELSE n

RECURSIVE Digits(_, _)
Digits(n, base) ==
    IF n < base THEN <<n>> ELSE Append(Digits(n \div base, base), n % base)

Pad(digits, length) ==
    [i \in 1 .. length - Len(digits) |-> 0] \o digits

Number(digits, base) == FoldLeft(LAMBDA n, d : n * base + d, 0, digits)

String(n, base) == [negative |-> n < 0, digits |-> Digits(Magnitude(n), base)]

-----------------------------------------------------------------------------
(* write-value.ts *)

(* Mutant: the byte is not cut to the bits it carries. *)
RECURSIVE MutSeptets(_)
MutSeptets(n) ==
    IF n >= More THEN <<More + n>> \o MutSeptets(n \div More)
    ELSE <<n>>

RECURSIVE Septets(_)
Septets(n) ==
    IF n >= More THEN <<More + Lowest(VarintBits, n)>> \o Septets(n \div More)
    ELSE <<n>>

(* A negative number: nine bytes of the shifted word, then a one. *)
Varint32(n) ==
    IF n >= 0 THEN Septets(n)
    ELSE [i \in 1 .. 9 |-> More + Lowest(VarintBits, n \div 2 ^ (VarintBits * (i - 1)))]
         \o <<1>>

RECURSIVE SplitVarint64(_, _)
SplitVarint64(low, high) ==
    IF high > 0 \/ low >= More
    THEN <<More + Lowest(VarintBits, low)>>
         \o SplitVarint64((low \div More) + Unsigned(high * 2 ^ (WordBits - VarintBits)),
                          high \div More)
    ELSE <<low>>

Split(n) == Words(Unsigned(n), Unsigned((n - Unsigned(n)) \div Word))

(* Mutant: the carry out of the low word is lost. *)
MutTwosComplement(n) ==
    LET w == Split(Magnitude(n))
    IN  IF n < 0 THEN Words(Unsigned(Not(w.low) + 1), Not(w.high)) ELSE w

(* The conversion in varint64 and in sfixed64. *)
TwosComplement(n) ==
    LET w == Split(Magnitude(n))
        low == Not(w.low) + 1
    IN  IF n >= 0 THEN w
        ELSE IF low < Word THEN Words(low, Not(w.high))
        ELSE Words(0, Unsigned(Not(w.high) + 1))

Varint64(n) ==
    LET w == TwosComplement(n) IN SplitVarint64(w.low, w.high)

ZigzagVarint32(n) == Varint32(Flip(n < 0, Unsigned(2 * n)))

ZigzagVarint64(n) ==
    LET w == Split(2 * Magnitude(n))
    IN  IF n >= 0 THEN SplitVarint64(w.low, w.high)
        ELSE IF w.low > 0 THEN SplitVarint64(w.low - 1, w.high)
        ELSE SplitVarint64(Word - 1, Unsigned(w.high - 1))

LittleEndian32(n) ==
    [i \in 1 .. 4 |-> Lowest(ByteBits, Unsigned(n) \div 2 ^ (ByteBits * (i - 1)))]

LittleEndian64(w) == LittleEndian32(w.low) \o LittleEndian32(w.high)

(* The writers of a number. *)
WriteNumber(type, n) ==
    CASE type \in {"int32", "uint32"}     -> Varint32(n)
      [] type \in {"int64", "uint64"}     -> Varint64(n)
      [] type = "sint32"                  -> ZigzagVarint32(n)
      [] type = "sint64"                  -> ZigzagVarint64(n)
      [] type \in {"fixed32", "sfixed32"} -> LittleEndian32(n)
      [] type = "fixed64"                 -> LittleEndian64(Split(n))
      [] type = "sfixed64"                -> LittleEndian64(TwosComplement(n))
      [] type = "bool"                    -> <<n>>

(* Long of the library "long": the two words of an integer modulo 2^64. *)
LongOf(n) == Words(Unsigned(n), Unsigned(n \div Word))
LongFromString(string, base) ==
    LET n == Number(string.digits, base) IN LongOf(IF string.negative THEN 0 - n ELSE n)

(* shiftLeft(1).xor(shiftRight(63)) *)
ZigzagLong(w) ==
    Words(Flip(w.high >= Sign, 2 * w.low),
          Flip(w.high >= Sign, 2 * w.high + (w.low \div Sign)))

(* The writers of a Long. *)
WriteLong(type, w) ==
    CASE type \in {"int64", "uint64"}     -> SplitVarint64(w.low, w.high)
      [] type = "sint64"                  ->
            LET z == ZigzagLong(w) IN SplitVarint64(z.low, z.high)
      [] type \in {"fixed64", "sfixed64"} -> LittleEndian64(w)

-----------------------------------------------------------------------------
(* join64.ts: strings of a 64-bit integer in two words *)

RadixWord == WordBits \div HexBits     \* hexadecimal digits of a word

PadHex(w) ==
    [negative |-> FALSE,
     digits |-> Pad(Digits(w.high, 2 ^ HexBits), RadixWord)
                \o Pad(Digits(w.low, 2 ^ HexBits), RadixWord)]

Hex(w) ==
    [negative |-> FALSE,
     digits |-> Digits(w.high, 2 ^ HexBits) \o Pad(Digits(w.low, 2 ^ HexBits), RadixWord)]

(* A chunk weighs 2^ChunkBits, two of them its square, in large digits. *)
Large == 10 ^ ChunkDigits
Weight1 == 2 ^ ChunkBits
Weight2 == 2 ^ (2 * ChunkBits)

(* Mutant: the large digits are not padded. *)
MutLargeDigits(n, leading) == IF n = 0 THEN << >> ELSE Digits(n, 10)

LargeDigits(n, leading) ==
    LET partial == IF n = 0 THEN << >> ELSE Digits(n, 10)
    IN  IF leading THEN Pad(partial, ChunkDigits) ELSE partial

UnsignedDecimal(low, high) ==
    LET top == Lowest(2 * (WordBits - ChunkBits), high \div 2 ^ (2 * ChunkBits - WordBits))
        mid == Lowest(ChunkBits, (low \div Weight1) + Unsigned(high * 2 ^ (WordBits - ChunkBits)))
        sumA == Lowest(ChunkBits, low) + mid * (Weight1 % Large) + top * (Weight2 % Large)
        sumB == mid * (Weight1 \div Large) + top * ((Weight2 \div Large) % Large)
                + (sumA \div Large)
        sumC == top * (Weight2 \div (Large * Large)) + (sumB \div Large)
    IN  IF high < 2 ^ (SafeBits - WordBits) THEN Digits(Word * high + low, 10)
        ELSE LargeDigits(sumC, FALSE)
             \o LargeDigits(sumB % Large, sumC # 0)
             \o LargeDigits(sumA % Large, TRUE)

(* What a negative number is written as, after its sign. *)
Negated(w) ==
    LET low == Unsigned(Not(w.low) + 1)
    IN  Words(low, Unsigned(Not(w.high) + (IF low = 0 THEN 1 ELSE 0)))

Decimal(w) == [negative |-> FALSE, digits |-> UnsignedDecimal(w.low, w.high)]

SignedDecimal(w) ==
    LET negative == Unsigned(w.high) >= Sign
    IN  [Decimal(IF negative THEN Negated(w) ELSE Words(Unsigned(w.low), w.high))
            EXCEPT !.negative = negative]

(* padStart, in read-value.ts, to the length of the largest integer.       *)
PadDecimal(w) ==
    [negative |-> FALSE,
     digits |-> Pad(Decimal(w).digits, Len(Digits(2 ^ (2 * WordBits) - 1, 10)))]

-----------------------------------------------------------------------------
(* read-value.ts.  A result is the value read and the bytes it took.       *)

Result(value, used) == [value |-> value, used |-> used]
LastByte(bytes) == CHOOSE i \in DOMAIN bytes :
    bytes[i] < More /\ \A j \in 1 .. i - 1 : bytes[j] >= More

(* The payload of bytes from up to to, the lowest bits first. *)
Payload(bytes, from, to) ==
    FoldRight(LAMBDA byte, n : Lowest(VarintBits, byte) + More * n,
              SubSeq(bytes, from, to), 0)

(* The fifth byte fills the word up; those after it are passed over, and   *)
(* leave the word signed.                                                  *)
ReadVarint32(bytes) ==
    LET last == LastByte(bytes)
        word == Unsigned(Payload(bytes, 1, IF last < 5 THEN last ELSE 5))
    IN  Result(IF last <= 5 THEN word ELSE Signed(word), last)

(* The fifth byte straddles the words. *)
ReadSplitVarint64(bytes) ==
    LET last == LastByte(bytes)
        middle == IF last < 5 THEN 0 ELSE Lowest(VarintBits, bytes[5])
    IN  Result(Words(Unsigned(Payload(bytes, 1, IF last < 5 THEN last ELSE 5)),
                     (middle \div 2 ^ RestBits)
                     + Unsigned(Payload(bytes, 6, last) * 2 ^ (VarintBits - RestBits))),
               last)

(* The words are signed, but for the decimal strings' sake that is the same.*)
FromZigzag64(w) ==
    LET odd == w.low % 2 = 1
    IN  Words(Flip(odd, (w.low \div 2) + Unsigned(w.high * Sign)), Flip(odd, w.high \div 2))

FromZigzag32(zigzag) ==
    LET half == Unsigned(zigzag) \div 2
    IN  Signed(IF zigzag % 2 = 1 THEN Not(half) ELSE half)

ReadSfixed32(bytes) ==
    Signed(FoldRight(LAMBDA byte, n : byte + 2 ^ ByteBits * n, SubSeq(bytes, 1, 4), 0))

ReadFixed32(bytes) == Unsigned(ReadSfixed32(bytes))
ReadFixed64(bytes) ==
    Words(ReadFixed32(bytes), ReadFixed32(SubSeq(bytes, 5, 8)))

(* A varint of one word as its type wants it; two words as a string.       *)
OfWord(type, read) ==
    CASE type = "bool"   -> Result(IF read.value = 0 THEN 0 ELSE 1, read.used)
      [] type = "sint32" -> Result(FromZigzag32(read.value), read.used)
      [] OTHER           -> read

OfWords(type, variation, w) ==
    CASE type = "uint64" /\ variation = "hex" -> Hex(w)
      [] type = "fixed64" /\ variation = "hexpad" -> PadHex(w)
      [] type = "fixed64" /\ variation = "decimalpad" -> PadDecimal(w)
      [] type \in {"int64", "sint64", "sfixed64"} ->
            SignedDecimal(IF type = "sint64" THEN FromZigzag64(w) ELSE w)
      [] OTHER -> Decimal(w)

ReadLong(type, variation, read) ==
    Result(OfWords(type, variation, read.value), read.used)

(* The readers, by the name under which field-types.ts has them. *)
ReadScalar(type, variation, bytes) ==
    CASE type = "fixed32"  -> Result(ReadFixed32(bytes), 4)
      [] type = "sfixed32" -> Result(ReadSfixed32(bytes), 4)
      [] type \in {"int32", "uint32", "sint32", "bool"} -> OfWord(type, ReadVarint32(bytes))
      [] OTHER ->
            ReadLong(type, variation,
                     IF type \in {"fixed64", "sfixed64"} THEN Result(ReadFixed64(bytes), 8)
                     ELSE ReadSplitVarint64(bytes))
=============================================================================
