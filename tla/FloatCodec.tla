----------------------------- MODULE FloatCodec -----------------------------
(***************************************************************************)
(* float and double of write-value.ts and read-value.ts.                   *)
(*                                                                         *)
(* A JavaScript number is a sign and a magnitude; a finite magnitude is an *)
(* integer, in units of the least double.  The formats are parameters: in  *)
(* the code a word has 32 bits, a double 11 exponent bits and a float 8.   *)
(***************************************************************************)
EXTENDS ScalarCodec

CONSTANTS
    FloatWordBits,       \* bits of a float, and of each half of a double: 32
    FloatExponentBits,   \* 8
    DoubleExponentBits   \* 11

FloatMantissaBits == FloatWordBits - 1 - FloatExponentBits        \* 23
HighMantissaBits == FloatWordBits - 1 - DoubleExponentBits        \* 20
DoubleMantissaBits == HighMantissaBits + FloatWordBits            \* 52

FloatBias == 2 ^ (FloatExponentBits - 1) - 1                      \* 127
DoubleBias == 2 ^ (DoubleExponentBits - 1) - 1                    \* 1023

ASSUME FormatAssumption ==
    /\ FloatWordBits <= WordBits
    /\ FloatExponentBits < DoubleExponentBits
    /\ DoubleExponentBits < FloatWordBits - 1

(* The unit is 2^-UnitBits; 2^exp is Power(exp) of them. *)
UnitBits == DoubleBias - 1 + DoubleMantissaBits
Power(exp) == 2 ^ (exp + UnitBits)

(* FLOAT32_MIN, FLOAT32_MAX, FLOAT64_MIN, and the least float. *)
FloatLeast == Power(1 - FloatBias - FloatMantissaBits)
FloatMin == Power(1 - FloatBias)
FloatMax == (2 ^ (FloatMantissaBits + 1) - 1) * Power(FloatBias - FloatMantissaBits)
DoubleMin == Power(1 - DoubleBias)

Finite(sign, n) == [is |-> "finite", sign |-> sign, n |-> n]
Infinite(sign) == [is |-> "infinite", sign |-> sign, n |-> 0]
NaN == [is |-> "nan", sign |-> 0, n |-> 0]

(* The exponent of a normal magnitude. *)
Exponent(n) == CHOOSE e \in 1 - DoubleBias .. DoubleBias : Power(e) <= n /\ n < Power(e + 1)

-----------------------------------------------------------------------------
(* write-value.ts *)

FloatWord(sign, exp, mantissa) ==
    LittleEndian32(sign * 2 ^ (FloatWordBits - 1) + exp * 2 ^ FloatMantissaBits + mantissa)

DoubleWords(sign, exp, mantissa) ==
    LittleEndian32(Lowest(FloatWordBits, mantissa))
    \o LittleEndian32(sign * 2 ^ (FloatWordBits - 1) + exp * 2 ^ HighMantissaBits
                      + mantissa \div 2 ^ FloatWordBits)

(* Math.round of n / unit *)
Round(n, unit) == (2 * n + unit) \div (2 * unit)

(* A mantissa rounded up to the least normal one sets the exponent. *)
DenormalFloat32(sign, n) == FloatWord(sign, 0, Round(n, FloatLeast))

(* The logarithm that finds the exponent is taken to be exact.  The rounded*)
(* mantissa is masked: a carry out of it is dropped.                       *)
NormalFloat32(sign, n) ==
    LET unit == Power(Exponent(n) - FloatMantissaBits)
    IN  FloatWord(sign, Exponent(n) + FloatBias, Lowest(FloatMantissaBits, Round(n, unit)))

(* The halves of the mantissa of a denormal are those of its magnitude.    *)
DenormalFloat64(sign, n) == DoubleWords(sign, 0, n)

NormalFloat64(sign, n) ==
    LET unit == Power(Exponent(n) - DoubleMantissaBits)
    IN  DoubleWords(sign, Exponent(n) + DoubleBias, Lowest(DoubleMantissaBits, n \div unit))

AllOnes(bits) == 2 ^ bits - 1

WriteDouble(v) ==
    CASE v.is = "nan" -> DoubleWords(0, AllOnes(DoubleExponentBits), AllOnes(DoubleMantissaBits))
      [] v.is = "infinite" -> DoubleWords(v.sign, AllOnes(DoubleExponentBits), 0)
      [] OTHER -> IF v.n = 0 THEN DoubleWords(v.sign, 0, 0)
                  ELSE IF v.n < DoubleMin THEN DenormalFloat64(v.sign, v.n)
                  ELSE NormalFloat64(v.sign, v.n)

WriteFloat(v) ==
    CASE v.is = "nan" -> FloatWord(0, AllOnes(FloatExponentBits), AllOnes(FloatMantissaBits))
      [] v.is = "infinite" -> FloatWord(v.sign, AllOnes(FloatExponentBits), 0)
      [] OTHER -> IF v.n = 0 THEN FloatWord(v.sign, 0, 0)
                  ELSE IF v.n > FloatMax THEN FloatWord(v.sign, AllOnes(FloatExponentBits), 0)
                  ELSE IF v.n < FloatMin THEN DenormalFloat32(v.sign, v.n)
                  ELSE NormalFloat32(v.sign, v.n)

-----------------------------------------------------------------------------
(* read-value.ts and float64 of join64.ts *)

(* A word or two as sign, exponent and mantissa, made a number.            *)
Compose(sign, exp, mantissa, exponentBits, mantissaBits) ==
    LET bias == 2 ^ (exponentBits - 1) - 1
    IN  IF exp = AllOnes(exponentBits)
        THEN IF mantissa # 0 THEN NaN ELSE Infinite(sign)
        ELSE IF exp = 0 THEN Finite(sign, mantissa * Power(1 - bias - mantissaBits))
        ELSE Finite(sign, (mantissa + 2 ^ mantissaBits) * Power(exp - bias - mantissaBits))

ReadFloat(bytes) ==
    LET w == ReadFixed32(bytes)
    IN  Compose(w \div 2 ^ (FloatWordBits - 1),
                Lowest(FloatExponentBits, w \div 2 ^ FloatMantissaBits),
                Lowest(FloatMantissaBits, w), FloatExponentBits, FloatMantissaBits)

ReadDouble(bytes) ==
    LET w == ReadFixed64(bytes)
    IN  Compose(w.high \div 2 ^ (FloatWordBits - 1),
                Lowest(DoubleExponentBits, w.high \div 2 ^ HighMantissaBits),
                2 ^ FloatWordBits * Lowest(HighMantissaBits, w.high) + w.low,
                DoubleExponentBits, DoubleMantissaBits)
=============================================================================
