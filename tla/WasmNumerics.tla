---------------------------- MODULE WasmNumerics ----------------------------
(***************************************************************************)
(* The numeric operators of WebAssembly twice: as the C functions of       *)
(* wasm-external-refs.cc compute them, which Liftoff calls where the CPU   *)
(* has no instruction, and as the WebAssembly specification defines them.  *)
(*                                                                         *)
(* An integer of w bits is a number of 0 .. 2^w - 1; i32 has Width bits    *)
(* and i64 twice as many.  A float is a number of halves, so that values   *)
(* that are not whole exist, and has Mantissa significant bits; Infinity   *)
(* and NaN are numbers beyond all finite ones.                             *)
(***************************************************************************)
EXTENDS Integers, Sequences, FiniteSetsExt

CONSTANTS Width, Mantissa
ASSUME WidthAssumption    == Width \in Nat \ {0}
ASSUME MantissaAssumption == Mantissa \in Nat \ {0}

---------------------------------------------------------------------------
(* Integers. *)

Bits(kind) == CASE kind = "i64" -> 2 * Width [] kind = "s128" -> 4 * Width [] OTHER -> Width
Modulus(kind) == 2^Bits(kind)
Wrap(kind, n) == n % Modulus(kind)
Signed(kind, n) == IF n < Modulus(kind) \div 2 THEN n ELSE n - Modulus(kind)
MinInt(kind) == -(Modulus(kind) \div 2)
MaxInt(kind) == Modulus(kind) \div 2 - 1

Bit(n, i) == (n \div 2^i) % 2
Bitwise2(kind, op(_, _), a, b) ==
  SumSet({2^i * op(Bit(a, i), Bit(b, i)) : i \in 0..(Bits(kind) - 1)})

\* Division of C and of WebAssembly rounds towards zero.
Abs(n) == IF n < 0 THEN -n ELSE n
Quotient(a, b)  == IF (a < 0) = (b < 0) THEN Abs(a) \div Abs(b) ELSE -(Abs(a) \div Abs(b))
Remainder(a, b) == a - b * Quotient(a, b)

BitsSet(kind, n) == {i \in 0..(Bits(kind) - 1) : Bit(n, i) = 1}
CountLeadingZeros(kind, n) ==
  IF n = 0 THEN Bits(kind) ELSE Bits(kind) - 1 - Max(BitsSet(kind, n))
CountTrailingZeros(kind, n) == IF n = 0 THEN Bits(kind) ELSE Min(BitsSet(kind, n))
ShiftLeft(kind, n, by)  == Wrap(kind, n * 2^by)
ShiftRight(n, by) == n \div 2^by

---------------------------------------------------------------------------
(* Floats. *)

Infinity == 2^(2 * Width + 3)
NaN      == 2 * Infinity
Finite(f) == Abs(f) < Infinity

\* A whole number rounded to Mantissa bits, to nearest, ties to even.
RoundToNearest(n) ==
  LET size == IF n = 0 THEN 0 ELSE CHOOSE k \in 1..(2 * Width + 1) : 2^(k - 1) <= n /\ n < 2^k
      ulp  == IF size <= Mantissa THEN 1 ELSE 2^(size - Mantissa)
      down == n \div ulp
      rest == 2 * (n % ulp)
      up   == rest > ulp \/ (rest = ulp /\ down % 2 = 1)
  IN  (IF up THEN down + 1 ELSE down) * ulp

Float(n) == IF n < 0 THEN -2 * RoundToNearest(-n) ELSE 2 * RoundToNearest(n)
Truncate(f) == Quotient(f, 2)

\* The whole float that fn rounds f to; nearest takes the even one of two.
RoundToWhole(fn, f) ==
  LET down == 2 * (f \div 2)
  IN  CASE ~Finite(f) \/ f % 2 = 0 -> f
        [] fn = "floor" -> down
        [] fn = "ceil"  -> down + 2
        [] fn = "trunc" -> IF f < 0 THEN down + 2 ELSE down
        [] fn = "nearest" -> IF down % 4 = 0 THEN down ELSE down + 2

---------------------------------------------------------------------------
(* The C functions.  A function that may trap returns <<flag, result>>; 1 *)
(* is success, 0 and -1 are the two traps.                                *)

int64_div(a, b) ==
  LET x == Signed("i64", a) y == Signed("i64", b)
  IN  IF b = 0 THEN <<0, a>>
      ELSE IF y = -1 /\ x = MinInt("i64") THEN <<-1, a>>
      ELSE <<1, Wrap("i64", Quotient(x, y))>>
int64_mod(a, b) ==
  LET x == Signed("i64", a) y == Signed("i64", b)
  IN  IF b = 0 THEN <<0, a>>
      ELSE IF y = -1 /\ x = MinInt("i64") THEN <<1, 0>>
      ELSE <<1, Wrap("i64", Remainder(x, y))>>
uint64_div(a, b) == IF b = 0 THEN <<0, a>> ELSE <<1, a \div b>>
uint64_mod(a, b) == IF b = 0 THEN <<0, a>> ELSE <<1, a % b>>

\* The two halves have no bit in common unless the shift is a multiple of the
\* width, when they are equal.
Or(kind, a, b) == Bitwise2(kind, LAMBDA x, y : IF x + y > 0 THEN 1 ELSE 0, a, b)
word_rol(kind, n, shift) ==
  LET w == Bits(kind)
  IN  Or(kind, ShiftLeft(kind, n, shift % w), ShiftRight(n, (w - shift) % w))
word_ror(kind, n, shift) ==
  LET w == Bits(kind)
  IN  Or(kind, ShiftRight(n, shift % w), ShiftLeft(kind, n, (w - shift) % w))

word_popcnt(kind, n) == Cardinality(BitsSet(kind, n))

\* base::IsValueInRangeForNumericType: the range is open, for a float between
\* the largest integer and the next is converted to it.
InRange(f, low, high) == Finite(f) /\ 2 * (low - 1) < f /\ f < 2 * (high + 1)

Low(signed)  == IF signed THEN MinInt("i64") ELSE 0
High(signed) == IF signed THEN MaxInt("i64") ELSE Modulus("i64") - 1

float_to_int64(f, signed) ==
  IF InRange(f, Low(signed), High(signed))
    THEN <<1, Wrap("i64", Truncate(f))>> ELSE <<0, 0>>
float_to_int64_sat(f) ==
  IF InRange(f, Low(TRUE), High(TRUE)) THEN Wrap("i64", Truncate(f))
  ELSE IF f = NaN THEN 0
  ELSE IF f < 0 THEN Wrap("i64", Low(TRUE)) ELSE High(TRUE)
float_to_uint64_sat(f) ==
  IF InRange(f, 0, High(FALSE)) THEN Truncate(f)
  ELSE IF f # NaN /\ f >= Float(High(FALSE)) THEN High(FALSE) ELSE 0

int64_to_float(n) == Float(Signed("i64", n))

\* The build for Windows converts Mantissa + 2 bits, the last of which stands for
\* all bits after it, and multiplies by a power of two whose exponent is encoded
\* with a bias in 8 bits.
uint64_to_float_win(n) ==
  LET w == Bits("i64")
      num_extracted_bits == Mantissa + 1
      num_aggregation_bits == w - num_extracted_bits - CountLeadingZeros("i64", n)
      extracted == Or("i64", ShiftRight(n, num_aggregation_bits - 1), 1)
      shift_back == num_aggregation_bits - 1 - 2
      encoded == (shift_back - 127) % 256
  IN  IF CountLeadingZeros("i64", n) + CountTrailingZeros("i64", n) + num_extracted_bits < w
        THEN Float(extracted) * 2^(encoded - 127)
        ELSE Float(n)

=============================================================================
