-------------------------------- MODULE Pcm --------------------------------
(***************************************************************************)
(* The PCM sample formats and convert_sample (StupidAR/pcm.h).             *)
(*                                                                         *)
(* The specification takes a sample of any format through any sequence of  *)
(* convert_sample calls.  An integer sample is the value of its sample_t;  *)
(* a pcm24_t is its three bytes, least significant first.  A float or      *)
(* double is an integer multiple of half a unit, <<floor, half>>: the unit   *)
(* is 2^-23 for float and 2^-31 for double, the smallest step of the       *)
(* integer formats they are converted to, and the half tells what the      *)
(* cast to int32_t does with a fraction.  The variable holds any of them   *)
(* as a sequence of numbers.                                               *)
(***************************************************************************)
EXTENDS Integers, Sequences

CONSTANT Levels    \* the amplitudes, as 32-bit samples (int32_t), the inputs are made from

INT32_MIN == -2147483647 - 1
INT32_MAX == 2147483647

Of32   == {"S16of32", "S18of32", "S20of32", "S24of32"}
Format == {"U8", "S16", "S24", "S32", "Float", "Double"} \union Of32

\* The bits of amplitude a format holds.
Bits == [U8 |-> 8, S16 |-> 16, S24 |-> 24, S32 |-> 32, Float |-> 24,
         Double |-> 32, S16of32 |-> 16, S18of32 |-> 18, S20of32 |-> 20,
         S24of32 |-> 24]

-----------------------------------------------------------------------------
\* The low w bits of x as a signed number: what a cast to int<w>_t keeps.
Signed(x, w) == LET m == x % 2^w IN IF m >= 2^(w - 1) THEN m - 2^w ELSE m

\* int32_t shifts, k > 0; the bits shifted out at the left are lost.
Shl(x, k) == Signed(x, 32 - k) * 2^k
Shr(x, k) == x \div 2^k

\* The three parts do not overlap, so | is +.
int_value(s) == Signed(s[3], 8) * 2^16 + s[2] * 256 + s[1]

\* Bits 8..15, 16..23 and 24..31 of s24 << 8.
value_of(s24) == <<s24 % 256, (s24 \div 256) % 256, (s24 \div 2^16) % 256>>

\* The cast of a float or double to int32_t truncates towards zero.
Truncated(x) == IF x[1] < 0 THEN x[1] + x[2] ELSE x[1]

Exactly(n) == <<n, 0>>

-----------------------------------------------------------------------------
(* convert_sample, by the format converted from.  Each operator covers the *)
(* specialisations that share a shape; m is Bits[to].                      *)

S24_Float(s)  == Exactly(int_value(s))
Float_S24(s)  == value_of(Truncated(s))
S32_Double(s) == Exactly(s)
Double_S32(s) == Truncated(s)

S32_Any(s, to) ==
  CASE to = "U8"  -> (Shr(s, 24) + 128) % 256
    [] to = "S16" -> Signed(Shr(s, 16), 16)
    [] to \in Of32 -> Shr(s, 32 - Bits[to])
    [] to = "S24" -> value_of(Shr(s, 8))
    [] to = "S32" -> s
    [] to = "Float"  -> S24_Float(value_of(Shr(s, 8)))
    [] to = "Double" -> S32_Double(s)

U8_Any(s, to) ==
  CASE to = "S16" -> Signed((s - 128) * 256, 16)
    [] to \in Of32 -> Shl(s - 128, Bits[to] - 8)
    [] to = "S24" -> value_of(Shl(s - 128, 16))
    [] to = "S32" -> Shl(s - 128, 24)
    [] to = "Float"  -> S24_Float(value_of(Shl(s - 128, 16)))
    [] to = "Double" -> S32_Double(Shl(s - 128, 24))

S16_Any(s, to) ==
  CASE to = "U8"  -> (Shr(s, 8) + 128) % 256
    [] to = "S16" -> s
    [] to \in Of32 \ {"S16of32"} -> Shl(s, Bits[to] - 16)
    [] to = "S24" -> value_of(Shl(s, 8))
    [] to = "S32" -> Shl(s, 16)
    [] to = "Float"  -> S24_Float(value_of(Shl(s, 8)))
    [] to = "Double" -> S32_Double(Shl(s, 16))

\* Mutant: rounds to the nearest, as the narrower format would be played.
S24_S16_Nearest(s) == Signed(Shr(int_value(s) + 128, 8), 16)

S24_S16(s) == Signed(Shr(int_value(s), 8), 16)

S24_Any(s, to) ==
  CASE to = "U8"  -> (Shr(int_value(s), 16) + 128) % 256
    [] to \in {"S16", "S16of32"} -> S24_S16(s)
    [] to \in {"S18of32", "S20of32"} -> Shr(int_value(s), 24 - Bits[to])
    [] to = "S24of32" -> int_value(s)
    [] to = "S32" -> Shl(int_value(s), 8)
    [] to = "Float"  -> S24_Float(s)
    [] to = "Double" -> S32_Double(Shl(int_value(s), 8))

\* The sample's bits are moved to the top of the int32_t, whatever is above
\* them is lost, and down again.
Of32_Any(from, s, to) ==
  LET top == Shl(s, 32 - Bits[from]) IN
  CASE to = "U8"  -> (Shr(top, 24) + 128) % 256
    [] to = "S16" -> Signed(Shr(top, 16), 16)
    [] to \in Of32 -> Shr(top, 32 - Bits[to])
    [] to = "S24" -> value_of(Shr(top, 8))
    [] to = "S32" -> top
    [] to = "Float"  -> S24_Float(value_of(Shr(top, 8)))
    [] to = "Double" -> S32_Double(top)

Float_Any(s, to) ==
  IF to = "S24" THEN Float_S24(s) ELSE S24_Any(Float_S24(s), to)

Double_Any(s, to) == S32_Any(Double_S32(s), to)

convert_sample(from, to, s) ==
  CASE from = "U8"  -> U8_Any(s, to)
    [] from = "S16" -> S16_Any(s, to)
    [] from = "S24" -> S24_Any(s, to)
    [] from \in Of32 -> Of32_Any(from, s, to)
    [] from = "S32" -> S32_Any(s, to)
    [] from = "Float"  -> Float_Any(s, to)
    [] from = "Double" -> Double_Any(s, to)

\* The pairs convert_sample has a specialisation for: all of different formats
\* but one, and two of a format with itself.
Convertible(from, to) ==
  \/ from # to /\ <<from, to>> # <<"S16", "S16of32">>
  \/ from = to /\ from \in {"S16", "S32"}

-----------------------------------------------------------------------------
VARIABLES format, sample,
          level,     \* history: the amplitude the sample started with
          precision  \* history: the fewest bits of the formats passed through

vars == <<format, sample, level, precision>>

\* The variable's form of a value of format f, and back.
Numbers(f, s) == IF f \in {"S24", "Float", "Double"} THEN s ELSE <<s>>
Value(f, ns)  == IF f \in {"S24", "Float", "Double"} THEN ns ELSE ns[1]

\* The amplitude of a sample as a 32-bit number, written without the
\* conversions: what the sample means.
Amplitude(f, s) ==
  CASE f = "U8"  -> (s - 128) * 2^24
    [] f = "S16" -> s * 2^16
    [] f = "S32" -> s
    [] f = "S24" -> (Signed(s[3], 8) * 256 + s[2]) * 2^16 + s[1] * 256
    [] f \in Of32 -> Signed(s, Bits[f]) * 2^(32 - Bits[f])
    [] f = "Float"  -> Truncated(s) * 256
    [] f = "Double" -> Truncated(s)

\* Level x with its low 32 - b bits cleared.
Cut(x, b) == x - (x % 2^(32 - b))

\* The samples of format f made from level x: containers with any bits above
\* the sample, floats and doubles with and without a fraction.
Inputs(f, x) ==
  CASE f = "U8"  -> {x \div 2^24 + 128}
    [] f = "S16" -> {x \div 2^16}
    [] f = "S32" -> {x}
    [] f = "S24" -> {value_of(x \div 256)}
    [] f \in Of32 -> {x \div 2^(32 - Bits[f]), (x \div 2^(32 - Bits[f])) % 2^Bits[f]}
    [] f = "Float"  -> {<<x \div 256, h>> : h \in 0..1}
    [] f = "Double" -> {<<x, h>> : h \in 0..1}

Init ==
  /\ format \in Format
  /\ \E x \in Levels : \E s \in Inputs(format, x) :
       sample = Numbers(format, s) /\ level = Amplitude(format, s)
  /\ precision = Bits[format]

Convert(to) ==
  /\ Convertible(format, to)
  /\ format' = to
  /\ sample' = Numbers(to, convert_sample(format, to, Value(format, sample)))
  /\ precision' = IF Bits[to] < precision THEN Bits[to] ELSE precision
  /\ UNCHANGED level

Next == \E to \in Format : Convert(to)

-----------------------------------------------------------------------------
Range32 == INT32_MIN..INT32_MAX

\* The values of sample_t, by format.
Typed(f, s) ==
  CASE f = "U8"  -> s \in 0..255
    [] f = "S16" -> s \in -(2^15)..(2^15 - 1)
    [] f = "S24" -> s \in Seq(0..255) /\ Len(s) = 3
    [] f \in Of32 \cup {"S32"} -> s \in Range32
    [] f = "Float"  -> s[1] \in -(2^23)..(2^23 - 1) /\ s[2] \in 0..1
    [] f = "Double" -> s[1] \in Range32 /\ s[2] \in 0..1

\* Every sample has a value of its sample_t.
TypeOK ==
  /\ format \in Format /\ Typed(format, Value(format, sample))
  /\ level \in Range32 /\ precision \in 8..32

\* Whatever formats a sample passes through, and in whatever order, it keeps
\* the top bits of its amplitude that fit the narrowest of them, the bits below
\* are zero and nothing else is added: no conversion shifts by a wrong count,
\* loses a sign, wraps, or reads the bits above a sample in its container.
AmplitudeKept == Amplitude(format, Value(format, sample)) = Cut(level, precision)

\* A sample converted to a format with at least as many bits and back is the
\* same sample (Tests.cpp checks S16 and U8 through float and double), unless
\* it has a fraction or bits in its container that do not belong to it.
RoundTrip ==
  \A to \in Format :
    /\ Bits[to] >= Bits[format]
    /\ Convertible(format, to) /\ Convertible(to, format)
    => LET s    == Value(format, sample)
           back == convert_sample(to, format, convert_sample(format, to, s))
       IN /\ Amplitude(format, back) = Amplitude(format, s)
          /\ format \in {"U8", "S16", "S24", "S32"} => back = s

\* A sample is worth what it was, as far as the formats on its way can say it.
ConversionExact == TypeOK /\ AmplitudeKept /\ RoundTrip
=============================================================================
