---------------------------- MODULE BenchNumerics ----------------------------
(***************************************************************************)
(* maybe_saturate and saturate<dt> of tests/benchdnn/dnnl_common.hpp with *)
(* the limits of nstl::numeric_limits (src/common/nstl.hpp).  A float or  *)
(* integer value is kept exactly as m * 2^e: the values near the int32    *)
(* limits (2^31) are outside TLC's integers, and the point of the model is *)
(* what happens to them when C++ converts between int and float.          *)
(***************************************************************************)
EXTENDS Integers

CONSTANTS
    Inputs      \* float values passed to maybe_saturate, as Num(m, e)

Num(m, e) == <<m, e>>

RECURSIVE BitLen(_)
BitLen(n) == IF n = 0 THEN 0 ELSE 1 + BitLen(n \div 2)

Mag(x) == IF x[1] < 0 THEN -x[1] ELSE x[1]
Neg(x) == x[1] < 0
Signed(neg, m, e) == Num(IF neg THEN -m ELSE m, e)

\* Position of the leading one bit of |x|; equal tops and equal exponents
\* of the leading bit leave mantissas of the same bit length to compare.
Top(x) == BitLen(Mag(x)) + x[2]

MagLess(x, y) ==
    \/ Mag(x) = 0 /\ Mag(y) # 0
    \/ /\ Mag(x) # 0 /\ Mag(y) # 0
       /\ \/ Top(x) < Top(y)
          \/ /\ Top(x) = Top(y)
             /\ IF x[2] >= y[2] THEN Mag(x) * 2^(x[2] - y[2]) < Mag(y)
                                ELSE Mag(x) < Mag(y) * 2^(y[2] - x[2])

\* Exact comparison of the values two numbers stand for.
Less(x, y) ==
    CASE Neg(x) /\ ~Neg(y) -> TRUE
      [] ~Neg(x) /\ Neg(y) -> FALSE
      [] ~Neg(x)           -> MagLess(x, y)
      [] OTHER             -> MagLess(y, x)

\* Round |x| to an integer multiple of 2^s, to nearest with ties to even.
RoundAt(x, s) ==
    IF s <= x[2] THEN x
    ELSE LET d  == s - x[2]
             q  == Mag(x) \div 2^d
             r  == Mag(x) % 2^d
             up == r > 2^(d - 1) \/ (r = 2^(d - 1) /\ q % 2 = 1)
         IN  Signed(Neg(x), IF up THEN q + 1 ELSE q, s)

\* The implicit int -> float conversion: 24 significant bits, rounded to
\* nearest even (the limits involved are far below FLT_MAX).
ToFloat(x) == RoundAt(x, Top(x) - 24)

\* mxcsr_round(val): rounding to an integer under the default MXCSR mode,
\* to nearest with ties to even.
mxcsr_round(x) == RoundAt(x, 0)

-----------------------------------------------------------------------------
\* prec_traits<dt>::type for the data types of benchdnn.
prec_traits ==
    [bf16 |-> "bfloat16_t", f16 |-> "float16_t", f32 |-> "float",
     s32 |-> "int32_t", s8 |-> "int8_t", u8 |-> "uint8_t"]

DataTypes == DOMAIN prec_traits

\* nstl::numeric_limits<T>::lowest() and max() of the integer types, taken
\* from std::numeric_limits: -2^31 is written Num(-1, 31).
numeric_limits ==
    [int32_t |-> [lowest |-> Num(-1, 31), max |-> Num(2147483647, 0)],
     int8_t  |-> [lowest |-> Num(-128, 0), max |-> Num(127, 0)],
     uint8_t |-> [lowest |-> Num(0, 0),    max |-> Num(255, 0)]]

\* saturate<dt>(val): MAX2(lowest(), MIN2(max(), mxcsr_round(val))).  The
\* macros compare an integer limit with a float, so the limit is converted
\* to float first and the result is a float.
saturate(dt, val) ==
    LET lim == numeric_limits[prec_traits[dt]]
        lo  == ToFloat(lim.lowest)
        hi  == ToFloat(lim.max)
        v   == mxcsr_round(val)
        mn  == IF Less(hi, v) THEN hi ELSE v
    IN  IF Less(mn, lo) THEN lo ELSE mn

\* maybe_saturate(dt, value): the integer types are saturated, every other
\* data type passes through.
maybe_saturate(dt, value) ==
    IF dt \in {"s32", "s8", "u8"} THEN saturate(dt, value) ELSE value

-----------------------------------------------------------------------------
NoCall == [dt |-> "none"]

VARIABLE call   \* the last maybe_saturate call: its dt, input and result

Init == call = NoCall

\* A caller converts a value for a buffer of data type dt.
MaybeSaturate ==
    \E dt \in DataTypes, v \in Inputs :
        call' = [dt |-> dt, in |-> v, out |-> maybe_saturate(dt, v)]

Next == MaybeSaturate

Spec == Init /\ [][Next]_call

-----------------------------------------------------------------------------
(* Properties *)

\* The value maybe_saturate returns for an integer data type is stored into
\* a buffer of that type, so it must lie within the type's lowest() and
\* max(): a float outside them has no value in the type (the conversion is
\* undefined and on x86 gives INT_MIN).
SaturatedFits ==
    call # NoCall /\ call.dt \in {"s32", "s8", "u8"} =>
        LET lim == numeric_limits[prec_traits[call.dt]]
        IN  ~Less(call.out, lim.lowest) /\ ~Less(lim.max, call.out)
=============================================================================
