------------------------------- MODULE Numeric -------------------------------
(***************************************************************************)
(* Division by an invariant divisor (math/fast_div.c), the fixed-point     *)
(* formats (math/fixed_point.h) and the bit scans (math/bits.h), at a      *)
(* reduced word width.  An operator takes the width w of its words; the    *)
(* 64-bit ones split a word into halves of w \div 2 bits as the code does. *)
(* Machine integers are kept in two's complement range by WrapTo.            *)
(***************************************************************************)
EXTENDS Integers, FiniteSets, FiniteSetsExt

CONSTANTS DivBits,      \* width of the divisions
          FxBits        \* width of the 32-bit and of the 64-bit fixed-point formats

ASSUME NumericAssumption == DivBits \in {4, 8} /\ FxBits \in {4, 8}

VARIABLE num            \* the divisor that was prepared, or the operand under test

U(w, x) == x % 2 ^ w
WrapTo(w, x) == ((x + 2 ^ (w - 1)) % 2 ^ w) - 2 ^ (w - 1)
UWord(w) == 0 .. 2 ^ w - 1
SignedWord(w) == -(2 ^ (w - 1)) .. 2 ^ (w - 1) - 1
Shr(x, k) == x \div 2 ^ k
Abs(x) == IF x < 0 THEN -x ELSE x
\* C's division truncates toward zero.
CDiv(a, b) == IF (a < 0) = (b < 0) THEN Abs(a) \div Abs(b) ELSE -(Abs(a) \div Abs(b))
CRem(a, b) == a - b * CDiv(a, b)
BitsOf(w, x) == {i \in 0 .. w - 1 : Shr(x, i) % 2 = 1}

(***************************** Bit scans (portable path) *******************)

\* The widths the binary search tries, 16 8 4 2 1 for a 32-bit word.
Steps(w) == IF w = 8 THEN <<4, 2, 1>> ELSE <<2, 1>>

ClzStep(w, s, r) == IF Shr(r.x, w - s) = 0 THEN [n |-> r.n + s, x |-> U(w, r.x * 2 ^ s)] ELSE r
CtzStep(s, r) == IF r.x % 2 ^ s = 0 THEN [n |-> r.n + s, x |-> Shr(r.x, s)] ELSE r

bits_clz32(w, x) ==
    LET run[i \in 0 .. Cardinality(DOMAIN Steps(w))] ==
            IF i = 0 THEN [n |-> 0, x |-> x] ELSE ClzStep(w, Steps(w)[i], run[i - 1])
    IN IF x = 0 THEN w ELSE run[Cardinality(DOMAIN Steps(w))].n

bits_ctz32(w, x) ==
    LET run[i \in 0 .. Cardinality(DOMAIN Steps(w))] ==
            IF i = 0 THEN [n |-> 0, x |-> x] ELSE CtzStep(Steps(w)[i], run[i - 1])
    IN IF x = 0 THEN w ELSE run[Cardinality(DOMAIN Steps(w))].n

\* w is the width of a half.
bits_clz64(w, x) == IF x = 0 THEN 2 * w
                    ELSE IF Shr(x, w) = 0 THEN w + bits_clz32(w, U(w, x)) ELSE bits_clz32(w, Shr(x, w))
bits_ctz64(w, x) == IF x = 0 THEN 2 * w
                    ELSE IF U(w, x) = 0 THEN w + bits_ctz32(w, Shr(x, w)) ELSE bits_ctz32(w, U(w, x))

\* Pairs of bits, then nibbles, are summed in place.
PairSums(w, x) == x - MapThenSumSet(LAMBDA i : 2 ^ i, {i \in BitsOf(w, Shr(x, 1)) : i % 2 = 0})
NibbleSums(w, x) == MapThenSumSet(LAMBDA i : (Shr(x, 2 * i) % 4) * 16 ^ (i \div 2), 0 .. w \div 2 - 1)
bits_popcount32(w, x) == LET s == NibbleSums(w, PairSums(w, x)) IN U(4, s) + Shr(s, 4)
bits_popcount64(w, x) == bits_popcount32(w, U(w, x)) + bits_popcount32(w, Shr(x, w))

(***************************** Division ************************************)

IsPow2(w, d) == d \in {2 ^ i : i \in 0 .. w - 1}
mulhi_u32(w, a, b) == Shr(a * b, w)

\* The high word of a product from four products of halves; only the carries of the low
\* half are kept.
mulhi_u64(w, a, b) ==
    LET h == w \div 2
        lolo == U(h, a) * U(h, b)
        hilo == Shr(a, h) * U(h, b)
        lohi == U(h, a) * Shr(b, h)
        mid == Shr(lolo, h) + U(h, hilo) + U(h, lohi)
    IN U(w, Shr(a, h) * Shr(b, h) + Shr(hilo, h) + Shr(lohi, h) + Shr(mid, h))

\* The reciprocal m = ceil(2^(w+L) / d), stored without its top bit when it has w + 1 bits.
Magic(w, L, m) == [magic |-> U(w, m), shift |-> L, add |-> m >= 2 ^ w, pow2 |-> FALSE]
Pow2(w, d, clz) == [magic |-> 0, shift |-> w - 1 - clz, add |-> FALSE, pow2 |-> TRUE]

\* For L = w the numerator does not fit twice the width: the quotient of 2^2w - 1 is bumped.
fdiv_u32_prepare(w, d) ==
    LET L == w - bits_clz32(w, d - 1)
    IN IF IsPow2(w, d) THEN Pow2(w, d, bits_clz32(w, d))
       ELSE Magic(w, L, IF L < w THEN (2 ^ (w + L) + d - 1) \div d
                                 ELSE (2 ^ (2 * w) - 1) \div d + 1)

\* One step of the long division of 2^(w+L) by d: the remainder is doubled into a bit it may
\* not have room for.
LongDivStep(w, d, bitIn, s) ==
    LET carry == Shr(s.rem, w - 1) = 1
        rem == U(w, 2 * s.rem) + bitIn
        ge == carry \/ rem >= d
    IN [rem |-> IF ge THEN U(w, rem - d) ELSE rem,
        q |-> 2 * s.q + IF ge THEN 1 ELSE 0]

fdiv_u64_prepare(w, d) ==
    LET L == w - bits_clz64(w \div 2, d - 1)
        run[i \in 0 .. w + L + 1] ==
            IF i = 0 THEN [rem |-> 0, q |-> 0]
            ELSE LongDivStep(w, d, IF i = 1 THEN 1 ELSE 0, run[i - 1])
    IN IF IsPow2(w, d) THEN Pow2(w, d, bits_clz64(w \div 2, d))
       ELSE Magic(w, L, run[w + L + 1].q + 1)

\* (n + t) >> L computed without leaving the word.
Divide(w, n, p, t) ==
    IF p.pow2 THEN Shr(n, p.shift)
    ELSE IF p.add THEN Shr(U(w, Shr(U(w, n - t), 1) + t), p.shift - 1)
    ELSE Shr(t, p.shift)

fdiv_u32(w, n, p) == Divide(w, n, p, mulhi_u32(w, n, p.magic))
fdiv_u64(w, n, p) == Divide(w, n, p, mulhi_u64(w, n, p.magic))

\* SignedWord division works on magnitudes; the quotient is negated if one operand is negative.
fdiv_s32_prepare(w, d) == fdiv_u32_prepare(w, Abs(d))
fdiv_s64_prepare(w, d) == fdiv_u64_prepare(w, Abs(d))
Sign(n, d, q) == IF (n < 0) # (d < 0) THEN -q ELSE q
fdiv_s32(w, n, d, p) == WrapTo(w, Sign(n, d, fdiv_u32(w, Abs(n), p)))
fdiv_s64(w, n, d, p) == WrapTo(w, Sign(n, d, fdiv_u64(w, Abs(n), p)))

fdiv_u32_qr(w, n, d, p) == LET q == fdiv_u32(w, n, p) IN <<q, U(w, n - q * d)>>
fdiv_u64_qr(w, n, d, p) == LET q == fdiv_u64(w, n, p) IN <<q, U(w, n - q * d)>>
fdiv_s32_qr(w, n, d, p) == LET q == fdiv_s32(w, n, d, p) IN <<q, WrapTo(w, n - q * d)>>
fdiv_s64_qr(w, n, d, p) == LET q == fdiv_s64(w, n, d, p) IN <<q, WrapTo(w, n - q * d)>>

(***************************** Fixed point *********************************)

\* A format is its width and its fraction bits. Q15, Q31 and Q16.16 compute in twice their
\* width, Q32.32 and Q48.16 in halves of their own.
Q15 == [w |-> FxBits, f |-> FxBits - 1, one |-> 2 ^ (FxBits - 1) - 1]
Q31 == [w |-> FxBits, f |-> FxBits - 1, one |-> 2 ^ (FxBits - 1) - 1]
Q16 == [w |-> FxBits, f |-> FxBits \div 2, one |-> 2 ^ (FxBits \div 2)]
Q32 == [w |-> FxBits, f |-> FxBits \div 2, one |-> 2 ^ (FxBits \div 2)]
Q48 == [w |-> FxBits, f |-> FxBits \div 4, one |-> 2 ^ (FxBits \div 4)]
Narrow == {Q15, Q31, Q16}
Wide == {Q32, Q48}

FxMax(F) == 2 ^ (F.w - 1) - 1
FxMin(F) == -(2 ^ (F.w - 1))
fx_sat(F, v) == IF v > FxMax(F) THEN FxMax(F) ELSE IF v < FxMin(F) THEN FxMin(F) ELSE v

NarrowMul(F, a, b) == WrapTo(F.w, Shr(a * b, F.f))
NarrowDiv(F, a, b) == WrapTo(F.w, CDiv(a * 2 ^ F.f, b))
NarrowSatMul(F, a, b) == fx_sat(F, Shr(a * b, F.f))
fx_mac(F, a, b, c) == WrapTo(F.w, a + NarrowMul(F, b, c))
fx_reciprocal(F, x) == NarrowDiv(F, F.one, x)
fx_sat_neg(F, a) == IF a = FxMin(F) THEN FxMax(F) ELSE -a
fx_sat_abs(F, a) == IF a = FxMin(F) THEN FxMax(F) ELSE Abs(a)

\* The wide formats have no wider type to saturate from: overflow shows in the signs.
q32_sat_add(F, a, b) == LET r == WrapTo(F.w, a + b)
                        IN IF ((a < 0) = (b < 0)) /\ ((a < 0) # (r < 0)) THEN IF a < 0 THEN FxMin(F) ELSE FxMax(F)
                           ELSE r
q32_sat_sub(F, a, b) == LET r == WrapTo(F.w, a - b)
                        IN IF ((a < 0) # (b < 0)) /\ ((a < 0) # (r < 0)) THEN IF a < 0 THEN FxMin(F) ELSE FxMax(F)
                           ELSE r

\* The signed high halves and unsigned low halves of both operands.
HalfProducts(F, a, b) ==
    LET h == F.w \div 2
        ah == Shr(a, h)  al == U(h, U(F.w, a))
        bh == Shr(b, h)  bl == U(h, U(F.w, b))
    IN [hihi |-> ah * bh, cross |-> ah * bl + al * bh, lolo |-> al * bl]

q32_mul(F, a, b) == LET p == HalfProducts(F, a, b)
                    IN WrapTo(F.w, p.hihi * 2 ^ (F.w \div 2) + p.cross + Shr(p.lolo, F.w \div 2))
q48_mul(F, a, b) == LET p == HalfProducts(F, a, b)
                    IN WrapTo(F.w, p.hihi * 2 ^ (F.w - F.f) + p.cross * 2 ^ (F.w \div 2 - F.f) + Shr(p.lolo, F.f))

\* The low half is scaled by the magnitude and so rounds toward zero for a negative scale.
q32_scale_q16(a, s) ==
    LET h == Q32.w \div 2
        f == Q32.w \div 4
        lo == Shr(U(h, U(Q32.w, a)) * Abs(s), f)
    IN WrapTo(Q32.w, (Shr(a, h) * s) * 2 ^ (h - f) + IF s < 0 THEN -lo ELSE lo)

\* The remainder is shifted within the word: its top bits are lost for a large divisor.
WideDiv(F, a, b) == WrapTo(F.w, WrapTo(F.w, CDiv(a, b) * 2 ^ F.f) + CDiv(WrapTo(F.w, CRem(a, b) * 2 ^ F.f), b))

\* Square root, two bits of the argument at a time, from the top even power of two.
fx_isqrt64(w, x) ==
    LET start == CHOOSE i \in 0 .. w \div 2 : (i = 0 \/ 4 ^ (i - 1) <= x) /\ \A j \in i + 1 .. w \div 2 : 4 ^ (j - 1) > x
        run[i \in 0 .. start] ==
            IF i = 0 THEN [x |-> x, res |-> 0]
            ELSE LET s == run[i - 1]
                     bit == 4 ^ (start - i)
                 IN IF s.x >= s.res + bit THEN [x |-> s.x - s.res - bit, res |-> Shr(s.res, 1) + bit]
                    ELSE [s EXCEPT !.res = Shr(s.res, 1)]
    IN run[start].res
q16_sqrt(x) == IF x <= 0 THEN 0 ELSE fx_isqrt64(2 * Q16.w, x * 2 ^ Q16.f)
q16_rsqrt(x) == IF x <= 0 THEN FxMax(Q16) ELSE fx_isqrt64(2 * Q16.w, 2 ^ (3 * Q16.f) \div x)

\* Between formats: a wider fraction is dropped towards minus infinity, then saturated.
q31_to_q15(x) == Shr(x, FxBits \div 2)
q32_to_q16(x) == fx_sat(Q16, Shr(x, Q32.f \div 2))
q16_to_int_round(x) == Shr(x + Q16.one \div 2, Q16.f)

-----------------------------------------------------------------------------
Kinds64 == {"u32", "u64", "s32", "s64"}

NumInit == num = [op |-> "none", d |-> 0]

\* A divisor is prepared once; the caller excludes 0 and the smallest signed value.
Prepare(op, d) ==
    /\ num.op = "none"
    /\ d # 0
    /\ num' = [op |-> op, d |-> d,
               p |-> CASE op = "u32" -> fdiv_u32_prepare(DivBits, d)
                       [] op = "u64" -> fdiv_u64_prepare(DivBits, d)
                       [] op = "s32" -> fdiv_s32_prepare(DivBits, d)
                       [] op = "s64" -> fdiv_s64_prepare(DivBits, d)]
Operand(a) == num.op = "none" /\ num' = [op |-> "fx", d |-> a]

NumNext ==
    \/ \E d \in UWord(DivBits) : \E op \in {"u32", "u64"} : Prepare(op, d)
    \/ \E d \in SignedWord(DivBits) \ {-(2 ^ (DivBits - 1))} : \E op \in {"s32", "s64"} : Prepare(op, d)
    \/ \E a \in SignedWord(FxBits) : Operand(a)

\* fdiv_* is a drop-in replacement for / and %: for every divisor, also those whose reciprocal
\* needs one bit more than the word, and for every dividend, the quotient and the remainder are
\* those of C's truncating division (the quotient of the smallest value by -1 wraps). The bit
\* scans the reciprocals are built from agree with their definition, zero included.
DivisionExact ==
    LET w == DivBits  d == num.d
    IN /\ num.op = "u32" => \A n \in UWord(w) : fdiv_u32_qr(w, n, d, num.p) = <<n \div d, n % d>>
       /\ num.op = "u64" => \A n \in UWord(w) : fdiv_u64_qr(w, n, d, num.p) = <<n \div d, n % d>>
       /\ num.op = "s32" => \A n \in SignedWord(w) : fdiv_s32_qr(w, n, d, num.p) = <<WrapTo(w, CDiv(n, d)), CRem(n, d)>>
       /\ num.op = "s64" => \A n \in SignedWord(w) : fdiv_s64_qr(w, n, d, num.p) = <<WrapTo(w, CDiv(n, d)), CRem(n, d)>>
       /\ num.op = "u32" =>
            LET b == BitsOf(w, d)
            IN /\ bits_clz32(w, d) = w - 1 - Max(b) /\ bits_clz64(w \div 2, d) = w - 1 - Max(b)
               /\ bits_ctz32(w, d) = Min(b) /\ bits_ctz64(w \div 2, d) = Min(b)
               /\ bits_popcount32(w, d) = Cardinality(b) /\ bits_popcount64(w \div 2, d) = Cardinality(b)

Near(x, y) == Abs(x - y) <= 1

\* The fixed-point formats that have no wider type to compute in agree with exact arithmetic:
\* products of halves give the exact product modulo the word, saturation found from signs is
\* the clamp of the exact sum, scaling is within one unit, a quotient by less than one half is
\* within one unit, and the square roots are the floors of the real ones.
FixedPointExact ==
    num.op = "fx" =>
        /\ \A b \in SignedWord(FxBits) :
             LET a == num.d IN
             /\ q32_mul(Q32, a, b) = WrapTo(FxBits, Shr(a * b, Q32.f))
             /\ q48_mul(Q48, a, b) = WrapTo(FxBits, Shr(a * b, Q48.f))
             /\ \A F \in Wide : /\ q32_sat_add(F, a, b) = fx_sat(F, a + b)
                                /\ q32_sat_sub(F, a, b) = fx_sat(F, a - b)
                                /\ b # 0 /\ Abs(b) <= 2 ^ (F.w - 1 - F.f)
                                     => Near(WideDiv(F, a, b), WrapTo(F.w, CDiv(a * 2 ^ F.f, b)))
             /\ LET e == Shr(a * b, Q32.w \div 4)
                IN e \in SignedWord(Q32.w) \ {FxMin(Q32), FxMax(Q32)} => Near(q32_scale_q16(a, b), e)
        /\ LET x == num.d  r == q16_sqrt(x)  i == q16_rsqrt(x)
           IN x > 0 => /\ r * r <= x * 2 ^ Q16.f /\ (r + 1) * (r + 1) > x * 2 ^ Q16.f
                       /\ i * i * x <= 2 ^ (3 * Q16.f) /\ (i + 1) * (i + 1) * x > 2 ^ (3 * Q16.f)
                       /\ LET y == fx_reciprocal(Q16, x)
                          IN x > 2 => 2 ^ (2 * Q16.f) - x < x * y /\ x * y <= 2 ^ (2 * Q16.f)

\* As fixed_point.h says of q32_div, "For |a| < 2^32 this is exact": not so for a divisor of
\* one half or more, whose remainder loses its top bits.
Q32DivExact ==
    num.op = "fx" =>
        \A b \in SignedWord(FxBits) \ {0} :
            Abs(num.d) < Q32.one => WideDiv(Q32, num.d, b) = WrapTo(FxBits, CDiv(num.d * 2 ^ Q32.f, b))
=============================================================================
