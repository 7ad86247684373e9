------------------------------- MODULE BigInt -------------------------------
(***************************************************************************)
(* The arbitrary-precision integers of zown-vm/src/bigint.rs: a sign and   *)
(* little-endian limbs, schoolbook arithmetic on them, and the correctly   *)
(* rounded conversions to a binary float.  The widths are parameters: a    *)
(* limb has LimbBits bits (32), an int two limbs (64), a float Prec bits   *)
(* of significand (53) and exponents EMin .. EMax (-1022 .. 1023), and     *)
(* text is written to the base Radix (10).                                 *)
(***************************************************************************)
EXTENDS Integers, Sequences, SequencesExt, FiniteSets

CONSTANTS LimbBits, Radix, Prec, EMin, EMax,
    None            \* Rust's None: an answer that is not there

Power(b, n) == LET p[i \in 0 .. n] == IF i = 0 THEN 1 ELSE b * p[i - 1] IN p[n]
Base == Power(2, LimbBits)
IntBits == 2 * LimbBits
MinInt == -Power(2, IntBits - 1)
MaxInt == Power(2, IntBits - 1) - 1

\* The significand of a float fits the word it is read as (u64).
ASSUME WidthAssumption ==
    /\ LimbBits \in Nat \ {0} /\ Radix \in 2 .. Base - 1
    /\ Prec \in Nat \ {0, 1} /\ Prec <= IntBits
    /\ EMin \in Int /\ EMax \in Int /\ EMin < 0 /\ Prec <= EMax

Zeros(n) == [i \in 1 .. n |-> 0]
\* The bits of n without leading zeros.
BitLen(n) == IF n = 0 THEN 0 ELSE CHOOSE k \in 1 .. n : n \div Power(2, k - 1) = 1

-----------------------------------------------------------------------------
Limb == 0 .. Base - 1
\* A big is normalized: no zero limb on top, and no negative zero.
Bigs == {x \in [neg : BOOLEAN, d : Seq(Limb)] :
            (x.d # <<>> => x.d[Len(x.d)] # 0) /\ (x.d = <<>> => ~x.neg)}
Big(neg, d) == [neg |-> neg, d |-> d]
zero == Big(FALSE, <<>>)
is_zero(x) == x.d = <<>>
neg_(x) == IF is_zero(x) THEN zero ELSE Big(~x.neg, x.d)
abs(x) == Big(FALSE, x.d)

Top(set) == CHOOSE i \in set : \A j \in set : j <= i
\* Without the zero limbs on top.
Trimmed(d) == SubSeq(d, 1, Top({0} \cup {i \in DOMAIN d : d[i] # 0}))
Normal(neg, d) == Big(neg /\ d # <<>>, d)
normalize(x) == Normal(x.neg, Trimmed(x.d))

\* from_u64, which makes one limb or two
from_u64(n) ==
    IF n = 0 THEN zero
    ELSE Big(FALSE, IF n \div Base = 0 THEN <<n % Base>> ELSE <<n % Base, n \div Base>>)
one == from_u64(1)
from_i64(n) == IF n >= 0 THEN from_u64(n) ELSE neg_(from_u64(-n))

bit_len(x) == IF is_zero(x) THEN 0 ELSE (Len(x.d) - 1) * LimbBits + BitLen(Last(x.d))
bit(x, i) ==
    LET limb == i \div LimbBits + 1
    IN  limb <= Len(x.d) /\ (x.d[limb] \div Power(2, i % LimbBits)) % 2 = 1
any_bit_below(x, k) ==
    \E i \in 1 .. Len(x.d) :
        CASE i - 1 < k \div LimbBits -> x.d[i] # 0
          [] i - 1 = k \div LimbBits -> x.d[i] % Power(2, k % LimbBits) # 0
          [] OTHER -> FALSE

-----------------------------------------------------------------------------
\* Columns written as limbs: what is above a limb is carried to the next column,
\* and a carry out of the last one is a limb of its own.
Carries(cols) ==
    LET c[k \in 0 .. Len(cols)] == IF k = 0 THEN 0 ELSE (cols[k] + c[k - 1]) \div Base
    IN  c
Closed(d, carry) == IF carry # 0 THEN Append(d, carry) ELSE d
Carried(cols, c) == Closed([k \in DOMAIN cols |-> (cols[k] + c[k - 1]) % Base], c[Len(cols)])
Written(cols) == Carried(cols, Carries(cols))

shl(x, bits) ==
    IF is_zero(x) \/ bits = 0 THEN x
    ELSE Big(x.neg, Zeros(bits \div LimbBits) \o
                    Written([k \in DOMAIN x.d |-> x.d[k] * Power(2, bits % LimbBits)]))

shr(x, bits) ==
    LET down == bits \div LimbBits
        High(i) == IF i < Len(x.d) THEN x.d[i + 1] ELSE 0
        Part(i) == ((x.d[i] + High(i) * Base) \div Power(2, bits % LimbBits)) % Base
    IN  IF is_zero(x) \/ bits = 0 THEN x
        ELSE IF down >= Len(x.d) THEN zero
        ELSE normalize(Big(x.neg, [i \in 1 .. Len(x.d) - down |-> Part(i + down)]))

limb(x, i) == IF i <= Len(x.d) THEN x.d[i] ELSE 0

\* -1, 0 or 1, as Ordering
Cmp(m, n) == IF m < n THEN -1 ELSE IF m > n THEN 1 ELSE 0
CmpAt(x, y, differ) ==
    IF differ = {} THEN 0 ELSE Cmp(x.d[Top(differ)], limb(y, Top(differ)))
CmpThen(m, n, same) == IF m # n THEN Cmp(m, n) ELSE same
cmp_mag(x, y) ==
    CmpThen(bit_len(x), bit_len(y), CmpAt(x, y, {i \in 1 .. Len(x.d) : x.d[i] # limb(y, i)}))
cmp(x, y) ==
    CASE x.neg /\ ~y.neg -> -1
      [] ~x.neg /\ y.neg -> 1
      [] ~x.neg /\ ~y.neg -> cmp_mag(x, y)
      [] OTHER -> cmp_mag(y, x)

add_mag(x, y) ==
    Big(FALSE, Written([k \in 1 .. (IF Len(x.d) > Len(y.d) THEN Len(x.d) ELSE Len(y.d)) |->
                            limb(x, k) + limb(y, k)]))

\* Mutant of sub_mag: the borrow is not cleared once it was taken.
SubMagSticky(x, y) ==
    LET b[k \in 0 .. Len(x.d)] ==
            IF k = 0 THEN 0 ELSE IF x.d[k] - limb(y, k) - b[k - 1] < 0 THEN 1 ELSE b[k - 1]
    IN  normalize(Big(FALSE, [k \in DOMAIN x.d |-> (x.d[k] - limb(y, k) - b[k - 1]) % Base]))

\* |x| - |y|, for |x| >= |y|
Borrows(x, y) ==
    LET b[k \in 0 .. Len(x.d)] ==
            IF k = 0 THEN 0 ELSE IF x.d[k] - limb(y, k) - b[k - 1] < 0 THEN 1 ELSE 0
    IN  b
Lent(x, y, b) ==
    normalize(Big(FALSE, [k \in DOMAIN x.d |-> (x.d[k] - limb(y, k) - b[k - 1]) % Base]))
sub_mag(x, y) == Lent(x, y, Borrows(x, y))

Signed(neg, mag) == Big(neg /\ ~is_zero(mag), mag.d)
add(x, y) ==
    CASE x.neg = y.neg -> Signed(x.neg, add_mag(x, y))
      [] x.neg # y.neg /\ cmp_mag(x, y) >= 0 -> Signed(x.neg, sub_mag(x, y))
      [] OTHER -> Signed(y.neg, sub_mag(y, x))
sub(x, y) == add(x, neg_(y))

\* x.d[i] times y is added to d from limb i on.
MulRow(x, y, d, i) ==
    Written([k \in DOMAIN d |->
                 d[k] + IF k - i + 1 \in DOMAIN y.d THEN x.d[i] * y.d[k - i + 1] ELSE 0])
Rows(x, y) ==
    LET rows[i \in 0 .. Len(x.d)] ==
            IF i = 0 THEN Zeros(Len(x.d) + Len(y.d)) ELSE MulRow(x, y, rows[i - 1], i)
    IN  rows
mul(x, y) ==
    IF is_zero(x) \/ is_zero(y) THEN zero
    ELSE normalize(Big(x.neg # y.neg, Rows(x, y)[Len(x.d)]))

mul_u32(x, m) ==
    IF is_zero(x) \/ m = 0 THEN zero
    ELSE Big(x.neg, Written([k \in DOMAIN x.d |-> x.d[k] * m]))

set_bit(x, i) ==
    LET k == i \div LimbBits + 1
        d == IF k > Len(x.d) THEN x.d \o Zeros(k - Len(x.d)) ELSE x.d
    IN  Big(x.neg, [d EXCEPT ![k] = @ + IF bit(x, i) THEN 0 ELSE Power(2, i % LimbBits)])

\* Long division, one bit of the dividend at a time from the top.
NextBit(twice, one_more) == IF one_more THEN add(twice, one) ELSE twice
DivBit(acc, i, r, b) ==
    IF cmp_mag(r, b) >= 0 THEN <<set_bit(acc[1], i), sub_mag(r, b)>> ELSE <<acc[1], r>>
DivStep(acc, a, i, b) == DivBit(acc, i, NextBit(shl(acc[2], 1), bit(a, i)), b)
Divided(a, b) ==
    LET acc[k \in 0 .. bit_len(a)] ==
            IF k = 0 THEN <<zero, zero>> ELSE DivStep(acc[k - 1], a, bit_len(a) - k, b)
    IN  acc
divmod_mag(a, b) == IF cmp_mag(a, b) < 0 THEN <<zero, a>> ELSE Divided(a, b)[bit_len(a)]

\* Python's floor division; b is not zero
NegIf(neg, x) == IF neg THEN neg_(x) ELSE x
FloorOf(a, b, q, r) ==
    CASE a.neg = b.neg -> <<q, NegIf(a.neg, r)>>
      [] a.neg # b.neg /\ is_zero(r) -> <<neg_(q), zero>>
      [] OTHER -> <<neg_(add(q, one)), NegIf(b.neg, sub(abs(b), r))>>
OfPair(a, b, qr) == FloorOf(a, b, qr[1], qr[2])
divmod_floor(a, b) == OfPair(a, b, divmod_mag(abs(a), abs(b)))

\* Square and multiply: the result and the base after k bits of the exponent.
PowStep(acc, last, odd) ==
    <<IF odd THEN mul(acc[1], acc[2]) ELSE acc[1], IF last THEN acc[2] ELSE mul(acc[2], acc[2])>>
Squared(x, exp) ==
    LET acc[k \in 0 .. BitLen(exp)] ==
            IF k = 0 THEN <<one, x>>
            ELSE PowStep(acc[k - 1], k = BitLen(exp), (exp \div Power(2, k - 1)) % 2 = 1)
    IN  acc
pow_u32(x, exp) == Squared(x, exp)[BitLen(exp)][1]

\* Newton's iteration from above, to the first guess that the next is not below;
\* x >= 0, and the guesses before it decrease, so that it is one of the first.
Newton(n, x) == shr(add(x, divmod_floor(n, x)[1]), 1)
Steps(n) == Power(2, bit_len(n) \div 2)
Guesses(n) ==
    LET g[k \in 0 .. Steps(n) + 1] ==
            IF k = 0 THEN shl(one, bit_len(n) \div 2) ELSE Newton(n, g[k - 1])
    IN  g
Settles(g, k) == cmp(g[k + 1], g[k]) >= 0
SqrtFrom(g, steps) == g[CHOOSE k \in steps : Settles(g, k) /\ \A j \in 0 .. k - 1 : ~Settles(g, j)]
isqrt(n) == IF is_zero(n) THEN zero ELSE SqrtFrom(Guesses(n), 0 .. Steps(n))

UpperHalf(r, signed, bits) == signed /\ cmp(r, shl(one, bits - 1)) >= 0
Wrapped(r, signed, bits) == IF UpperHalf(r, signed, bits) THEN sub(r, shl(one, bits)) ELSE r
wrap_width(x, signed, bits) == Wrapped(divmod_floor(x, shl(one, bits))[2], signed, bits)

\* The digits of a decimal literal, most significant first.
Read(digits) ==
    LET n[k \in 0 .. Len(digits)] ==
            IF k = 0 THEN zero ELSE add(mul_u32(n[k - 1], Radix), from_u64(digits[k]))
    IN  n
parse_dec(neg, digits) == Signed(neg, Read(digits)[Len(digits)])

\* The remainder from limb i and up.
Remainders(a, m) ==
    LET rem[k \in 0 .. Len(a.d)] ==
            IF k = 0 THEN 0 ELSE (rem[k - 1] * Base + a.d[Len(a.d) + 1 - k]) % m
    IN  rem
OfRemainders(a, m, rem) ==
    <<normalize(Big(FALSE, [i \in DOMAIN a.d |-> (rem[Len(a.d) - i] * Base + a.d[i]) \div m])),
      rem[Len(a.d)]>>
divmod_u32(a, m) == OfRemainders(a, m, Remainders(a, m))

\* The decimal digits of |x| (Display), most significant first.
Quotients(x) ==
    LET q[k \in 0 .. bit_len(x)] == IF k = 0 THEN x ELSE divmod_u32(q[k - 1], Radix)[1]
    IN  q
DigitCount(x) == CHOOSE n \in 0 .. bit_len(x) :
    is_zero(Quotients(x)[n]) /\ \A k \in 0 .. n - 1 : ~is_zero(Quotients(x)[k])
Digits(x) == [i \in 1 .. DigitCount(x) |-> divmod_u32(Quotients(x)[DigitCount(x) - i], Radix)[2]]

\* What fits the checked int, or half of it (u32), or None.
mag_u64(x) == IF bit_len(x) > IntBits THEN None ELSE limb(x, 1) + Base * limb(x, 2)
to_i64(x) ==
    LET mag == mag_u64(x)
        half == Power(2, IntBits - 1)
    IN  IF bit_len(x) > IntBits THEN None
        ELSE IF x.neg THEN (IF mag <= half THEN -mag ELSE None)
        ELSE (IF mag < half THEN mag ELSE None)
to_u32(x) == IF x.neg \/ bit_len(x) > LimbBits THEN None ELSE limb(x, 1)

-----------------------------------------------------------------------------
\* The number that limbs are, and the one that a big is.
Partials(d) ==
    LET v[k \in 0 .. Len(d)] == IF k = 0 THEN 0 ELSE v[k - 1] + d[k] * Power(Base, k - 1)
    IN  v
Mag(d) == Partials(d)[Len(d)]
IntOf(x) == IF x.neg THEN -Mag(x.d) ELSE Mag(x.d)

-----------------------------------------------------------------------------
\* Floats: a finite one is (-1)^neg * m * 2^e, with a significand of Prec bits
\* or, at the least exponent, fewer.
Finite(neg, m, e) == [kind |-> "finite", neg |-> neg, m |-> m, e |-> e]
Floats == [kind : {"finite", "inf", "nan"}, neg : BOOLEAN, m : 0 .. Power(2, Prec) - 1,
           e : EMin - (Prec - 1) .. EMax - (Prec - 1)]
Infinite(neg) == [kind |-> "inf", neg |-> neg, m |-> 0, e |-> 0]
NaN == [kind |-> "nan", neg |-> FALSE, m |-> 0, e |-> 0]
MinExp == EMin - (Prec - 1)             \* the exponent of a subnormal's unit
signed_zero(neg) == Finite(neg, 0, MinExp)

BoolBit(b) == IF b THEN 1 ELSE 0

\* Mutant of AnyLost: only the remainder of the division counts, not the
\* quotient's own low bits.
LostAbove(q, q_round, sticky_extra) == sticky_extra

\* Something other than zeros lies below the round bit.
AnyLost(q, q_round, sticky_extra) ==
    sticky_extra \/ (q_round >= 0 /\ any_bit_below(q, q_round))

\* q * 2^scale to the nearest float, ties to even; "sticky_extra" says that
\* something was cut off below q.  None when it overflows.
\* A significand and its exponent as a float; "lost" says that it was cut.
Packed(neg, mant, exp, lost) ==
    LET k == EMin - exp
        top_lost == (mant \div Power(2, k - 1)) % 2 = 1
        sticky_lost == (k > 1 /\ mant % Power(2, k - 1) # 0) \/ lost
        sig == mant \div Power(2, k)
    IN  IF exp > EMax THEN None
        ELSE IF exp < MinExp THEN signed_zero(neg)
        ELSE IF exp >= EMin THEN Finite(neg, mant, exp - (Prec - 1))
        ELSE Finite(neg, IF top_lost /\ (sticky_lost \/ sig % 2 = 1) THEN sig + 1 ELSE sig, MinExp)
Rounded(neg, mant, exp, round_bit, sticky) ==
    LET up == round_bit /\ (sticky \/ mant % 2 = 1)
    IN  IF ~up THEN Packed(neg, mant, exp, round_bit \/ sticky)
        ELSE IF mant + 1 = Power(2, Prec) THEN Packed(neg, Power(2, Prec - 1), exp + 1, TRUE)
        ELSE Packed(neg, mant + 1, exp, TRUE)
Significand(q, top) ==
    LET sig[i \in 0 .. Prec] ==
            IF i = 0 THEN 0
            ELSE 2 * sig[i - 1] + BoolBit(top + 1 - i >= 0 /\ bit(q, top + 1 - i))
    IN  sig[Prec]
ScaledFrom(q, top, scale, sticky_extra, neg) ==
    Rounded(neg, Significand(q, top), top + scale, top >= Prec /\ bit(q, top - Prec),
            AnyLost(q, top - Prec, sticky_extra))
f64_from_scaled(q, scale, sticky_extra, neg) ==
    IF is_zero(q) THEN signed_zero(neg) ELSE ScaledFrom(q, bit_len(q) - 1, scale, sticky_extra, neg)

\* self / b; the shift leaves Prec + 3 bits of quotient.
OfQuotient(qr, s, neg) == f64_from_scaled(qr[1], -s, ~is_zero(qr[2]), neg)
DivScaled(a, b, s, neg) ==
    OfQuotient(divmod_floor(IF s >= 0 THEN shl(a, s) ELSE a, IF s >= 0 THEN b ELSE shl(b, -s)), s, neg)
DivAbs(a, b, exp_est, neg) ==
    IF is_zero(a) THEN signed_zero(neg)
    ELSE IF exp_est > EMax + 3 THEN None
    ELSE IF exp_est < MinExp - 26 THEN signed_zero(neg)
    ELSE DivScaled(a, b, Prec + 3 - exp_est, neg)
true_div_f64(x, y) == DivAbs(abs(x), abs(y), bit_len(x) - bit_len(y), x.neg # y.neg)

to_f64(x) == true_div_f64(x, one)

IsWhole(f) ==
    /\ f.kind = "finite"
    /\ f.e >= 0 \/ f.m % Power(2, -f.e) = 0

\* The exact integer of a whole float, from its significand and exponent.
Moved(b, e) == IF e >= 0 THEN shl(b, e) ELSE shr(b, -e)
from_f64_exact(f) == IF ~IsWhole(f) THEN None ELSE Signed(f.neg, Moved(from_u64(f.m), f.e))
=============================================================================
