------------------------------- MODULE Numbers -------------------------------
(***************************************************************************)
(* The number words of the VM: checked ints, bigs, floats, decimals,       *)
(* Gaussian ints, width tags and lane vectors, on a stack of two operands. *)
(* A program pushes literals and runs words; a word that faults ends it.   *)
(* The words are lib.rs, exact.rs and value.rs of zown-vm; the arithmetic  *)
(* of bigs is BigInt.  IEEE arithmetic itself is the machine's.            *)
(***************************************************************************)
EXTENDS BigInt, FiniteSetsExt

CONSTANTS
    Literals,       \* the values a program pushes
    Blocks,         \* what a block given to vf .. vu leaves: sequences of values
    VecKinds,       \* name -> [count, is_float, signed, bits] of a lane vector
    WidthBits,      \* the bits of the width tags (8 .. 128)
    ScaleMax,       \* digits after the point of a decimal (18)
    BigCap          \* bound of the instance: no big above it is pushed

VARIABLES stack, fault

vars == <<stack, fault>>

-----------------------------------------------------------------------------
\* Values are tagged; a word yields a value or a fault.
Int_(n) == <<"int", n>>
BigV(x) == <<"big", x>>
Float(f) == <<"float", f>>
DecV(coeff, scale) == <<"dc", <<coeff, scale>>>>
CxV(re, im) == <<"cx", <<re, im>>>>
Width(signed, bits) == <<"width", [signed |-> signed, bits |-> bits]>>
Str(neg, whole, point, frac) ==
    <<"str", [neg |-> neg, whole |-> whole, point |-> point, frac |-> frac]>>
VecV(name, lanes) == <<"vec", [name |-> name, lanes |-> lanes]>>
Fault(code) == <<"fault", code>>

\* What a stack can hold.
Machine == MinInt .. MaxInt
Decs == Machine \X (0 .. ScaleMax)
Widths == [signed : BOOLEAN, bits : WidthBits]
Text == Seq(0 .. Radix - 1)
Strs == [neg : BOOLEAN, whole : Text, point : BOOLEAN, frac : Text]
Lanes(k) == [1 .. k.count -> IF k.is_float THEN Floats ELSE Machine]
Vecs == UNION {[name : {n}, lanes : Lanes(VecKinds[n])] : n \in DOMAIN VecKinds}
Values ==
    ({"int"} \X Machine) \cup ({"big"} \X Bigs) \cup ({"float"} \X Floats)
    \cup ({"dc"} \X Decs) \cup ({"cx"} \X (Machine \X Machine))
    \cup ({"width"} \X Widths) \cup ({"str"} \X Strs)
    \cup ({"vec"} \X Vecs)

\* The lanes and the widths have bits; integer lanes fit the checked int.
ASSUME ValueAssumption ==
    /\ None \notin Int /\ None \notin Bigs /\ None \notin Floats
    /\ ScaleMax \in Nat /\ \A bits \in WidthBits : bits \in Nat \ {0}
    /\ \A name \in DOMAIN VecKinds :
          LET k == VecKinds[name]
          IN  /\ k.count \in Nat /\ k.is_float \in BOOLEAN /\ k.signed \in BOOLEAN
              /\ k.bits \in 1 .. IntBits /\ (k.signed \/ k.bits < IntBits)
    /\ Literals \subseteq Values /\ Blocks \subseteq Seq(Values)

Faulted(r) == r[1] = "fault"
is_float(v) == v[1] = "float"
is_big(v) == v[1] = "big"
is_num(v) == v[1] \in {"int", "float", "big"}
is_exact(v) == v[1] \in {"dc", "cx"}
\* The integer of an int, a big or a whole float.
to_bigint(v) ==
    CASE v[1] = "int" -> from_i64(v[2])
      [] v[1] = "big" -> v[2]
      [] v[1] = "float" -> from_f64_exact(v[2])

truthy(v) ==
    CASE v[1] = "int" -> v[2] # 0
      [] v[1] = "float" -> v[2].kind # "finite" \/ v[2].m # 0
      [] v[1] = "big" -> ~is_zero(v[2])
      [] v[1] = "dc" -> v[2][1] # 0
      [] v[1] = "cx" -> v[2] # <<0, 0>>
      [] v[1] = "str" -> v[2] # Str(FALSE, <<>>, FALSE, <<>>)[2]
      [] OTHER -> TRUE

-----------------------------------------------------------------------------
\* IEEE arithmetic, by counting in units of the least subnormal.
One == Power(2, -MinExp)                    \* 1.0 in units
Over == Power(2, EMax + 1 - MinExp)            \* the first magnitude that overflows
Mags == {Over} \cup {m * Power(2, e - MinExp) :
                     m \in 0 .. Power(2, Prec) - 1, e \in MinExp .. EMax - (Prec - 1)}
Units(f) == (IF f.neg THEN -1 ELSE 1) * f.m * Power(2, f.e - MinExp)
CutBy(neg, s, k) ==
    IF k <= 0 THEN Finite(neg, s, MinExp) ELSE Finite(neg, s \div Power(2, k), MinExp + k)
FromMag(neg, s) == IF s >= Over THEN Infinite(neg) ELSE CutBy(neg, s, BitLen(s) - Prec)

\* The float nearest to p / q units, ties to the even significand.
Closer(neg, p, q, low, high) ==
    LET past == 2 * p - (low + high) * q
    IN  IF past < 0 \/ (past = 0 /\ FromMag(neg, low).m % 2 = 0)
        THEN FromMag(neg, low) ELSE FromMag(neg, high)
Nearest(neg, p, q) ==
    LET low == Max({s \in Mags : s * q <= p})
    IN  IF p >= Over * q THEN Infinite(neg)
        ELSE Closer(neg, p, q, low, Min({s \in Mags : s > low}))

IsNaN(f) == f.kind = "nan"
IsInf(f) == f.kind = "inf"
Below0(f) == f.neg /\ (IsInf(f) \/ f.m # 0)
IsZero(f) == f.kind = "finite" /\ f.m = 0
FNeg(f) == IF IsNaN(f) THEN f ELSE [f EXCEPT !.neg = ~@]
Magnitude(n) == IF n < 0 THEN -n ELSE n
FAdd(x, y) ==
    LET s == Units(x) + Units(y)
    IN  IF IsNaN(x) \/ IsNaN(y) THEN NaN
        ELSE IF IsInf(x) THEN IF IsInf(y) /\ x.neg # y.neg THEN NaN ELSE x
        ELSE IF IsInf(y) THEN y
        ELSE IF s = 0 THEN signed_zero(x.neg /\ y.neg)
        ELSE Nearest(s < 0, Magnitude(s), 1)
FMul(x, y) ==
    LET neg == x.neg # y.neg
    IN  IF IsNaN(x) \/ IsNaN(y) THEN NaN
        ELSE IF IsInf(x) \/ IsInf(y) THEN IF IsZero(x) \/ IsZero(y) THEN NaN ELSE Infinite(neg)
        ELSE Nearest(neg, Magnitude(Units(x) * Units(y)), One)
\* y is not zero in the two that divide
FDiv(x, y) ==
    LET neg == x.neg # y.neg
    IN  IF IsNaN(x) \/ IsNaN(y) \/ (IsInf(x) /\ IsInf(y)) THEN NaN
        ELSE IF IsInf(x) THEN Infinite(neg)
        ELSE IF IsInf(y) THEN signed_zero(neg)
        ELSE Nearest(neg, Magnitude(Units(x)) * One, Magnitude(Units(y)))
FRem(x, y) ==
    IF IsNaN(x) \/ IsNaN(y) \/ IsInf(x) THEN NaN
    ELSE IF IsInf(y) THEN x
    ELSE FromMag(x.neg, Magnitude(Units(x)) % Magnitude(Units(y)))
\* x is not below zero
FSqrt(x) ==
    LET v == Units(x) * One
        low == Max({s \in Mags : s * s <= v})
        high == Min({s \in Mags : s > low})
    IN  IF x.kind # "finite" \/ IsZero(x) THEN x
        ELSE FromMag(FALSE, IF 4 * v < (low + high) * (low + high) THEN low ELSE high)
FCmp(x, y) ==
    CASE IsInf(x) /\ IsInf(y) -> IF x.neg = y.neg THEN 0 ELSE IF x.neg THEN -1 ELSE 1
      [] IsInf(x) /\ ~IsInf(y) -> IF x.neg THEN -1 ELSE 1
      [] IsInf(y) /\ ~IsInf(x) -> IF y.neg THEN 1 ELSE -1
      [] OTHER -> Cmp(Units(x), Units(y))
IntToFloat(n) == Nearest(n < 0, Magnitude(n) * One, 1)
Floor(f) == FromMag(f.neg, Magnitude(Units(f) \div One) * One)
Ceil(f) == FNeg(Floor(FNeg(f)))
AllFloats == {FromMag(neg, s) : neg \in BOOLEAN, s \in Mags} \cup {NaN}
\* The machine's powf is not modelled beyond its type.
powf(x, y) == AllFloats

-----------------------------------------------------------------------------
\* Helpers of the words.
f64_fits_int(f) ==
    LET n == Units(f) \div One
    IN  IF IsWhole(f) /\ n >= MinInt /\ n <= MaxInt THEN n ELSE None
num_result(f) == IF f64_fits_int(f) = None THEN Float(f) ELSE Int_(f64_fits_int(f))
num_is_zero(v) == is_num(v) /\ ~truthy(v)
fit_int(x) == IF to_i64(x) = None THEN Fault("OVERFLOW") ELSE Int_(to_i64(x))
exact_result(big, x) == IF big THEN BigV(x) ELSE fit_int(x)

\* The float of a number, or a fault.
FloatOr(f, code) == IF f = None THEN Fault(code) ELSE Float(f)
to_float(v) ==
    CASE v[1] = "int" -> Float(IntToFloat(v[2]))
      [] v[1] = "float" -> v
      [] v[1] = "big" -> FloatOr(to_f64(v[2]), "OVERFLOW")

\* F of the two floats, unless one of the operands has none; a's fault first.
Both(x, y, F(_, _)) == IF Faulted(x) THEN x ELSE IF Faulted(y) THEN y ELSE F(x[2], y[2])
OnFloats(a, b, F(_, _)) == Both(to_float(a), to_float(b), F)

py_mod_f64(x, y) ==
    LET r == FRem(x, y)
    IN  IF ~IsNaN(r) /\ ~IsZero(r) /\ Below0(r) # Below0(y) THEN FAdd(r, y) ELSE r

exp_is_odd(x) == divmod_floor(x, from_i64(2))[2] = one

round_half_even(f) ==
    LET half == FromMag(FALSE, One \div 2)
        fl == Floor(f)
        diff == FAdd(f, FNeg(fl))
        up == FAdd(fl, IntToFloat(1))
    IN  from_f64_exact(
          CASE IsWhole(f) -> f
            [] ~IsWhole(f) /\ FCmp(diff, half) < 0 -> fl
            [] ~IsWhole(f) /\ FCmp(diff, half) > 0 -> up
            [] OTHER -> IF IsZero(py_mod_f64(fl, IntToFloat(2))) THEN fl ELSE up)

wrap_i128(n, signed, bits) ==
    LET m == n % Power(2, bits)
    IN  IF signed /\ m >= Power(2, bits - 1) THEN m - Power(2, bits) ELSE m

-----------------------------------------------------------------------------
\* Decimals and Gaussian ints: exact.rs.
fit(n) == n >= MinInt /\ n <= MaxInt
pow10(k) == Power(Radix, k)
\* The two coefficients at the larger scale.
Aligned(x, y) ==
    LET scale == IF x[2] > y[2] THEN x[2] ELSE y[2]
    IN  <<x[1] * pow10(scale - x[2]), y[1] * pow10(scale - y[2]), scale>>
dec_cmp(x, y) == LET p == Aligned(x, y) IN Cmp(p[1], p[2])
\* Addition when sign is 1, subtraction when it is -1.
dec_add(x, y, sign) ==
    LET p == Aligned(x, y)
        r == p[1] + sign * p[2]
    IN  IF fit(p[1]) /\ fit(p[2]) /\ fit(r) THEN DecV(r, p[3]) ELSE Fault("OVERFLOW")
dec_mul(x, y) ==
    IF x[2] + y[2] <= ScaleMax /\ fit(x[1] * y[1]) THEN DecV(x[1] * y[1], x[2] + y[2])
    ELSE Fault("OVERFLOW")
dec_neg(x) == IF fit(-x[1]) THEN DecV(-x[1], x[2]) ELSE Fault("OVERFLOW")
CxFit(re, im) == IF fit(re) /\ fit(im) THEN CxV(re, im) ELSE Fault("OVERFLOW")
cx_add(x, y, sign) == CxFit(x[1] + sign * y[1], x[2] + sign * y[2])
cx_mul(x, y) == CxFit(x[1] * y[1] - x[2] * y[2], x[1] * y[2] + x[2] * y[1])
cx_neg(x) == CxFit(-x[1], -x[2])

DigitsValue(digits) ==
    LET n[k \in 0 .. Len(digits)] == IF k = 0 THEN 0 ELSE Radix * n[k - 1] + digits[k]
    IN  n[Len(digits)]
\* A decimal literal has digits on both sides of its point, when it has one.
parse_decimal(t) ==
    LET coeff == (IF t.neg THEN -1 ELSE 1) * DigitsValue(t.whole \o t.frac)
    IN  CASE t.whole = <<>> \/ (t.point /\ t.frac = <<>>) -> Fault("TYPE_MISMATCH")
          [] t.whole # <<>> /\ (t.point => t.frac # <<>>) /\ Len(t.frac) > ScaleMax ->
                Fault("OVERFLOW")
          [] OTHER -> IF fit(coeff) THEN DecV(coeff, Len(t.frac)) ELSE Fault("OVERFLOW")
b_dc(v) ==
    CASE v[1] = "str" -> parse_decimal(v[2])
      [] v[1] = "int" -> DecV(v[2], 0)
      [] v[1] = "big" -> IF to_i64(v[2]) = None THEN Fault("OVERFLOW")
                         ELSE DecV(to_i64(v[2]), 0)
      [] OTHER -> Fault("TYPE_MISMATCH")
b_cx(re, im) == IF re[1] = "int" /\ im[1] = "int" THEN CxV(re[2], im[2])
                ELSE Fault("TYPE_MISMATCH")

-----------------------------------------------------------------------------
\* Arithmetic words.
\* Both operands are numbers, or both decimals, or both Gaussian ints.
pop_arith(a, b) == (is_num(a) /\ is_num(b)) \/ (is_exact(b) /\ a[1] = b[1])

num_binop(a, b, which) ==
    LET F(x, y) == CASE which = "Add" -> FAdd(x, y)
                     [] which = "Sub" -> FAdd(x, FNeg(y))
                     [] which = "Mul" -> FMul(x, y)
        av == to_bigint(a)
        bv == to_bigint(b)
    IN  IF is_float(a) \/ is_float(b) THEN OnFloats(a, b, LAMBDA x, y : Float(F(x, y)))
        ELSE exact_result(is_big(a) \/ is_big(b),
                 CASE which = "Add" -> add(av, bv)
                   [] which = "Sub" -> sub(av, bv)
                   [] which = "Mul" -> mul(av, bv))

op_add(a, b) ==
    CASE ~pop_arith(a, b) -> Fault("TYPE_MISMATCH")
      [] a[1] = "dc" /\ b[1] = "dc" -> dec_add(a[2], b[2], 1)
      [] a[1] = "cx" /\ b[1] = "cx" -> cx_add(a[2], b[2], 1)
      [] is_num(a) /\ is_num(b) -> num_binop(a, b, "Add")
op_sub(a, b) ==
    CASE ~pop_arith(a, b) -> Fault("TYPE_MISMATCH")
      [] a[1] = "dc" /\ b[1] = "dc" -> dec_add(a[2], b[2], -1)
      [] a[1] = "cx" /\ b[1] = "cx" -> cx_add(a[2], b[2], -1)
      [] is_num(a) /\ is_num(b) -> num_binop(a, b, "Sub")
op_mul(a, b) ==
    CASE ~pop_arith(a, b) -> Fault("TYPE_MISMATCH")
      [] a[1] = "dc" /\ b[1] = "dc" -> dec_mul(a[2], b[2])
      [] a[1] = "cx" /\ b[1] = "cx" -> cx_mul(a[2], b[2])
      [] is_num(a) /\ is_num(b) -> num_binop(a, b, "Mul")
\* What faults in / and % before any division.
Divides(a, b, otherwise) ==
    CASE ~is_num(a) \/ ~is_num(b) -> Fault("TYPE_MISMATCH")
      [] is_num(a) /\ is_num(b) /\ num_is_zero(b) -> Fault("DIV_ZERO")
      [] OTHER -> otherwise
op_div(a, b) ==
    Divides(a, b,
        IF is_float(a) \/ is_float(b)
        THEN OnFloats(a, b, LAMBDA x, y : num_result(FDiv(x, y)))
        ELSE LET qr == divmod_floor(to_bigint(a), to_bigint(b))
                 f == true_div_f64(to_bigint(a), to_bigint(b))
             IN  IF is_zero(qr[2]) THEN exact_result(is_big(a) \/ is_big(b), qr[1])
                 ELSE IF f = None THEN Fault("OVERFLOW") ELSE Float(f))
op_mod(a, b) ==
    Divides(a, b,
        IF is_float(a) \/ is_float(b) THEN OnFloats(a, b, LAMBDA x, y : Float(py_mod_f64(x, y)))
        ELSE exact_result(is_big(a) \/ is_big(b), divmod_floor(to_bigint(a), to_bigint(b))[2]))
op_neg(a) ==
    CASE a[1] = "dc" -> dec_neg(a[2])
      [] a[1] = "cx" -> cx_neg(a[2])
      [] a[1] = "big" -> BigV(neg_(a[2]))
      [] a[1] = "float" -> Float(FNeg(a[2]))
      [] a[1] = "int" -> fit_int(neg_(from_i64(a[2])))
      [] OTHER -> Fault("TYPE_MISMATCH")

b_abs(a) ==
    CASE a[1] = "big" -> BigV(abs(a[2]))
      [] a[1] = "float" -> Float([a[2] EXCEPT !.neg = FALSE])
      [] a[1] = "int" -> fit_int(abs(from_i64(a[2])))
      [] OTHER -> Fault("TYPE_MISMATCH")
b_sqrt(a) ==
    CASE ~is_num(a) -> Fault("TYPE_MISMATCH")
      [] a[1] = "big" ->
            IF a[2].neg THEN Fault("UB_TRAP")
            ELSE LET r == isqrt(a[2])
                 IN  IF mul(r, r) = a[2] THEN BigV(r)
                     ELSE IF Faulted(to_float(a)) THEN to_float(a)
                     ELSE num_result(FSqrt(to_float(a)[2]))
      [] a[1] \in {"int", "float"} ->
            IF Below0(to_float(a)[2]) THEN Fault("UB_TRAP")
            ELSE num_result(FSqrt(to_float(a)[2]))

\* The outcomes of a pw: a set, as powf is the machine's.
pow_float(a, e) ==
    LET x == to_float(a)[2]
        y == to_float(e)[2]
    IN  IF Faulted(to_float(a)) THEN {to_float(a)}
        ELSE IF Faulted(to_float(e)) THEN {to_float(e)}
        ELSE IF Below0(x) /\ ~IsWhole(y) THEN {Fault("UB_TRAP")}
        ELSE IF IsZero(x) /\ Below0(y) THEN {Fault("DIV_ZERO")}
        ELSE {num_result(f) : f \in powf(x, y)}
pow_neg_exp(a, ev) ==
    LET x == to_float(a)[2]
        sign == Below0(x) /\ exp_is_odd(ev)
    IN  IF is_zero(to_bigint(a)) THEN {Fault("DIV_ZERO")}
        ELSE IF Faulted(to_float(a)) THEN {to_float(a)}
        ELSE IF to_f64(ev) = None THEN {Float(signed_zero(sign))}
        ELSE {num_result(IF sign THEN FNeg(f) ELSE f) :
                  f \in {g \in powf(x, to_f64(ev)) : ~g.neg}}
pow_big(base, ev) ==
    CASE is_zero(ev) \/ base = one -> BigV(one)
      [] ~is_zero(ev) /\ is_zero(base) -> BigV(zero)
      [] ~is_zero(ev) /\ base = from_i64(-1) -> BigV(IF exp_is_odd(ev) THEN base ELSE one)
      [] OTHER -> IF to_u32(ev) = None THEN Fault("OVERFLOW")
                  ELSE BigV(pow_u32(base, to_u32(ev)))
pow_int(a, e) ==
    CASE e = 0 \/ a = 1 -> Int_(1)
      [] e # 0 /\ a = 0 -> Int_(0)
      [] e # 0 /\ a = -1 -> Int_(IF e % 2 = 0 THEN 1 ELSE -1)
      [] OTHER -> IF e > IntBits - 1 THEN Fault("OVERFLOW")
                  ELSE fit_int(pow_u32(from_i64(a), e))
b_pow(a, e) ==
    LET ev == to_bigint(e)
    IN  IF ~is_num(a) \/ ~is_num(e) THEN {Fault("TYPE_MISMATCH")}
        ELSE IF is_float(a) \/ is_float(e) THEN pow_float(a, e)
        ELSE IF ev.neg THEN pow_neg_exp(a, ev)
        ELSE IF is_big(a) \/ is_big(e) THEN {pow_big(to_bigint(a), ev)}
        ELSE {pow_int(a[2], e[2])}

b_roundish(op, a) ==
    CASE ~is_num(a) -> Fault("TYPE_MISMATCH")
      [] is_num(a) /\ ~is_float(a) -> a
      [] is_float(a) /\ IsNaN(a[2]) -> Fault("UB_TRAP")
      [] is_float(a) /\ IsInf(a[2]) -> Fault("OVERFLOW")
      [] is_float(a) /\ a[2].kind = "finite" ->
            fit_int(CASE op = "fl" -> from_f64_exact(Floor(a[2]))
                      [] op = "ce" -> from_f64_exact(Ceil(a[2]))
                      [] op = "rd" -> round_half_even(a[2]))

\* Texts of exact numbers (Display, dec_text) and what n and b read.
\* Mutant of Padded: no digit is kept before the point.
PaddedShort(digits, scale) ==
    IF Len(digits) < scale THEN Zeros(scale - Len(digits)) \o digits ELSE digits
\* A digit more than the scale, at least.
Padded(digits, scale) ==
    IF Len(digits) <= scale THEN Zeros(scale + 1 - Len(digits)) \o digits ELSE digits
b_to_str(a) ==
    CASE a[1] \in {"int", "big"} ->
            LET x == to_bigint(a)
            IN  Str(x.neg, IF is_zero(x) THEN <<0>> ELSE Digits(x), FALSE, <<>>)
      [] a[1] = "dc" ->
            LET x == from_i64(a[2][1])
                short == IF is_zero(x) THEN <<0>> ELSE Digits(x)
                digits == IF a[2][2] = 0 THEN short ELSE Padded(short, a[2][2])
                cut == Len(digits) - a[2][2]
            IN  Str(x.neg, SubSeq(digits, 1, cut), a[2][2] > 0,
                    SubSeq(digits, cut + 1, Len(digits)))
ReadInt(t) == IF t.point \/ t.whole = <<>> THEN None ELSE parse_dec(t.neg, t.whole)
b_to_num(a) ==
    CASE is_num(a) -> a
      [] a[1] = "str" ->
            IF ~a[2].point
            THEN IF ReadInt(a[2]) = None THEN Fault("TYPE_MISMATCH") ELSE fit_int(ReadInt(a[2]))
            ELSE IF a[2].whole = <<>> /\ a[2].frac = <<>> THEN Fault("TYPE_MISMATCH")
            ELSE Float(Nearest(a[2].neg, DigitsValue(a[2].whole \o a[2].frac) * One,
                               pow10(Len(a[2].frac))))
      [] OTHER -> Fault("TYPE_MISMATCH")
b_big(a) ==
    LET x == IF a[1] = "str" THEN ReadInt(a[2]) ELSE to_bigint(a)
    IN  IF ~is_num(a) /\ a[1] # "str" THEN Fault("TYPE_MISMATCH")
        ELSE IF x = None THEN Fault("TYPE_MISMATCH") ELSE BigV(x)

-----------------------------------------------------------------------------
\* Comparison and logic.
\* Mutant of cmp_f64_num: the number is compared as a float.
CmpThroughFloat(f, v) ==
    IF Faulted(to_float(v)) THEN None ELSE FCmp(f, to_float(v)[2])
\* A float that is not a NaN against an int or a big, exactly.
cmp_f64_num(f, v) ==
    CASE IsInf(f) -> IF f.neg THEN -1 ELSE 1
      [] IsWhole(f) -> cmp(from_f64_exact(f), to_bigint(v))
      [] OTHER -> IF cmp(from_f64_exact(Floor(f)), to_bigint(v)) < 0 THEN -1 ELSE 1
num_partial_cmp(a, b) ==
    LET nan(v) == is_float(v) /\ IsNaN(v[2])
    IN  CASE ~is_num(a) \/ ~is_num(b) -> None
          [] is_num(a) /\ is_num(b) /\ (nan(a) \/ nan(b)) -> None
          [] is_float(a) /\ is_float(b) /\ ~nan(a) /\ ~nan(b) -> FCmp(a[2], b[2])
          [] is_float(a) /\ ~is_float(b) /\ is_num(b) /\ ~nan(a) -> cmp_f64_num(a[2], b)
          [] is_float(b) /\ ~is_float(a) /\ is_num(a) /\ ~nan(b) -> -cmp_f64_num(b[2], a)
          [] ~is_float(a) /\ ~is_float(b) /\ is_num(a) /\ is_num(b) ->
                cmp(to_bigint(a), to_bigint(b))
SameLane(x, y, float) ==
    IF float THEN num_partial_cmp(Float(x), Float(y)) = 0 ELSE x = y
zown_eq(a, b) ==
    CASE a[1] = "dc" /\ b[1] = "dc" -> dec_cmp(a[2], b[2]) = 0
      [] a[1] = "vec" /\ b[1] = "vec" ->
            /\ a[2].name = b[2].name
            /\ \A i \in 1 .. Len(a[2].lanes) :
                   SameLane(a[2].lanes[i], b[2].lanes[i], VecKinds[a[2].name].is_float)
      [] a[1] \in {"cx", "width", "str"} /\ a[1] = b[1] -> a[2] = b[2]
      [] OTHER -> num_partial_cmp(a, b) = 0

Holds(op, ord) ==
    CASE op = "==" -> ord = 0 [] op = "!=" -> ord # 0
      [] op = "<" -> ord < 0  [] op = "<=" -> ord <= 0
      [] op = ">" -> ord > 0  [] op = ">=" -> ord >= 0
Truth(b) == Int_(IF b THEN 1 ELSE 0)
\* Strings are compared for equality only.
rel_bool(op, a, b) ==
    LET ord == num_partial_cmp(a, b)
    IN  IF a[1] = "dc" /\ b[1] = "dc" THEN Truth(Holds(op, dec_cmp(a[2], b[2])))
        ELSE IF op = "==" THEN Truth(zown_eq(a, b))
        ELSE IF op = "!=" THEN Truth(~zown_eq(a, b))
        ELSE IF ord # None THEN Truth(Holds(op, ord))
        ELSE IF is_num(a) /\ is_num(b) THEN Truth(FALSE)
        ELSE Fault("TYPE_MISMATCH")

-----------------------------------------------------------------------------
\* Widths and their policies.
lo(w) == IF w.signed THEN neg_(shl(one, w.bits - 1)) ELSE zero
hi(w) == sub(shl(one, IF w.signed THEN w.bits - 1 ELSE w.bits), one)
fits_int(w) == cmp(lo(w), from_i64(MinInt)) >= 0 /\ cmp(hi(w), from_i64(MaxInt)) <= 0
typed(w, x) == IF fits_int(w) THEN Int_(to_i64(x)) ELSE BigV(x)
\* The integer of an int, a big or a whole float, None for the rest.
pop_intish(v) == IF is_num(v) THEN to_bigint(v) ELSE None
\* Mutant of Saturated: st does not look at the lower end.
SaturatedHigh(x, w) == IF cmp(x, hi(w)) > 0 THEN hi(w) ELSE x
Saturated(x, w) ==
    IF cmp(x, lo(w)) < 0 THEN lo(w) ELSE IF cmp(x, hi(w)) > 0 THEN hi(w) ELSE x
b_policy(op, v, wv) ==
    LET x == pop_intish(v)
        w == wv[2]
        inside == cmp(x, lo(w)) >= 0 /\ cmp(x, hi(w)) <= 0
    IN  IF wv[1] # "width" \/ x = None THEN Fault("TYPE_MISMATCH")
        ELSE CASE op = "wr" -> typed(w, wrap_width(x, w.signed, w.bits))
               [] op = "st" -> typed(w, Saturated(x, w))
               [] op = "ck" -> IF inside THEN typed(w, x) ELSE Fault("OVERFLOW")

-----------------------------------------------------------------------------
\* Lane vectors.
coerce_lane(k, v) ==
    CASE ~is_num(v) -> Fault("TYPE_MISMATCH")
      [] is_num(v) /\ k.is_float -> to_float(v)
      [] is_num(v) /\ ~k.is_float ->
            IF to_bigint(v) = None THEN Fault("TYPE_MISMATCH")
            ELSE Int_(to_i64(wrap_width(to_bigint(v), k.signed, k.bits)))
\* A vector of what the block left; the first lane that cannot be one faults.
build_vec(name, produced) ==
    LET k == VecKinds[name]
        lane == [i \in 1 .. Len(produced) |-> coerce_lane(k, produced[i])]
        bad == {i \in 1 .. Len(produced) : Faulted(lane[i])}
    IN  IF Len(produced) # k.count THEN Fault("BOUNDS")
        ELSE IF bad # {} THEN lane[Min(bad)]
        ELSE VecV(name, [i \in 1 .. k.count |-> lane[i][2]])

LaneFloat(op, x, y) ==
    CASE op = "va" -> FAdd(x, y) [] op = "vs" -> FAdd(x, FNeg(y)) [] op = "vm" -> FMul(x, y)
LaneInt(op, x, y) ==
    CASE op = "va" -> x + y [] op = "vs" -> x - y [] op = "vm" -> x * y
b_vbinop(op, a, b) ==
    LET k == VecKinds[a[2].name]
        Lane(x, y) == IF k.is_float THEN LaneFloat(op, x, y)
                      ELSE wrap_i128(LaneInt(op, x, y), k.signed, k.bits)
    IN  IF a[1] # "vec" \/ b[1] # "vec" THEN Fault("TYPE_MISMATCH")
        ELSE IF a[2].name # b[2].name THEN Fault("TYPE_MISMATCH")
        ELSE VecV(a[2].name, [i \in DOMAIN a[2].lanes |-> Lane(a[2].lanes[i], b[2].lanes[i])])
FloatSum(lanes) ==
    LET t[k \in 0 .. Len(lanes)] == IF k = 0 THEN signed_zero(FALSE) ELSE FAdd(t[k - 1], lanes[k])
    IN  t[Len(lanes)]
BigSum(lanes) ==
    LET t[k \in 0 .. Len(lanes)] == IF k = 0 THEN zero ELSE add(t[k - 1], from_i64(lanes[k]))
    IN  t[Len(lanes)]
b_vsum(a) ==
    IF a[1] # "vec" THEN Fault("TYPE_MISMATCH")
    ELSE IF VecKinds[a[2].name].is_float
         THEN num_result(FloatSum(a[2].lanes))
         ELSE LET t == BigSum(a[2].lanes)
              IN  IF to_i64(t) = None THEN BigV(t) ELSE Int_(to_i64(t))
b_vat(a, idx) ==
    LET i == to_i64(pop_intish(idx))
    IN  IF pop_intish(idx) = None \/ a[1] # "vec" THEN Fault("TYPE_MISMATCH")
        ELSE IF i = None THEN Fault("BOUNDS")
        ELSE IF i < 0 \/ i >= Len(a[2].lanes) THEN Fault("BOUNDS")
        ELSE IF VecKinds[a[2].name].is_float THEN Float(a[2].lanes[i + 1])
        ELSE Int_(a[2].lanes[i + 1])

-----------------------------------------------------------------------------
\* Programs.
Init == stack = <<>> /\ fault = "none"

Rels == {"==", "!=", "<", "<=", ">", ">="}
\* The outcomes of the words on two operands and on one.
Binary(op, a, b) ==
    CASE op = "+" -> {op_add(a, b)} [] op = "-" -> {op_sub(a, b)}
      [] op = "*" -> {op_mul(a, b)} [] op = "/" -> {op_div(a, b)}
      [] op = "%" -> {op_mod(a, b)} [] op = "pw" -> b_pow(a, b)
      [] op \in Rels -> {rel_bool(op, a, b)}
      [] op = "&&" -> {Truth(truthy(a) /\ truthy(b))}
      [] op = "||" -> {Truth(truthy(a) \/ truthy(b))}
      [] op \in {"wr", "st", "ck"} -> {b_policy(op, a, b)}
      [] op = "cx" -> {b_cx(a, b)}
      [] op \in {"va", "vs", "vm"} -> {b_vbinop(op, a, b)}
      [] op = "at" -> {b_vat(a, b)}
Unary(op, a) ==
    CASE op = "_" -> op_neg(a) [] op = "ab" -> b_abs(a) [] op = "sq" -> b_sqrt(a)
      [] op \in {"fl", "ce", "rd"} -> b_roundish(op, a)
      [] op = "n" -> b_to_num(a) [] op = "b" -> b_big(a) [] op = "dc" -> b_dc(a)
      [] op = "vh" -> b_vsum(a) [] op = "!" -> Truth(~truthy(a))
      [] op = "s" -> b_to_str(a)
BinaryWords == Rels \cup {"+", "-", "*", "/", "%", "pw", "&&", "||", "wr", "st", "ck",
                          "cx", "va", "vs", "vm", "at"}
UnaryWords == {"_", "ab", "sq", "fl", "ce", "rd", "n", "b", "dc", "vh", "!", "s"}

Small(r) == is_big(r) => IntOf(r[2]) \in -BigCap .. BigCap
\* A fault ends the program; a value is pushed in the place of the operands.
Outcome(rest, r) ==
    IF Faulted(r) THEN fault' = r[2] /\ stack' = <<>>
    ELSE Small(r) /\ stack' = Append(rest, r) /\ UNCHANGED fault

Running == fault = "none"
Push == /\ Running /\ Len(stack) < 2
        /\ \E v \in Literals : stack' = Append(stack, v)
        /\ UNCHANGED fault
b_width == /\ Running /\ Len(stack) < 2
           /\ \E signed \in BOOLEAN, bits \in WidthBits :
                  stack' = Append(stack, Width(signed, bits))
           /\ UNCHANGED fault
b_vec == /\ Running /\ Len(stack) < 2
         /\ \E name \in DOMAIN VecKinds, produced \in Blocks :
                Outcome(stack, build_vec(name, produced))
\* The words s on other values, and order between strings, are not modelled.
Word1 == /\ Running /\ stack # <<>>
         /\ \E op \in UnaryWords :
                /\ op = "s" => Last(stack)[1] \in {"int", "big", "dc"}
                /\ Outcome(Front(stack), Unary(op, Last(stack)))
Word2 == /\ Running /\ Len(stack) = 2
         /\ \E op \in BinaryWords :
                /\ stack[1][1] = "str" /\ stack[2][1] = "str" => op \notin Rels \ {"==", "!="}
                /\ \E r \in Binary(op, stack[1], stack[2]) : Outcome(<<>>, r)

TypeOK == stack \in Seq(Values)

Next == Push \/ b_width \/ b_vec \/ Word1 \/ Word2
Spec == Init /\ [][Next]_vars

-----------------------------------------------------------------------------
\* What the words promise, on the operands the stack holds.
IsExactInt(v) == v[1] \in {"int", "big"}
Value(v) == IF v[1] = "int" THEN v[2] ELSE IntOf(v[2])
Canonical(x) == (x.d # <<>> => Last(x.d) # 0) /\ (x.d = <<>> => ~x.neg)
\* n as the word must give it: a big as soon as an operand is one, else checked.
Due(big, n) ==
    IF big THEN <<"big", n>> ELSE IF fit(n) THEN <<"int", n>> ELSE Fault("OVERFLOW")
Given(r) == IF is_big(r) THEN <<"big", IntOf(r[2])>> ELSE r
\* A decimal in units of the least place.
At(d) == d[1] * pow10(2 * ScaleMax - d[2])
DecIs(r, n, unit) == r = Fault("OVERFLOW") \/ At(r[2]) * unit = n
FloorDiv(m, n) == IF n > 0 THEN m \div n ELSE (-m) \div (-n)

\* Integer arithmetic on limbs is integer arithmetic: the words give the exact
\* result, of the type the operands decide, or OVERFLOW when a checked int cannot
\* hold it, and no number has two representations, so that the derived == on
\* limbs is equality of numbers (lib.rs num_binop, op_div, op_mod, b_pow;
\* exact.rs for decimals and Gaussian ints).
ExactArithmetic ==
    /\ \A v \in Range(stack) : is_big(v) => Canonical(v[2])
    /\ Len(stack) = 2 =>
        LET a == stack[1]
            b == stack[2]
            big == is_big(a) \/ is_big(b)
            m == Value(a)
            n == Value(b)
            q == FloorDiv(m, n)
        IN  /\ IsExactInt(a) /\ IsExactInt(b) =>
                /\ Given(op_add(a, b)) = Due(big, m + n)
                /\ Given(op_sub(a, b)) = Due(big, m - n)
                /\ Given(op_mul(a, b)) = Due(big, m * n)
                /\ n # 0 => Given(op_mod(a, b)) = Due(big, m - n * q)
                /\ n # 0 /\ m = n * q => Given(op_div(a, b)) = Due(big, q)
                /\ n \in 0 .. Base - 1 =>
                     {Given(r) : r \in b_pow(a, b)} = {Due(big, IF n = 0 THEN 1 ELSE Power(m, n))}
            /\ a[1] = "dc" /\ b[1] = "dc" =>
                /\ DecIs(op_add(a, b), At(a[2]) + At(b[2]), 1)
                /\ DecIs(op_sub(a, b), At(a[2]) - At(b[2]), 1)
                /\ DecIs(op_mul(a, b), At(a[2]) * At(b[2]), pow10(2 * ScaleMax))

\* An int, a big or a finite float in units.
Exactly(v) == IF is_float(v) THEN Units(v[2]) ELSE Value(v) * One

\* Comparison is exact between ints, bigs and floats, never through a rounded
\* float: < is the order of the numbers, so it is transitive and agrees with ==
\* whatever the two types; a nan is below, above and equal to nothing
\* (value.rs num_partial_cmp, cmp_f64_num; lib.rs rel_bool).
OrderIsExact ==
    Len(stack) = 2 =>
        LET a == stack[1]
            b == stack[2]
            Plain(v) == IsExactInt(v) \/ (is_float(v) /\ v[2].kind = "finite")
            nan == \E v \in {a, b} : is_float(v) /\ IsNaN(v[2])
            plain == Plain(a) /\ Plain(b)
            dec == a[1] = "dc" /\ b[1] = "dc"
        IN  plain \/ dec \/ (is_num(a) /\ is_num(b) /\ nan) =>
                \A op \in Rels :
                    rel_bool(op, a, b) =
                        Truth(IF plain THEN Holds(op, Cmp(Exactly(a), Exactly(b)))
                              ELSE IF dec THEN Holds(op, Cmp(At(a[2]), At(b[2])))
                              ELSE op = "!=")

\* The quotient of two integers as IEEE rounds it.
Quotient(m, n) == Nearest((m < 0) # (n < 0), Magnitude(m) * One, Magnitude(n))
Subnormal(f) == f.kind = "finite" /\ f.m < Power(2, Prec - 1)
DivRounds(a, b) ==
    LET m == Value(a)
        n == Value(b)
        due == Quotient(m, n)
    IN  n # 0 /\ m # n * FloorDiv(m, n) =>
            op_div(a, b) = IF IsInf(due) THEN Fault("OVERFLOW") ELSE Float(due)

\* n is an integer nearest to f, the even one of two.
IsNearest(n, f) ==
    LET d == 2 * (n * One - Units(f))
    IN  d \in -One .. One /\ (d \in {-One, One} => n % 2 = 0)

\* A division that is not exact gives the float nearest to the quotient, ties to
\* even, and OVERFLOW when that is beyond the floats; a big becomes a float as the
\* machine rounds an int of the same value; rd rounds a float to the nearest
\* integer, ties to even (bigint.rs true_div_f64, f64_from_scaled; lib.rs op_div,
\* to_float, round_half_even).  Below the least normal float the code rounds
\* twice, and the property does not speak of those quotients.
NearestFloat ==
    /\ Len(stack) = 2 /\ IsExactInt(stack[1]) /\ IsExactInt(stack[2]) =>
        LET n == Value(stack[2])
        IN  n # 0 /\ ~Subnormal(Quotient(Value(stack[1]), n)) => DivRounds(stack[1], stack[2])
    /\ \A v \in Range(stack) :
        /\ is_big(v) => LET f == IntToFloat(Value(v))
                        IN  to_float(v) = IF IsInf(f) THEN Fault("OVERFLOW") ELSE Float(f)
        /\ is_float(v) /\ v[2].kind = "finite" /\ ~Faulted(b_roundish("rd", v)) =>
             IsNearest(b_roundish("rd", v)[2], v[2])

\* The comment on isqrt, "Integer square root (floor)": no integer between the
\* root it gives and the true one, so that sq of a big that is a square is a big
\* (bigint.rs isqrt; lib.rs b_sqrt).
SqrtIsFloor ==
    \A v \in Range(stack) : is_big(v) /\ ~v[2].neg =>
        LET r == IntOf(isqrt(v[2]))
        IN  r * r <= Value(v) /\ Value(v) < (r + 1) * (r + 1)

InWidth(n, signed, bits) ==
    IF signed THEN n \in -Power(2, bits - 1) .. Power(2, bits - 1) - 1
    ELSE n \in 0 .. Power(2, bits) - 1

\* One lane of va, vs and vm, on bigs.
LaneBig(op, x, y) ==
    CASE op = "va" -> add(x, y) [] op = "vs" -> sub(x, y) [] op = "vm" -> mul(x, y)

\* What wr, st and ck give of the number n and the width w.
PoliciesKeep(wr, st, ck, n, w) ==
    LET kind == IF w.bits < IntBits \/ (w.signed /\ w.bits = IntBits) THEN "int" ELSE "big"
    IN  /\ wr[1] = kind /\ InWidth(wr[2], w.signed, w.bits) /\ (wr[2] - n) % Power(2, w.bits) = 0
        /\ st[1] = kind /\ InWidth(st[2], w.signed, w.bits)
        /\ IF InWidth(n, w.signed, w.bits)
           THEN st[2] = n /\ ck = <<kind, n>>
           ELSE /\ ck = Fault("OVERFLOW")
                /\ ~InWidth(st[2] + (IF n < 0 THEN -1 ELSE 1), w.signed, w.bits)

\* A policy word leaves a number of its width, congruent to the operand (wr), the
\* nearest one (st) or the operand itself (ck), an int exactly when the whole width
\* fits one; integer lanes stay inside their width under va, vs and vm and the
\* wrapping they use on machine ints is the wrapping of bigs that made them
\* (lib.rs b_policy, typed, coerce_lane, b_vbinop, wrap_i128; bigint.rs wrap_width).
WidthsHold ==
    Len(stack) = 2 =>
        LET a == stack[1]
            w == stack[2][2]
            Got(op) == Given(b_policy(op, a, stack[2]))
        IN  /\ IsExactInt(a) /\ stack[2][1] = "width" =>
                PoliciesKeep(Got("wr"), Got("st"), Got("ck"), Value(a), w)
            /\ a[1] = "vec" /\ stack[2][1] = "vec" =>
                \A op \in {"va", "vs", "vm"} :
                    LET r == b_vbinop(op, a, stack[2])
                        k == VecKinds[a[2].name]
                    IN  ~Faulted(r) /\ ~k.is_float =>
                          \A i \in DOMAIN r[2].lanes :
                              /\ InWidth(r[2].lanes[i], k.signed, k.bits)
                              /\ r[2].lanes[i] =
                                   IntOf(wrap_width(LaneBig(op, from_i64(a[2].lanes[i]), from_i64(w.lanes[i])),
                                                    k.signed, k.bits))

\* What a number is written as is read back as the same number: s then b, n or dc,
\* and a whole float through its bits (bigint.rs Display, parse_dec, from_f64_exact;
\* exact.rs dec_text, parse_dec).
TextReadsBack ==
    \A v \in Range(stack) :
        /\ v[1] = "int" => b_to_num(b_to_str(v)) = v
        /\ v[1] = "big" => b_big(b_to_str(v)) = v
        /\ v[1] = "dc" => b_dc(b_to_str(v)) = v
        /\ is_float(v) /\ IsWhole(v[2]) =>
             IntOf(from_f64_exact(v[2])) * One = Units(v[2])
=============================================================================
