--------------------------- MODULE NumbersProofs ---------------------------
(***************************************************************************)
(* What Numbers promises, for limbs, ints, significands, exponents,        *)
(* decimals and texts of every width: every word leaves a value of its     *)
(* type or faults, arithmetic on values is arithmetic on integers, and the *)
(* policy words and the lanes stay inside their widths.                    *)
(*                                                                         *)
(* From the bottom up: decimals; floats as multiples of the least one; the *)
(* digits of texts; widths; the words, and the specification; then the     *)
(* float nearest to a quotient.                                            *)
(***************************************************************************)
EXTENDS Numbers, BigIntProofs

-----------------------------------------------------------------------------
(* The checked int.                                                        *)
LEMMA MachineIs ==
  /\ MinInt \in Int /\ MaxInt \in Nat
  /\ \A n \in Int : fit(n) <=> MinInt <= n /\ n <= MaxInt
  /\ \A n \in MinInt..MaxInt : n < Base * Base /\ -n < Base * Base
<1>1. PICK h \in Nat \ {0} : h = Power(2, IntBits - 1) /\ 2 * h = Base * Base
  BY IntSize
<1>2. MinInt = -h /\ MaxInt = h - 1
  BY <1>1 DEF MinInt, MaxInt
<1>3. \A n \in -h..h - 1 : n < 2 * h /\ -n < 2 * h
  OBVIOUS
<1>. QED
  BY <1>1, <1>2, <1>3 DEF fit

LEMMA FromMachine ==
  ASSUME NEW n \in MinInt..MaxInt
  PROVE  from_i64(n) \in Bigs /\ IntOf(from_i64(n)) = n
<1>1. n \in Int /\ n < Base * Base /\ -n < Base * Base
  BY MachineIs
<1>. QED
  BY <1>1, FromI64

LEMMA MagU64 ==
  ASSUME NEW x \in Bigs, ~(bit_len(x) > IntBits)
  PROVE  limb(x, 1) + Base * limb(x, 2) = Mag(x.d)
<1>1. PICK l \in Nat : l = bit_len(x) /\ Mag(x.d) < Power(2, l)
  BY BitLenOf
<1>2. PICK I \in Nat : I = IntBits /\ Power(2, I) = Base * Base /\ Weight(2) = Base * Base
  BY IntSize
<1>3. PICK m \in Nat : m = Mag(x.d)
  BY BigIs
<1>4. PICK B \in Nat : B = Base /\ B > 1
  BY BaseIs
<1>5. m < B * B
  <2>1. PICK w \in Nat : w = Power(2, l)
    BY <1>1, HalfOf
  <2>2. w <= B * B
    <3>1. CASE l = I
      BY <1>2, <1>4, <2>1, <3>1
    <3>2. CASE l < I
      <4>1. 2 \in Nat /\ 2 > 1
        OBVIOUS
      <4>2. Power(2, l) < Power(2, I)
        BY <3>2, <4>1, PowerGrows
      <4>3. B * B \in Nat
        OBVIOUS
      <4>. QED
        BY <1>2, <1>4, <2>1, <4>2, <4>3
    <3>. QED
      BY <1>1, <1>2, <3>1, <3>2
  <2>3. B * B \in Nat
    OBVIOUS
  <2>. QED
    BY <1>1, <1>3, <2>1, <2>2, <2>3
<1>6. PICK n \in Nat : n = Len(x.d)
  BY BigIs
<1>7. n <= 2
  <2>1. SUFFICES ASSUME n > 2 PROVE FALSE
    BY <1>6
  <2>2. x.d # <<>>
    BY <1>6, <2>1
  <2>3. PICK k \in Nat : \E a \in 1..Base - 1, low \in 0..Weight(k) - 1 :
            Len(x.d) = k + 1 /\ x.d[k + 1] = a /\ Last(x.d) = a /\ Mag(x.d) = low + a * Weight(k)
    BY <2>2, TopLimb
  <2>4. PICK a \in 1..Base - 1, low \in 0..Weight(k) - 1 : Len(x.d) = k + 1 /\ Mag(x.d) = low + a * Weight(k)
    BY <2>3
  <2>5. PICK w \in Nat : w = Weight(k)
    BY WeightNat
  <2>6. w <= m
    <3>1. a \in Nat \ {0} /\ low \in Nat /\ m = low + a * w
      BY <1>3, <1>4, <2>4, <2>5
    <3>2. a * w = w + (a - 1) * w /\ (a - 1) * w \in Nat
      BY <3>1
    <3>. QED
      BY <3>1, <3>2
  <2>7. B * B <= w
    <3>1. k >= 2
      BY <1>6, <2>1, <2>4
    <3>2. CASE k = 2
      BY <1>2, <1>4, <2>5, <3>2
    <3>3. CASE k > 2
      <4>1. 2 \in Nat /\ 2 < k
        BY <3>3
      <4>2. Power(B, 2) < Power(B, k)
        BY <1>4, <4>1, PowerGrows
      <4>3. B * B < w
        BY <1>2, <1>4, <2>5, <4>2 DEF Weight
      <4>4. B * B \in Nat
        OBVIOUS
      <4>. QED
        BY <4>3, <4>4
    <3>. QED
      BY <3>1, <3>2, <3>3
  <2>8. B * B \in Nat
    OBVIOUS
  <2>. QED
    BY <1>5, <2>6, <2>7, <2>8
<1>8. \A i \in 1..2 : limb(x, i) \in Nat /\ (i <= n => limb(x, i) = x.d[i]) /\ (i > n => limb(x, i) = 0)
  BY <1>6, LimbIs
<1>9. limb(x, 1) \in Nat /\ limb(x, 2) \in Nat /\ 1 \in 1..2 /\ 2 \in 1..2
  BY <1>8
<1>10. Mag(x.d) = Mag(Extended(x, 2)) /\ Extended(x, 2) = <<limb(x, 1), limb(x, 2)>>
  <2>1. 2 \in Nat /\ Len(x.d) <= 2
    BY <1>6, <1>7
  <2>2. Mag(Extended(x, 2)) = Mag(x.d)
    BY <2>1, ExtendedIs
  <2>3. Extended(x, 2) = <<limb(x, 1), limb(x, 2)>>
    BY DEF Extended
  <2>. QED
    BY <2>2, <2>3
<1>11. Mag(<<limb(x, 1), limb(x, 2)>>) = limb(x, 1) + limb(x, 2) * Base
  BY <1>9, ShortMags
<1>12. PICK u \in Nat : u = limb(x, 2)
  BY <1>9
<1>13. u * B = B * u
  OBVIOUS
<1>. QED
  BY <1>4, <1>10, <1>11, <1>12, <1>13

LEMMA ToI64Is ==
  ASSUME NEW x \in Bigs
  PROVE  to_i64(x) = IF fit(IntOf(x)) THEN IntOf(x) ELSE None
<1>1. PICK h \in Nat \ {0} : h = Power(2, IntBits - 1) /\ 2 * h = Base * Base
  BY IntSize
<1>2. MinInt = -h /\ MaxInt = h - 1
  BY <1>1 DEF MinInt, MaxInt
<1>3. PICK m \in Nat : m = Mag(x.d)
  BY BigIs
<1>4. PICK I \in Nat : I = IntBits /\ Power(2, I) = 2 * h
  BY <1>1, IntSize
<1>5. (x.neg => IntOf(x) = -m) /\ (~x.neg => IntOf(x) = m) /\ x.neg \in BOOLEAN
  BY <1>3, IntOfIs, BigIs
<1>6. CASE bit_len(x) > IntBits
  <2>1. PICK l \in Nat : l = bit_len(x) /\ l > I
    BY <1>4, <1>6, BitLenOf
  <2>2. Power(2, l - 1) <= m
    <3>1. x.d # <<>>
      <4>1. x.d = <<>> => bit_len(x) = 0
        BY BitLenOf
      <4>. QED
        BY <2>1, <4>1
    <3>. QED
      BY <1>3, <2>1, <3>1, BitLenOf
  <2>3. 2 * h <= m
    <3>1. l - 1 \in Nat /\ I <= l - 1
      BY <2>1
    <3>2. PICK w \in Nat : w = Power(2, l - 1)
      BY <3>1, HalfOf
    <3>3. 2 * h <= w
      <4>1. CASE l - 1 = I
        BY <1>4, <3>2, <4>1
      <4>2. CASE I < l - 1
        <5>1. 2 \in Nat /\ 2 > 1
          OBVIOUS
        <5>2. Power(2, I) < Power(2, l - 1)
          BY <3>1, <4>2, <5>1, PowerGrows
        <5>. QED
          BY <1>4, <3>2, <5>2
      <4>. QED
        BY <3>1, <4>1, <4>2
    <3>. QED
      BY <2>2, <3>2, <3>3
  <2>4. to_i64(x) = None
    BY <1>6 DEF to_i64
  <2>5. ~fit(IntOf(x))
    <3>1. CASE x.neg
      <4>1. ~(-m >= -h)
        BY <2>3
      <4>. QED
        BY <1>2, <1>5, <3>1, <4>1 DEF fit
    <3>2. CASE ~x.neg
      <4>1. ~(m <= h - 1)
        BY <2>3
      <4>. QED
        BY <1>2, <1>5, <3>2, <4>1 DEF fit
    <3>. QED
      BY <1>5, <3>1, <3>2
  <2>. QED
    BY <2>4, <2>5
<1>7. CASE ~(bit_len(x) > IntBits)
  <2>1. mag_u64(x) = m
    BY <1>3, <1>7, MagU64 DEF mag_u64
  <2>2. to_i64(x) = IF x.neg THEN (IF m <= h THEN -m ELSE None) ELSE (IF m < h THEN m ELSE None)
    BY <1>1, <1>7, <2>1 DEF to_i64
  <2>3. CASE x.neg
    <3>1. fit(-m) <=> m <= h
      <4>1. -m >= -h <=> m <= h
        OBVIOUS
      <4>2. -m <= h - 1
        OBVIOUS
      <4>. QED
        BY <1>2, <4>1, <4>2 DEF fit
    <3>. QED
      BY <1>5, <2>2, <2>3, <3>1
  <2>4. CASE ~x.neg
    <3>1. fit(m) <=> m < h
      <4>1. m >= -h /\ (m <= h - 1 <=> m < h)
        OBVIOUS
      <4>. QED
        BY <1>2, <4>1 DEF fit
    <3>. QED
      BY <1>5, <2>2, <2>4, <3>1
  <2>. QED
    BY <1>5, <2>3, <2>4
<1>. QED
  BY <1>6, <1>7

-----------------------------------------------------------------------------
(* Values.                                                                 *)
ExactInt(v) == (v[1] = "int" /\ v[2] \in Machine) \/ (v[1] = "big" /\ v[2] \in Bigs)

LEMMA ToBigintIs ==
  ASSUME NEW v, ExactInt(v)
  PROVE  /\ to_bigint(v) \in Bigs /\ IntOf(to_bigint(v)) = Value(v) /\ Value(v) \in Int
         /\ is_num(v) /\ ~is_float(v) /\ v[1] # "dc" /\ v[1] # "cx"
         /\ (is_big(v) <=> v[1] = "big")
<1>1. CASE v[1] = "int" /\ v[2] \in Machine
  <2>1. to_bigint(v) = from_i64(v[2]) /\ Value(v) = v[2]
    BY <1>1 DEF to_bigint, Value
  <2>2. v[2] \in Int
    BY <1>1, MachineIs DEF Machine
  <2>. QED
    BY <1>1, <2>1, <2>2, FromMachine DEF Machine, is_num, is_float, is_big
<1>2. CASE v[1] = "big" /\ v[2] \in Bigs
  <2>1. to_bigint(v) = v[2] /\ Value(v) = IntOf(v[2])
    BY <1>2 DEF to_bigint, Value
  <2>. QED
    BY <1>2, <2>1, IntOfIs DEF is_num, is_float, is_big
<1>. QED
  BY <1>1, <1>2 DEF ExactInt

(* A result of the type that the operands decide.                          *)
LEMMA FitIntIs ==
  ASSUME NEW x \in Bigs, None \notin Int
  PROVE  fit_int(x) = IF fit(IntOf(x)) THEN Int_(IntOf(x)) ELSE Fault("OVERFLOW")
<1>1. to_i64(x) = IF fit(IntOf(x)) THEN IntOf(x) ELSE None
  BY ToI64Is
<1>2. IntOf(x) \in Int
  BY IntOfIs
<1>. QED
  BY <1>1, <1>2 DEF fit_int

LEMMA ResultIs ==
  ASSUME NEW x \in Bigs, NEW big \in BOOLEAN, None \notin Int
  PROVE  /\ Given(exact_result(big, x)) = Due(big, IntOf(x))
         /\ exact_result(big, x)[1] = "fault" \/ ExactInt(exact_result(big, x))
<1>1. CASE big
  <2>1. exact_result(big, x) = <<"big", x>>
    BY <1>1 DEF exact_result, BigV
  <2>2. Given(<<"big", x>>) = <<"big", IntOf(x)>>
    BY DEF Given, is_big
  <2>3. Due(big, IntOf(x)) = <<"big", IntOf(x)>>
    BY <1>1 DEF Due
  <2>4. ExactInt(<<"big", x>>)
    BY DEF ExactInt
  <2>5. Given(exact_result(big, x)) = Due(big, IntOf(x))
    BY <2>1, <2>2, <2>3
  <2>. QED
    BY <2>1, <2>4, <2>5
<1>2. CASE ~big /\ fit(IntOf(x))
  <2>1. exact_result(big, x) = <<"int", IntOf(x)>>
    BY <1>2, FitIntIs DEF exact_result, Int_
  <2>2. IntOf(x) \in Machine
    BY <1>2, MachineIs, IntOfIs DEF Machine
  <2>. QED
    BY <1>2, <2>1, <2>2 DEF Given, Due, is_big, ExactInt
<1>3. CASE ~big /\ ~fit(IntOf(x))
  <2>1. exact_result(big, x) = <<"fault", "OVERFLOW">>
    BY <1>3, FitIntIs DEF exact_result, Fault
  <2>. QED
    BY <1>3, <2>1 DEF Given, Due, is_big, Fault
<1>. QED
  BY <1>1, <1>2, <1>3

Kind(a, b) == is_big(a) \/ is_big(b)
Quot(m, n) == IF n > 0 THEN m \div n ELSE (-m) \div (-n)

LEMMA BinopIs ==
  ASSUME NEW a, NEW b, ExactInt(a), ExactInt(b), None \notin Int
  PROVE  /\ op_add(a, b) = exact_result(Kind(a, b), add(to_bigint(a), to_bigint(b)))
         /\ op_sub(a, b) = exact_result(Kind(a, b), sub(to_bigint(a), to_bigint(b)))
         /\ op_mul(a, b) = exact_result(Kind(a, b), mul(to_bigint(a), to_bigint(b)))
<1>1. /\ is_num(a) /\ ~is_float(a) /\ a[1] # "dc" /\ a[1] # "cx"
      /\ is_num(b) /\ ~is_float(b) /\ b[1] # "dc" /\ b[1] # "cx"
  BY ToBigintIs
<1>2. pop_arith(a, b)
  BY <1>1 DEF pop_arith
<1>3. /\ op_add(a, b) = num_binop(a, b, "Add")
      /\ op_sub(a, b) = num_binop(a, b, "Sub")
      /\ op_mul(a, b) = num_binop(a, b, "Mul")
  BY <1>1, <1>2 DEF op_add, op_sub, op_mul
<1>. QED
  BY <1>1, <1>3 DEF num_binop, Kind

LEMMA RingWords ==
  ASSUME NEW a, NEW b, ExactInt(a), ExactInt(b), None \notin Int
  PROVE  /\ Given(op_add(a, b)) = Due(Kind(a, b), Value(a) + Value(b))
         /\ Given(op_sub(a, b)) = Due(Kind(a, b), Value(a) - Value(b))
         /\ Given(op_mul(a, b)) = Due(Kind(a, b), Value(a) * Value(b))
<1>1. PICK x \in Bigs : x = to_bigint(a) /\ IntOf(x) = Value(a)
  BY ToBigintIs
<1>2. PICK y \in Bigs : y = to_bigint(b) /\ IntOf(y) = Value(b)
  BY ToBigintIs
<1>3. Kind(a, b) \in BOOLEAN
  BY DEF Kind, is_big
<1>4. add(x, y) \in Bigs /\ IntOf(add(x, y)) = Value(a) + Value(b)
  BY <1>1, <1>2, AddIs
<1>5. sub(x, y) \in Bigs /\ IntOf(sub(x, y)) = Value(a) - Value(b)
  BY <1>1, <1>2, SubIs
<1>6. mul(x, y) \in Bigs /\ IntOf(mul(x, y)) = Value(a) * Value(b)
  BY <1>1, <1>2, MulIs
<1>7. Given(op_add(a, b)) = Due(Kind(a, b), IntOf(add(x, y)))
  BY <1>1, <1>2, <1>3, <1>4, BinopIs, ResultIs
<1>8. Given(op_sub(a, b)) = Due(Kind(a, b), IntOf(sub(x, y)))
  BY <1>1, <1>2, <1>3, <1>5, BinopIs, ResultIs
<1>9. Given(op_mul(a, b)) = Due(Kind(a, b), IntOf(mul(x, y)))
  BY <1>1, <1>2, <1>3, <1>6, BinopIs, ResultIs
<1>. QED
  BY <1>4, <1>5, <1>6, <1>7, <1>8, <1>9

LEMMA TruthyIs ==
  ASSUME NEW v, ExactInt(v)
  PROVE  truthy(v) <=> Value(v) # 0
<1>1. CASE v[1] = "int" /\ v[2] \in Machine
  BY <1>1 DEF truthy, Value
<1>2. CASE v[1] = "big" /\ v[2] \in Bigs
  <2>1. (truthy(v) <=> ~is_zero(v[2])) /\ Value(v) = IntOf(v[2])
    BY <1>2 DEF truthy, Value
  <2>. QED
    BY <1>2, <2>1, IntOfIs
<1>. QED
  BY <1>1, <1>2 DEF ExactInt

LEMMA DivWords ==
  ASSUME NEW a, NEW b, ExactInt(a), ExactInt(b), None \notin Int, Value(b) # 0
  PROVE  LET m == Value(a)
             n == Value(b)
             q == Quot(m, n)
         IN  /\ Given(op_mod(a, b)) = Due(Kind(a, b), m - n * q)
             /\ m = n * q => Given(op_div(a, b)) = Due(Kind(a, b), q)
<1>0. /\ is_num(a) /\ ~is_float(a) /\ is_num(b) /\ ~is_float(b)
  BY ToBigintIs
<1>1. PICK x \in Bigs : x = to_bigint(a) /\ IntOf(x) = Value(a)
  BY ToBigintIs
<1>2. PICK y \in Bigs : y = to_bigint(b) /\ IntOf(y) = Value(b)
  BY ToBigintIs
<1>3. ~num_is_zero(b)
  BY <1>0, TruthyIs DEF num_is_zero
<1>4. PICK q \in Bigs, r \in Bigs : divmod_floor(x, y) = <<q, r>>
  BY DivModFloorIs
<1>5. IntOf(q) = Quot(Value(a), Value(b)) /\ IntOf(r) = Value(a) - Value(b) * Quot(Value(a), Value(b))
  <2>1. divmod_floor(x, y)[1] = q /\ divmod_floor(x, y)[2] = r
    BY <1>4
  <2>. QED
    BY <1>1, <1>2, <2>1, FloorIs DEF Quot
<1>6. Kind(a, b) \in BOOLEAN
  BY DEF Kind, is_big
<1>7. op_mod(a, b) = exact_result(Kind(a, b), r)
  <2>1. divmod_floor(to_bigint(a), to_bigint(b))[2] = r
    BY <1>1, <1>2, <1>4
  <2>. QED
    BY <1>0, <1>3, <2>1 DEF op_mod, Divides, Kind
<1>8. ASSUME Value(a) = Value(b) * Quot(Value(a), Value(b))
      PROVE  op_div(a, b) = exact_result(Kind(a, b), q)
  <2>1. divmod_floor(to_bigint(a), to_bigint(b)) = <<q, r>>
    BY <1>1, <1>2, <1>4
  <2>2. is_zero(r)
    <3>1. PICK m \in Int : m = Value(a)
      BY ToBigintIs
    <3>2. IntOf(r) = m - m
      BY <1>5, <1>8, <3>1
    <3>3. IntOf(r) = 0
      BY <3>2
    <3>. QED
      BY <3>3, IntOfIs
  <2>3. divmod_floor(to_bigint(a), to_bigint(b))[1] = q /\ divmod_floor(to_bigint(a), to_bigint(b))[2] = r
    BY <2>1
  <2>4. is_num(a) /\ is_num(b) /\ ~num_is_zero(b) /\ ~(is_float(a) \/ is_float(b))
    BY <1>0, <1>3
  <2>. QED
    BY <2>2, <2>3, <2>4, ZenonT(30) DEF op_div, Divides, Kind
<1>. QED
  BY <1>5, <1>6, <1>7, <1>8, ResultIs

-----------------------------------------------------------------------------
(* Powers of small bases.                                                  *)
LEMMA PowerUnits ==
  ASSUME NEW n \in Nat
  PROVE  /\ Power(1, n) = 1 /\ (n # 0 => Power(0, n) = 0)
         /\ Power(-1, n) = IF n % 2 = 0 THEN 1 ELSE -1
<1> DEFINE P == {k \in Nat : /\ Power(1, k) = 1 /\ (k # 0 => Power(0, k) = 0)
                             /\ Power(-1, k) = IF k % 2 = 0 THEN 1 ELSE -1}
<1>1. 0 \in P
  <2>1. 0 \in Int /\ 1 \in Int /\ -1 \in Int /\ 0 % 2 = 0
    OBVIOUS
  <2>. QED
    BY <2>1, PowerZero
<1>2. \A k \in Nat : k \in P => k + 1 \in P
  <2> SUFFICES ASSUME NEW k \in Nat, k \in P PROVE k + 1 \in P
    OBVIOUS
  <2>1. 0 \in Int /\ 1 \in Int /\ -1 \in Int
    OBVIOUS
  <2>6. Power(1, k + 1) = 1 * Power(1, k)
    BY <2>1, PowerNext
  <2>7. Power(0, k + 1) = 0 * Power(0, k) /\ Power(0, k) \in Int
    BY <2>1, PowerNext
  <2>8. \A b \in Int : Power(b, k + 1) = b * Power(b, k)
    BY PowerNext
  <2>9. Power(-1, k + 1) = (-1) * Power(-1, k)
    BY <2>1, <2>8
  <2>2. Power(1, k + 1) = 1 * Power(1, k) /\ Power(0, k + 1) = 0 * Power(0, k)
        /\ Power(-1, k + 1) = (-1) * Power(-1, k) /\ Power(0, k) \in Int
    BY <2>6, <2>7, <2>9
  <2>3. Power(0, k + 1) = 0
    <3>1. \A z \in Int : 0 * z = 0
      OBVIOUS
    <3>. QED
      BY <2>2, <3>1
  <2>4. k % 2 = 0 <=> (k + 1) % 2 # 0
    OBVIOUS
  <2>5. Power(-1, k + 1) = IF (k + 1) % 2 = 0 THEN 1 ELSE -1
    <3>1. CASE k % 2 = 0
      BY <2>2, <2>4, <3>1
    <3>2. CASE k % 2 # 0
      BY <2>2, <2>4, <3>2
    <3>. QED
      BY <3>1, <3>2
  <2>. QED
    BY <2>2, <2>3, <2>5
<1>. HIDE DEF P
<1>3. Nat \subseteq P
  BY <1>1, <1>2, Induction
<1>. QED
  BY <1>3 DEF P

(* A base of at least two in magnitude doubles the power at every step.    *)
LEMMA PowerLarge ==
  ASSUME NEW m \in Int, m >= 2 \/ m <= -2, NEW n \in Nat
  PROVE  Power(m, n) >= Power(2, n) \/ Power(m, n) <= -Power(2, n)
<1> DEFINE P == {k \in Nat : Power(m, k) >= Power(2, k) \/ Power(m, k) <= -Power(2, k)}
<1>1. 0 \in P
  <2>1. Power(m, 0) = 1 /\ Power(2, 0) = 1
    BY PowerZero
  <2>. QED
    BY <2>1
<1>2. \A k \in Nat : k \in P => k + 1 \in P
  <2> SUFFICES ASSUME NEW k \in Nat, k \in P PROVE k + 1 \in P
    OBVIOUS
  <2>1. PICK p \in Int : p = Power(m, k) /\ Power(m, k + 1) = m * p
    BY PowerNext
  <2>2. PICK q \in Nat : q = Power(2, k) /\ Power(2, k + 1) = 2 * q
    <3>1. 2 \in Int
      OBVIOUS
    <3>2. Power(2, k) \in Nat
      BY HalfOf
    <3>. QED
      BY <3>1, <3>2, PowerNext
  <2>3. p >= q \/ p <= -q
    BY <2>1, <2>2
  <2>4. m * p >= 2 * q \/ m * p <= -(2 * q)
    <3>1. CASE p >= q /\ m >= 2
      <4>1. m * p = 2 * p + (m - 2) * p /\ m - 2 \in Nat /\ p \in Nat
        BY <3>1
      <4>2. (m - 2) * p \in Nat
        BY <4>1
      <4>. QED
        BY <3>1, <4>1, <4>2
    <3>2. CASE p >= q /\ m <= -2
      <4>1. m * p = -(2 * p) - (-2 - m) * p /\ -2 - m \in Nat /\ p \in Nat
        BY <3>2
      <4>2. (-2 - m) * p \in Nat
        BY <4>1
      <4>. QED
        BY <3>2, <4>1, <4>2
    <3>3. CASE p <= -q /\ m >= 2
      <4>1. m * p = -(2 * (-p)) - (m - 2) * (-p) /\ m - 2 \in Nat /\ -p \in Nat
        BY <3>3
      <4>2. (m - 2) * (-p) \in Nat
        BY <4>1
      <4>. QED
        BY <3>3, <4>1, <4>2
    <3>4. CASE p <= -q /\ m <= -2
      <4>1. m * p = 2 * (-p) + (-2 - m) * (-p) /\ -2 - m \in Nat /\ -p \in Nat
        BY <3>4
      <4>2. (-2 - m) * (-p) \in Nat
        BY <4>1
      <4>. QED
        BY <3>4, <4>1, <4>2
    <3>. QED
      BY <2>3, <3>1, <3>2, <3>3, <3>4
  <2>. QED
    BY <2>1, <2>2, <2>4
<1>. HIDE DEF P
<1>3. Nat \subseteq P
  BY <1>1, <1>2, Induction
<1>. QED
  BY <1>3 DEF P

(* The least exponent that a checked int cannot take.                      *)
LEMMA PowerUnfit ==
  ASSUME NEW m \in Int, m >= 2 \/ m <= -2, NEW n \in Nat, n > IntBits - 1
  PROVE  ~fit(Power(m, n))
<1>1. PICK h \in Nat \ {0} : h = Power(2, IntBits - 1) /\ 2 * h = Base * Base
  BY IntSize
<1>2. MinInt = -h /\ MaxInt = h - 1
  BY <1>1 DEF MinInt, MaxInt
<1>3. PICK I \in Nat : I = IntBits /\ Power(2, I) = 2 * h
  BY <1>1, IntSize
<1>4. PICK w \in Nat : w = Power(2, n)
  BY HalfOf
<1>5. 2 * h <= w
  <2>1. CASE n = I
    BY <1>3, <1>4, <2>1
  <2>2. CASE I < n
    <3>1. 2 \in Nat /\ 2 > 1
      OBVIOUS
    <3>2. Power(2, I) < Power(2, n)
      BY <2>2, <3>1, PowerGrows
    <3>. QED
      BY <1>3, <1>4, <3>2
  <2>. QED
    BY <1>3, <2>1, <2>2
<1>6. PICK p \in Int : p = Power(m, n) /\ (p >= w \/ p <= -w)
  BY <1>4, PowerLarge, PowerNext
<1>7. ~(p >= -h /\ p <= h - 1)
  BY <1>5, <1>6
<1>. QED
  BY <1>2, <1>6, <1>7 DEF fit

-----------------------------------------------------------------------------
(* The exponent.                                                           *)
LEMMA SmallInts == fit(1) /\ fit(0) /\ fit(-1) /\ fit(2) \in BOOLEAN
<1>1. PICK h \in Nat \ {0} : h = Power(2, IntBits - 1) /\ 2 * h = Base * Base
  BY IntSize
<1>2. MinInt = -h /\ MaxInt = h - 1
  BY <1>1 DEF MinInt, MaxInt
<1>3. PICK B \in Nat : B = Base /\ B > 1
  BY BaseIs
<1>4. h >= 2
  <2>1. B * B = 2 * B + (B - 2) * B /\ (B - 2) * B \in Nat
    BY <1>3
  <2>. QED
    BY <1>1, <1>3, <2>1
<1>. QED
  BY <1>2, <1>4 DEF fit

LEMMA MinusOne == from_i64(-1) \in Bigs /\ IntOf(from_i64(-1)) = -1 /\ from_i64(2) \in Bigs /\ IntOf(from_i64(2)) = 2
<1>1. PICK B \in Nat : B = Base /\ B > 1
  BY BaseIs
<1>2. B * B = 2 * B + (B - 2) * B /\ (B - 2) * B \in Nat
  BY <1>1
<1>3. B * B > 2
  BY <1>1, <1>2
<1>4. -1 \in Int /\ -1 < Base * Base /\ -(-1) < Base * Base /\ 2 \in Int /\ 2 < Base * Base /\ -2 < Base * Base
  BY <1>1, <1>3
<1>. QED
  BY <1>4, FromI64

LEMMA OddIs ==
  ASSUME NEW y \in Bigs
  PROVE  exp_is_odd(y) <=> IntOf(y) % 2 = 1
<1>1. PICK t \in Bigs : t = from_i64(2) /\ IntOf(t) = 2
  BY MinusOne
<1>2. PICK n \in Int : n = IntOf(y)
  BY IntOfIs
<1>3. IntOf(divmod_floor(y, t)[2]) = n - 2 * (n \div 2)
  <2>1. IntOf(t) # 0 /\ IntOf(t) > 0
    BY <1>1
  <2>2. IntOf(divmod_floor(y, t)[2]) = IntOf(y) - IntOf(t) * (IF IntOf(t) > 0 THEN IntOf(y) \div IntOf(t) ELSE (-IntOf(y)) \div (-IntOf(t)))
    BY <2>1, FloorIs
  <2>. QED
    BY <1>1, <1>2, <2>1, <2>2
<1>4. n - 2 * (n \div 2) = n % 2
  OBVIOUS
<1>5. divmod_floor(y, t)[2] \in Bigs
  <2>1. PICK q \in Bigs, r \in Bigs : divmod_floor(y, t) = <<q, r>>
    BY DivModFloorIs
  <2>. QED
    BY <2>1
<1>6. divmod_floor(y, t)[2] = one <=> IntOf(divmod_floor(y, t)[2]) = 1
  BY <1>5, OneIs, OneBig
<1>. QED
  BY <1>1, <1>2, <1>3, <1>4, <1>6 DEF exp_is_odd

LEMMA ToU32Is ==
  ASSUME NEW y \in Bigs, IntOf(y) \in 0..Base - 1
  PROVE  to_u32(y) = IntOf(y)
<1>1. PICK B \in Nat : B = Base /\ B > 1 /\ B = Power(2, LimbBits)
  BY BaseIs DEF Base
<1>2. PICK n \in Nat : n = IntOf(y) /\ n < B
  BY <1>1
<1>3. ~y.neg /\ Mag(y.d) = n
  <2>1. ~(IntOf(y) < 0)
    BY <1>2
  <2>. QED
    BY <1>2, <2>1, IntOfIs
<1>4. PICK l \in Nat : l = bit_len(y) /\ (y.d = <<>> => l = 0) /\ (y.d # <<>> => l # 0 /\ Power(2, l - 1) <= n)
  BY <1>3, BitLenOf
<1>5. PICK L \in Nat : L = LimbBits
  BY WidthAssumption
<1>6. l <= L
  <2>1. SUFFICES ASSUME l > L PROVE FALSE
    OBVIOUS
  <2>2. l # 0 /\ l - 1 \in Nat /\ L <= l - 1 /\ Power(2, l - 1) <= n
    BY <1>4, <2>1
  <2>3. PICK w \in Nat : w = Power(2, l - 1)
    BY <2>2, HalfOf
  <2>4. B <= w
    <3>1. CASE l - 1 = L
      BY <1>1, <1>5, <2>3, <3>1
    <3>2. CASE L < l - 1
      <4>1. 2 \in Nat /\ 2 > 1
        OBVIOUS
      <4>2. Power(2, L) < Power(2, l - 1)
        BY <2>2, <3>2, <4>1, PowerGrows
      <4>. QED
        BY <1>1, <1>5, <2>3, <4>2
    <3>. QED
      BY <2>2, <3>1, <3>2
  <2>. QED
    BY <1>2, <2>2, <2>3, <2>4
<1>7. limb(y, 1) = n
  <2>1. CASE y.d = <<>>
    <3>1. 1 \in Nat \ {0} /\ 1 > Len(y.d) /\ Mag(y.d) = 0
      BY <2>1, BitLenOf
    <3>. QED
      BY <1>3, <3>1, LimbIs
  <2>2. CASE y.d # <<>>
    <3>1. PICK k \in Nat : \E a \in 1..Base - 1, low \in 0..Weight(k) - 1 :
            Len(y.d) = k + 1 /\ y.d[k + 1] = a /\ Last(y.d) = a /\ Mag(y.d) = low + a * Weight(k)
      BY <2>2, TopLimb
    <3>2. PICK a \in 1..Base - 1, low \in 0..Weight(k) - 1 :
            Len(y.d) = k + 1 /\ y.d[k + 1] = a /\ Mag(y.d) = low + a * Weight(k)
      BY <3>1
    <3>3. PICK w \in Nat \ {0} : w = Weight(k)
      BY WeightNat
    <3>4. k = 0
      <4>1. SUFFICES ASSUME k # 0 PROVE FALSE
        OBVIOUS
      <4>2. B <= w
        <5>1. CASE k = 1
          BY <1>1, <3>3, <5>1, WeightIs
        <5>2. CASE k > 1
          <6>1. Power(B, 1) < Power(B, k)
            BY <1>1, <5>2, PowerGrows
          <6>2. Power(B, 1) = B
            BY PowerOne
          <6>3. w = Power(B, k)
            BY <1>1, <3>3 DEF Weight
          <6>. QED
            BY <6>1, <6>2, <6>3
        <5>. QED
          BY <4>1, <5>1, <5>2
      <4>4. a \in Nat \ {0} /\ low \in Nat
        BY <1>1, <3>3
      <4>3. a * w = w + (a - 1) * w /\ (a - 1) * w \in Nat /\ a \in Nat \ {0} /\ low \in Nat
        BY <4>4
      <4>5. PICK t \in Nat : t = (a - 1) * w
        BY <4>3
      <4>6. n = low + (w + t) /\ n < B
        BY <1>2, <1>3, <3>2, <3>3, <4>3, <4>5
      <4>. QED
        BY <1>1, <4>2, <4>4, <4>6
    <3>5. Weight(0) = 1 /\ low = 0 /\ a \in Nat
      BY <1>1, <3>4, WeightIs
    <3>6. y.d[1] = n /\ Len(y.d) = 1
      BY <1>3, <3>2, <3>4, <3>5
    <3>. QED
      BY <3>6, LimbIs
  <2>. QED
    BY <2>1, <2>2
<1>. QED
  BY <1>2, <1>3, <1>4, <1>5, <1>6, <1>7 DEF to_u32

-----------------------------------------------------------------------------
(* The word pw on exact operands.                                          *)
PowDue(m, n) == IF n = 0 THEN 1 ELSE Power(m, n)

LEMMA PowBigIs ==
  ASSUME NEW x \in Bigs, NEW y \in Bigs, IntOf(y) \in 0..Base - 1, None \notin Int
  PROVE  \E z \in Bigs : pow_big(x, y) = BigV(z) /\ IntOf(z) = PowDue(IntOf(x), IntOf(y))
<1>0. PICK m \in Int : m = IntOf(x)
  BY IntOfIs
<1>1. PICK n \in Nat : n = IntOf(y) /\ n \in Int
  BY BaseIs
<1>2. (is_zero(y) <=> n = 0) /\ (is_zero(x) <=> m = 0) /\ (x = one <=> m = 1) /\ (x = from_i64(-1) <=> m = -1)
  BY <1>0, <1>1, IntOfIs, OneIs, OneBig, MinusOne
<1>3. CASE n = 0 \/ m = 1
  <2>1. pow_big(x, y) = BigV(one)
    BY <1>2, <1>3 DEF pow_big
  <2>2. PowDue(m, n) = 1
    BY <1>3, PowerUnits DEF PowDue
  <2>. QED
    BY <1>0, <1>1, <2>1, <2>2, OneIs
<1>4. CASE n # 0 /\ m = 0
  <2>1. pow_big(x, y) = BigV(zero)
    BY <1>2, <1>4 DEF pow_big
  <2>2. PowDue(m, n) = 0
    BY <1>4, PowerUnits DEF PowDue
  <2>. QED
    BY <1>0, <1>1, <2>1, <2>2, ZeroIs
<1>5. CASE n # 0 /\ m = -1
  <2>1. pow_big(x, y) = BigV(IF exp_is_odd(y) THEN x ELSE one)
    BY <1>2, <1>5 DEF pow_big
  <2>2. exp_is_odd(y) <=> n % 2 = 1
    BY <1>1, OddIs
  <2>3. PowDue(m, n) = IF n % 2 = 0 THEN 1 ELSE -1
    BY <1>5, PowerUnits DEF PowDue
  <2>4. n % 2 = 1 <=> n % 2 # 0
    OBVIOUS
  <2>5. CASE n % 2 = 1
    BY <1>0, <1>1, <1>5, <2>1, <2>2, <2>3, <2>4, <2>5
  <2>6. CASE n % 2 # 1
    BY <1>0, <1>1, <2>1, <2>2, <2>3, <2>4, <2>6, OneIs
  <2>. QED
    BY <2>5, <2>6
<1>6. CASE n # 0 /\ m # 1 /\ m # 0 /\ m # -1
  <2>1. to_u32(y) = n /\ n # None
    BY <1>1, ToU32Is
  <2>2. pow_big(x, y) = BigV(pow_u32(x, n))
    BY <1>2, <1>6, <2>1 DEF pow_big
  <2>. QED
    BY <1>0, <1>1, <1>6, <2>2, PowU32Is DEF PowDue
<1>. QED
  BY <1>3, <1>4, <1>5, <1>6

LEMMA PowIntIs ==
  ASSUME NEW m \in Machine, NEW n \in Nat, None \notin Int
  PROVE  pow_int(m, n) = Due(FALSE, PowDue(m, n))
<1>0. m \in Int
  BY MachineIs DEF Machine
<1>1. CASE n = 0 \/ m = 1
  <2>1. pow_int(m, n) = Int_(1)
    BY <1>1 DEF pow_int
  <2>2. PowDue(m, n) = 1
    BY <1>1, PowerUnits DEF PowDue
  <2>. QED
    BY <2>1, <2>2, SmallInts DEF Due, Int_
<1>2. CASE n # 0 /\ m = 0
  <2>1. pow_int(m, n) = Int_(0)
    BY <1>2 DEF pow_int
  <2>2. PowDue(m, n) = 0
    BY <1>2, PowerUnits DEF PowDue
  <2>. QED
    BY <2>1, <2>2, SmallInts DEF Due, Int_
<1>3. CASE n # 0 /\ m = -1
  <2>1. pow_int(m, n) = Int_(IF n % 2 = 0 THEN 1 ELSE -1)
    BY <1>3 DEF pow_int
  <2>2. PowDue(m, n) = IF n % 2 = 0 THEN 1 ELSE -1
    BY <1>3, PowerUnits DEF PowDue
  <2>. QED
    BY <2>1, <2>2, SmallInts DEF Due, Int_
<1>4. CASE n # 0 /\ m # 1 /\ m # 0 /\ m # -1
  <2>1. PowDue(m, n) = Power(m, n)
    BY <1>4 DEF PowDue
  <2>2. CASE n > IntBits - 1
    <3>1. pow_int(m, n) = Fault("OVERFLOW")
      BY <1>4, <2>2 DEF pow_int
    <3>2. ~fit(Power(m, n))
      BY <1>0, <1>4, <2>2, PowerUnfit
    <3>. QED
      BY <2>1, <3>1, <3>2 DEF Due
  <2>3. CASE ~(n > IntBits - 1)
    <3>1. pow_int(m, n) = fit_int(pow_u32(from_i64(m), n))
      BY <1>4, <2>3 DEF pow_int
    <3>2. from_i64(m) \in Bigs /\ IntOf(from_i64(m)) = m
      BY FromMachine DEF Machine
    <3>3. pow_u32(from_i64(m), n) \in Bigs /\ IntOf(pow_u32(from_i64(m), n)) = Power(m, n)
      BY <3>2, PowU32Is
    <3>. QED
      BY <2>1, <3>1, <3>3, FitIntIs DEF Due, Int_
  <2>. QED
    BY <2>2, <2>3
<1>. QED
  BY <1>1, <1>2, <1>3, <1>4

LEMMA PowWord ==
  ASSUME NEW a, NEW e, ExactInt(a), ExactInt(e), None \notin Int, Value(e) \in 0..Base - 1
  PROVE  {Given(r) : r \in b_pow(a, e)} = {Due(Kind(a, e), PowDue(Value(a), Value(e)))}
<1>0. /\ is_num(a) /\ ~is_float(a) /\ is_num(e) /\ ~is_float(e)
  BY ToBigintIs
<1>1. PICK x \in Bigs : x = to_bigint(a) /\ IntOf(x) = Value(a)
  BY ToBigintIs
<1>2. PICK y \in Bigs : y = to_bigint(e) /\ IntOf(y) = Value(e)
  BY ToBigintIs
<1>3. PICK n \in Nat : n = Value(e) /\ n \in 0..Base - 1
  BY BaseIs
<1>4. ~y.neg
  <2>1. ~(IntOf(y) < 0)
    BY <1>2, <1>3
  <2>. QED
    BY <2>1, IntOfIs
<1>5. b_pow(a, e) = IF is_big(a) \/ is_big(e) THEN {pow_big(x, y)} ELSE {pow_int(a[2], e[2])}
  BY <1>0, <1>1, <1>2, <1>4 DEF b_pow
<1>6. CASE Kind(a, e)
  <2>1. PICK z \in Bigs : pow_big(x, y) = BigV(z) /\ IntOf(z) = PowDue(Value(a), n)
    BY <1>1, <1>2, <1>3, PowBigIs
  <2>2. Given(BigV(z)) = <<"big", IntOf(z)>>
    BY DEF Given, is_big, BigV
  <2>3. Due(Kind(a, e), PowDue(Value(a), n)) = <<"big", IntOf(z)>>
    BY <1>6, <2>1 DEF Due
  <2>4. b_pow(a, e) = {BigV(z)}
    BY <1>5, <1>6, <2>1 DEF Kind
  <2>. QED
    BY <1>3, <2>2, <2>3, <2>4
<1>7. CASE ~Kind(a, e)
  <2>1. a[1] = "int" /\ a[2] \in Machine /\ e[1] = "int" /\ Value(a) = a[2] /\ Value(e) = e[2]
    BY <1>7 DEF Kind, is_big, ExactInt, Value
  <2>2. pow_int(a[2], n) = Due(FALSE, PowDue(Value(a), n))
    BY <2>1, PowIntIs
  <2>3. b_pow(a, e) = {Due(FALSE, PowDue(Value(a), n))}
    BY <1>3, <1>5, <1>7, <2>1, <2>2 DEF Kind
  <2>4. Given(Due(FALSE, PowDue(Value(a), n))) = Due(FALSE, PowDue(Value(a), n))
    BY DEF Given, Due, is_big, Fault
  <2>5. Due(Kind(a, e), PowDue(Value(a), n)) = Due(FALSE, PowDue(Value(a), n))
    BY <1>7 DEF Due
  <2>. QED
    BY <1>3, <2>3, <2>4, <2>5
<1>. QED
  BY <1>6, <1>7

-----------------------------------------------------------------------------
(* Decimals.                                                               *)
LEMMA Tens ==
  /\ \A i \in Nat : pow10(i) \in Nat \ {0}
  /\ \A i, j \in Nat : pow10(i + j) = pow10(i) * pow10(j)
<1>1. Radix \in Nat \ {0} /\ Radix \in Int
  BY WidthAssumption, BaseIs
<1>. QED
  BY <1>1, PowerNat, PowerAdd DEF pow10

LEMMA DecIsPair ==
  ASSUME NEW x \in Decs
  PROVE  x[1] \in Int /\ x[1] \in Machine /\ x[2] \in Nat /\ x[2] \in 0..ScaleMax /\ x = <<x[1], x[2]>>
BY MachineIs, ValueAssumption DEF Decs, Machine

LEMMA ScalesAre ==
  /\ ScaleMax \in Nat /\ 2 * ScaleMax \in Nat
  /\ \A i \in 0..ScaleMax : i \in Nat /\ ScaleMax - i \in Nat /\ 2 * ScaleMax - i \in Nat
BY ValueAssumption

LEMMA AlignedIs ==
  ASSUME NEW x \in Decs, NEW y \in Decs
  PROVE  \E p \in Int, q \in Int, s \in 0..ScaleMax, u \in Nat \ {0} :
            /\ Aligned(x, y) = <<p, q, s>> /\ u = pow10(2 * ScaleMax - s)
            /\ At(x) = p * u /\ At(y) = q * u
<1>0. ScaleMax \in Nat
  BY ScalesAre
<1>1. PICK c \in Int, i \in 0..ScaleMax : c = x[1] /\ i = x[2]
  BY DecIsPair
<1>2. PICK d \in Int, j \in 0..ScaleMax : d = y[1] /\ j = y[2]
  BY DecIsPair
<1>3. PICK s \in 0..ScaleMax : s = (IF i > j THEN i ELSE j) /\ i <= s /\ j <= s
  BY <1>0
<1>4. s - i \in Nat /\ s - j \in Nat /\ 2 * ScaleMax - s \in Nat
      /\ 2 * ScaleMax - i = (s - i) + (2 * ScaleMax - s) /\ 2 * ScaleMax - j = (s - j) + (2 * ScaleMax - s)
  BY <1>0, <1>3
<1>5. PICK u \in Nat \ {0} : u = pow10(2 * ScaleMax - s)
  BY <1>4, Tens
<1>6. PICK v \in Nat \ {0} : v = pow10(s - i)
  BY <1>4, Tens
<1>7. PICK w \in Nat \ {0} : w = pow10(s - j)
  BY <1>4, Tens
<1>8. Aligned(x, y) = <<c * v, d * w, s>>
  BY <1>1, <1>2, <1>3, <1>6, <1>7 DEF Aligned
<1>9. At(x) = c * (v * u)
  <2>1. pow10(2 * ScaleMax - i) = v * u
    BY <1>4, <1>5, <1>6, Tens
  <2>. QED
    BY <1>1, <2>1 DEF At
<1>10. At(y) = d * (w * u)
  <2>1. pow10(2 * ScaleMax - j) = w * u
    BY <1>4, <1>5, <1>7, Tens
  <2>. QED
    BY <1>2, <2>1 DEF At
<1>11. c * v \in Int /\ d * w \in Int
  OBVIOUS
<1>12. c * (v * u) = (c * v) * u /\ d * (w * u) = (d * w) * u
  OBVIOUS
<1>. QED
  BY <1>5, <1>8, <1>9, <1>10, <1>11, <1>12

LEMMA FitMachine == \A n \in Int : fit(n) <=> n \in Machine
BY MachineIs DEF Machine

LEMMA DecAddIs ==
  ASSUME NEW x \in Decs, NEW y \in Decs, NEW sign \in {1, -1}
  PROVE  \/ dec_add(x, y, sign) = Fault("OVERFLOW")
         \/ /\ dec_add(x, y, sign)[1] = "dc" /\ dec_add(x, y, sign)[2] \in Decs
            /\ At(dec_add(x, y, sign)[2]) = At(x) + sign * At(y)
<1>1. PICK p \in Int, q \in Int, s \in 0..ScaleMax, u \in Nat \ {0} :
            /\ Aligned(x, y) = <<p, q, s>> /\ u = pow10(2 * ScaleMax - s)
            /\ At(x) = p * u /\ At(y) = q * u
  BY AlignedIs
<1>2. PICK r \in Int : r = p + sign * q
  OBVIOUS
<1>3. dec_add(x, y, sign) = IF fit(p) /\ fit(q) /\ fit(r) THEN DecV(r, s) ELSE Fault("OVERFLOW")
  BY <1>1, <1>2 DEF dec_add
<1>4. SUFFICES ASSUME fit(p), fit(q), fit(r)
               PROVE  /\ DecV(r, s)[1] = "dc" /\ DecV(r, s)[2] \in Decs
                      /\ At(DecV(r, s)[2]) = At(x) + sign * At(y)
  BY <1>3
<1>5. r \in Machine
  BY <1>4, FitMachine
<1>6. DecV(r, s)[1] = "dc" /\ DecV(r, s)[2] = <<r, s>>
  BY DEF DecV
<1>7. At(<<r, s>>) = r * u
  BY <1>1 DEF At
<1>8. r * u = p * u + sign * (q * u)
  <2>1. CASE sign = 1
    <3>1. (p + q) * u = p * u + q * u /\ 1 * q = q /\ 1 * (q * u) = q * u
      OBVIOUS
    <3>. QED
      BY <1>2, <2>1, <3>1
  <2>2. CASE sign = -1
    <3>1. (p + (-1) * q) * u = p * u + (-1) * (q * u)
      OBVIOUS
    <3>. QED
      BY <1>2, <2>2, <3>1
  <2>. QED
    BY <2>1, <2>2
<1>. QED
  BY <1>1, <1>5, <1>6, <1>7, <1>8 DEF Decs

LEMMA DecMulIs ==
  ASSUME NEW x \in Decs, NEW y \in Decs
  PROVE  \/ dec_mul(x, y) = Fault("OVERFLOW")
         \/ /\ dec_mul(x, y)[1] = "dc" /\ dec_mul(x, y)[2] \in Decs
            /\ At(dec_mul(x, y)[2]) * pow10(2 * ScaleMax) = At(x) * At(y)
<1>0. ScaleMax \in Nat
  BY ScalesAre
<1>1. PICK c \in Int, i \in 0..ScaleMax : c = x[1] /\ i = x[2]
  BY DecIsPair
<1>2. PICK d \in Int, j \in 0..ScaleMax : d = y[1] /\ j = y[2]
  BY DecIsPair
<1>3. dec_mul(x, y) = IF i + j <= ScaleMax /\ fit(c * d) THEN DecV(c * d, i + j) ELSE Fault("OVERFLOW")
  BY <1>1, <1>2 DEF dec_mul
<1>4. SUFFICES ASSUME i + j <= ScaleMax, fit(c * d)
               PROVE  /\ DecV(c * d, i + j)[1] = "dc" /\ DecV(c * d, i + j)[2] \in Decs
                      /\ At(DecV(c * d, i + j)[2]) * pow10(2 * ScaleMax) = At(x) * At(y)
  BY <1>3
<1>5. c * d \in Machine /\ i + j \in 0..ScaleMax
  <2>1. c * d \in Int
    OBVIOUS
  <2>. QED
    BY <1>0, <1>4, <2>1, FitMachine
<1>6. DecV(c * d, i + j)[1] = "dc" /\ DecV(c * d, i + j)[2] = <<c * d, i + j>>
  BY DEF DecV
<1>7. PICK v \in Nat \ {0} : v = pow10(2 * ScaleMax - i)
  BY ScalesAre, Tens
<1>8. PICK w \in Nat \ {0} : w = pow10(2 * ScaleMax - j)
  BY ScalesAre, Tens
<1>9. PICK k \in Nat : k = 2 * ScaleMax - (i + j)
  BY <1>5, ScalesAre
<1>10. PICK t \in Nat \ {0} : t = pow10(k)
  BY Tens
<1>11. PICK z \in Nat \ {0} : z = pow10(2 * ScaleMax)
  BY ScalesAre, Tens
<1>12. t * z = v * w
  <2>1. k + 2 * ScaleMax = (2 * ScaleMax - i) + (2 * ScaleMax - j) /\ 2 * ScaleMax - i \in Nat /\ 2 * ScaleMax - j \in Nat
        /\ 2 * ScaleMax \in Nat
    BY <1>0, <1>9
  <2>2. pow10(k + 2 * ScaleMax) = t * z
    BY <1>10, <1>11, <2>1, Tens
  <2>3. pow10((2 * ScaleMax - i) + (2 * ScaleMax - j)) = v * w
    BY <1>7, <1>8, <2>1, Tens
  <2>. QED
    BY <2>1, <2>2, <2>3
<1>13. At(<<c * d, i + j>>) = (c * d) * t
  BY <1>9, <1>10 DEF At
<1>14. At(x) = c * v /\ At(y) = d * w
  BY <1>1, <1>2, <1>7, <1>8 DEF At
<1>15. ((c * d) * t) * z = (c * v) * (d * w)
  <2>1. ((c * d) * t) * z = (c * d) * (t * z)
    OBVIOUS
  <2>2. (c * v) * (d * w) = (c * d) * (v * w)
    OBVIOUS
  <2>. QED
    BY <1>12, <2>1, <2>2
<1>. QED
  BY <1>5, <1>6, <1>11, <1>13, <1>14, <1>15 DEF Decs

LEMMA DecCmpIs ==
  ASSUME NEW x \in Decs, NEW y \in Decs
  PROVE  dec_cmp(x, y) = Cmp(At(x), At(y)) /\ At(x) \in Int /\ At(y) \in Int
<1>1. PICK p \in Int, q \in Int, s \in 0..ScaleMax, u \in Nat \ {0} :
            /\ Aligned(x, y) = <<p, q, s>> /\ u = pow10(2 * ScaleMax - s)
            /\ At(x) = p * u /\ At(y) = q * u
  BY AlignedIs
<1>2. p * u = u * p /\ q * u = u * q /\ u * p \in Int /\ u * q \in Int
  OBVIOUS
<1>3. (u * p < u * q => p < q) /\ (p < q => u * p + u <= u * q) /\ (u * q < u * p => q < p) /\ (q < p => u * q + u <= u * p)
  BY Less
<1>4. Cmp(p, q) = Cmp(u * p, u * q)
  BY <1>2, <1>3 DEF Cmp
<1>5. dec_cmp(x, y) = Cmp(p, q)
  BY <1>1 DEF dec_cmp
<1>. QED
  BY <1>1, <1>2, <1>4, <1>5

(* The words on decimals.                                                  *)
LEMMA DecWords ==
  ASSUME NEW a, NEW b, a[1] = "dc", b[1] = "dc", a[2] \in Decs, b[2] \in Decs
  PROVE  /\ DecIs(op_add(a, b), At(a[2]) + At(b[2]), 1)
         /\ DecIs(op_sub(a, b), At(a[2]) - At(b[2]), 1)
         /\ DecIs(op_mul(a, b), At(a[2]) * At(b[2]), pow10(2 * ScaleMax))
         /\ \A r \in {op_add(a, b), op_sub(a, b), op_mul(a, b)} :
               r[1] = "fault" \/ (r[1] = "dc" /\ r[2] \in Decs)
<1>1. pop_arith(a, b) /\ ~is_num(a)
  BY DEF pop_arith, is_exact, is_num
<1>2. op_add(a, b) = dec_add(a[2], b[2], 1) /\ op_sub(a, b) = dec_add(a[2], b[2], -1) /\ op_mul(a, b) = dec_mul(a[2], b[2])
  BY <1>1 DEF op_add, op_sub, op_mul
<1>3. PICK m \in Int, n \in Int : m = At(a[2]) /\ n = At(b[2])
  BY DecCmpIs
<1>4. Fault("OVERFLOW")[1] = "fault"
  BY DEF Fault
<1>5. DecIs(op_add(a, b), m + n, 1) /\ (op_add(a, b)[1] = "fault" \/ (op_add(a, b)[1] = "dc" /\ op_add(a, b)[2] \in Decs))
  <2>1. 1 \in {1, -1} /\ m + 1 * n = m + n /\ (m + n) * 1 = m + n
    OBVIOUS
  <2>2. \/ op_add(a, b) = Fault("OVERFLOW")
        \/ op_add(a, b)[1] = "dc" /\ op_add(a, b)[2] \in Decs /\ At(op_add(a, b)[2]) = m + 1 * n
    BY <1>2, <1>3, <2>1, DecAddIs
  <2>. QED
    BY <1>4, <2>1, <2>2 DEF DecIs
<1>6. DecIs(op_sub(a, b), m - n, 1) /\ (op_sub(a, b)[1] = "fault" \/ (op_sub(a, b)[1] = "dc" /\ op_sub(a, b)[2] \in Decs))
  <2>1. -1 \in {1, -1} /\ m + (-1) * n = m - n /\ (m - n) * 1 = m - n
    OBVIOUS
  <2>2. \/ op_sub(a, b) = Fault("OVERFLOW")
        \/ op_sub(a, b)[1] = "dc" /\ op_sub(a, b)[2] \in Decs /\ At(op_sub(a, b)[2]) = m + (-1) * n
    BY <1>2, <1>3, <2>1, DecAddIs
  <2>. QED
    BY <1>4, <2>1, <2>2 DEF DecIs
<1>7. DecIs(op_mul(a, b), m * n, pow10(2 * ScaleMax)) /\ (op_mul(a, b)[1] = "fault" \/ (op_mul(a, b)[1] = "dc" /\ op_mul(a, b)[2] \in Decs))
  BY <1>2, <1>3, <1>4, DecMulIs DEF DecIs
<1>. QED
  BY <1>3, <1>5, <1>6, <1>7

-----------------------------------------------------------------------------
(* The grid of the floats, in units.                                       *)
LEMMA OneUnit == One \in Nat \ {0} /\ Over \in Nat \ {0} /\ One < Over /\ Power(2, Prec) \in Nat \ {0}
<1>1. -MinExp \in Nat /\ EMax + 1 - MinExp \in Nat /\ -MinExp < EMax + 1 - MinExp /\ Prec \in Nat
  BY ExponentsAre
<1>2. One \in Nat \ {0} /\ Over \in Nat \ {0} /\ Power(2, Prec) \in Nat \ {0}
  BY <1>1, HalfOf DEF One, Over
<1>3. One < Over
  <2>1. 2 \in Nat /\ 2 > 1
    OBVIOUS
  <2>2. Power(2, -MinExp) < Power(2, EMax + 1 - MinExp)
    BY <1>1, <2>1, PowerGrows
  <2>. QED
    BY <2>2 DEF One, Over
<1>. QED
  BY <1>2, <1>3

(* A significand moved to its exponent stays below the overflow.           *)
LEMMA ScaledBelow ==
  ASSUME NEW m \in 0..Power(2, Prec) - 1, NEW e \in MinExp..EMax - (Prec - 1)
  PROVE  /\ m \in Nat /\ e - MinExp \in Nat /\ Power(2, e - MinExp) \in Nat \ {0}
         /\ m * Power(2, e - MinExp) \in Nat /\ m * Power(2, e - MinExp) < Over
         /\ (m = 0 <=> m * Power(2, e - MinExp) = 0)
<1>1. e - MinExp \in Nat /\ Prec + (e - MinExp) <= EMax + 1 - MinExp /\ Prec \in Nat /\ EMax + 1 - MinExp \in Nat
  BY ExponentsAre
<1>2. PICK k \in Nat : k = e - MinExp
  BY <1>1
<1>3. PICK w \in Nat \ {0} : w = Power(2, k)
  BY HalfOf
<1>4. PICK P \in Nat \ {0} : P = Power(2, Prec)
  BY OneUnit
<1>5. PICK o \in Nat \ {0} : o = Over /\ o = Power(2, EMax + 1 - MinExp)
  BY OneUnit DEF Over
<1>6. P * w <= o
  <2>1. Power(2, Prec + k) = P * w
    <3>1. 2 \in Int
      OBVIOUS
    <3>. QED
      BY <1>1, <1>3, <1>4, <3>1, PowerAdd
  <2>2. Prec + k \in Nat /\ Prec + k <= EMax + 1 - MinExp
    BY <1>1, <1>2
  <2>3. Power(2, Prec + k) <= Power(2, EMax + 1 - MinExp)
    BY <1>1, <2>2, PowerMono
  <2>. QED
    BY <1>5, <2>1, <2>3
<1>7. m \in Nat /\ m < P
  BY <1>4
<1>8. P * w = m * w + (P - m) * w /\ P - m \in Nat \ {0}
  BY <1>7
<1>9. (P - m) * w \in Nat \ {0} /\ m * w \in Nat
  BY <1>7, <1>8
<1>10. m = 0 <=> m * w = 0
  BY <1>7
<1>. QED
  BY <1>2, <1>3, <1>5, <1>6, <1>7, <1>8, <1>9, <1>10

LEMMA MagsAre ==
  /\ Mags \in SUBSET Nat /\ 0 \in Mags /\ 1 \in Mags /\ One \in Mags /\ Over \in Mags
  /\ \A s \in Mags : s <= Over
<1>1. \A s \in Mags : s \in Nat /\ s <= Over
  <2> SUFFICES ASSUME NEW s \in Mags PROVE s \in Nat /\ s <= Over
    OBVIOUS
  <2>1. CASE s = Over
    BY <2>1, OneUnit
  <2>2. CASE s # Over
    <3>1. PICK m \in 0..Power(2, Prec) - 1, e \in MinExp..EMax - (Prec - 1) : s = m * Power(2, e - MinExp)
      BY <2>2 DEF Mags
    <3>. QED
      BY <3>1, ScaledBelow, OneUnit
  <2>. QED
    BY <2>1, <2>2
<1>2. \A m \in 0..Power(2, Prec) - 1, e \in MinExp..EMax - (Prec - 1) : m * Power(2, e - MinExp) \in Mags
  BY DEF Mags
<1>3. 0 \in 0..Power(2, Prec) - 1 /\ 1 \in 0..Power(2, Prec) - 1
  <2>1. PICK P \in Nat \ {0} : P = Power(2, Prec)
    BY OneUnit
  <2>2. Power(2, 1) <= Power(2, Prec) /\ Power(2, 1) = 2
    <3>1. 1 \in Nat /\ Prec \in Nat /\ 1 <= Prec
      BY ExponentsAre
    <3>. QED
      BY <3>1, PowerMono, PowerOne
  <2>. QED
    BY <2>1, <2>2
<1>4. PICK u \in Nat \ {0} : u = One /\ u = Power(2, 0 - MinExp)
  <2>1. 0 - MinExp = -MinExp
    BY ExponentsAre
  <2>. QED
    BY <2>1, OneUnit DEF One
<1>5. 0 * u \in Mags /\ 1 * u \in Mags
  BY <1>2, <1>3, <1>4, ExponentsAre
<1>6. 1 * 1 \in Mags
  <2>1. MinExp - MinExp = 0
    BY ExponentsAre
  <2>2. Power(2, MinExp - MinExp) = 1
    BY <2>1, PowerZero
  <2>. QED
    BY <1>2, <1>3, <2>2, ExponentsAre
<1>7. 0 * u = 0 /\ 1 * u = u /\ 1 * 1 = 1
  OBVIOUS
<1>. QED
  BY <1>1, <1>4, <1>5, <1>6, <1>7 DEF Mags

LEMMA MaxIs ==
  ASSUME NEW n \in Nat, NEW S \in SUBSET (0..n), S # {}
  PROVE  Max(S) \in S /\ \A j \in S : j <= Max(S)
<1>1. PICK m \in S : \A j \in S : j <= m
  BY Greatest
<1>2. \A j \in S : m >= j
  BY <1>1
<1>3. Max(S) \in S /\ \A j \in S : Max(S) >= j
  BY <1>2 DEF Max
<1>. QED
  BY <1>3

LEMMA MinIs ==
  ASSUME NEW S \in SUBSET Nat, S # {}
  PROVE  Min(S) \in S /\ \A j \in S : Min(S) <= j
<1>1. PICK m \in S : \A j \in S : ~(j < m)
  BY LeastElement
<1>2. \A j \in S : m <= j
  BY <1>1
<1>3. Min(S) \in S /\ \A j \in S : Min(S) <= j
  BY <1>2 DEF Min
<1>. QED
  BY <1>3

-----------------------------------------------------------------------------
(* Floats.                                                                 *)
LEMMA UnitsAre ==
  ASSUME NEW f \in Floats
  PROVE  /\ Units(f) \in Int /\ Magnitude(Units(f)) \in Nat /\ Magnitude(Units(f)) < Over
         /\ Magnitude(Units(f)) = f.m * Power(2, f.e - MinExp)
         /\ Units(f) = (IF f.neg THEN -Magnitude(Units(f)) ELSE Magnitude(Units(f)))
         /\ (Units(f) = 0 <=> f.m = 0)
<1>1. f.m \in 0..Power(2, Prec) - 1 /\ f.e \in MinExp..EMax - (Prec - 1) /\ f.neg \in BOOLEAN
  BY FloatIs
<1>2. PICK m \in Nat : m = f.m
  BY <1>1, FloatIs
<1>3. PICK w \in Nat \ {0} : w = Power(2, f.e - MinExp)
  BY <1>1, ScaledBelow
<1>4. m * w \in Nat /\ m * w < Over /\ (m = 0 <=> m * w = 0)
  BY <1>1, <1>2, <1>3, ScaledBelow
<1>5. CASE f.neg
  <2>1. Units(f) = -1 * m * w
    BY <1>2, <1>3, <1>5 DEF Units
  <2>2. PICK v \in Nat : v = m * w
    BY <1>4
  <2>3. -1 * m * w = -v
    BY <2>2
  <2>4. Magnitude(-v) = v
    BY DEF Magnitude
  <2>. QED
    BY <1>2, <1>3, <1>4, <1>5, <2>1, <2>2, <2>3, <2>4
<1>6. CASE ~f.neg
  <2>1. Units(f) = 1 * m * w
    BY <1>2, <1>3, <1>6 DEF Units
  <2>2. PICK v \in Nat : v = m * w
    BY <1>4
  <2>3. 1 * m * w = v
    BY <2>2
  <2>4. Magnitude(v) = v
    BY DEF Magnitude
  <2>. QED
    BY <1>2, <1>3, <1>4, <1>6, <2>1, <2>2, <2>3, <2>4
<1>. QED
  BY <1>5, <1>6

-----------------------------------------------------------------------------
(* The float of a magnitude, cut to its significand.                       *)
Cut(s) == BitLen(s) - Prec

LEMMA CutIs ==
  ASSUME NEW s \in Nat, s < Over, Cut(s) > 0
  PROVE  /\ Cut(s) \in Nat \ {0} /\ s \div Power(2, Cut(s)) \in 0..Power(2, Prec) - 1
         /\ s \div Power(2, Cut(s)) # 0 /\ MinExp + Cut(s) \in MinExp..EMax - (Prec - 1)
<1>1. PICK l \in Nat : l = BitLen(s) /\ s < Power(2, l) /\ \A j \in 0..l - 1 : Power(2, j) <= s
  BY BitLenIs
<1>2. Prec \in Nat \ {0, 1} /\ EMax + 1 - MinExp \in Nat /\ MinExp \in Int /\ EMax \in Int
  BY ExponentsAre
<1>3. PICK k \in Nat \ {0} : k = Cut(s) /\ l = k + Prec /\ k <= l - 1
  BY <1>1, <1>2 DEF Cut
<1>4. PICK w \in Nat \ {0} : w = Power(2, k)
  BY HalfOf
<1>5. PICK P \in Nat \ {0} : P = Power(2, Prec)
  BY OneUnit
<1>6. Power(2, l) = w * P
  <2>1. 2 \in Int
    OBVIOUS
  <2>. QED
    BY <1>2, <1>3, <1>4, <1>5, <2>1, PowerAdd
<1>7. PICK q \in Nat, r \in 0..w - 1 : q = s \div w /\ s = w * q + r
  <2>1. s \div w \in Nat /\ s % w \in 0..w - 1 /\ s = w * (s \div w) + (s % w)
    BY ONLY QuotNat
  <2>. QED
    BY ONLY <2>1, Zenon
<1>8. q < P
  <2>1. s < w * P /\ w * q <= s
    BY <1>1, <1>6, <1>7
  <2>2. w * q \in Nat /\ w * P \in Nat
    OBVIOUS
  <2>3. w * q < w * P
    BY <2>1, <2>2
  <2>. QED
    BY <2>3, Less
<1>9. q # 0
  <2>1. w <= s
    <3>1. k \in 0..l - 1
      BY <1>1, <1>3
    <3>. QED
      BY <1>1, <1>4, <3>1
  <2>2. CASE q = 0
    <3>1. w * q = 0
      BY <2>2
    <3>. QED
      BY <1>7, <2>1, <3>1
  <2>. QED
    BY <2>2
<1>10. l <= EMax + 1 - MinExp
  <2>1. SUFFICES ASSUME l > EMax + 1 - MinExp PROVE FALSE
    BY <1>2
  <2>2. EMax + 1 - MinExp \in 0..l - 1
    BY <1>2, <2>1
  <2>3. Over <= s
    BY <1>1, <2>2 DEF Over
  <2>. QED
    BY <2>3, OneUnit
<1>11. MinExp + k \in MinExp..EMax - (Prec - 1)
  BY <1>2, <1>3, <1>10
<1>. QED
  BY <1>3, <1>4, <1>5, <1>7, <1>8, <1>9, <1>11

LEMMA FromMagIs ==
  ASSUME NEW neg \in BOOLEAN, NEW s \in Nat
  PROVE  /\ FromMag(neg, s) \in Floats /\ FromMag(neg, s).neg = neg
         /\ s >= Over => FromMag(neg, s) = Infinite(neg)
         /\ s < Over => FromMag(neg, s).kind = "finite" /\ (FromMag(neg, s).m = 0 <=> s = 0)
         /\ s < Over /\ Cut(s) <= 0 => FromMag(neg, s) = Finite(neg, s, MinExp)
         /\ s < Over /\ Cut(s) > 0 => FromMag(neg, s) = Finite(neg, s \div Power(2, Cut(s)), MinExp + Cut(s))
<1>0. Over \in Nat \ {0}
  BY OneUnit
<1>1. CASE s >= Over
  <2>1. FromMag(neg, s) = Infinite(neg)
    BY <1>1 DEF FromMag
  <2>. QED
    BY <1>0, <1>1, <2>1, MadeFloat DEF Infinite
<1>2. CASE s < Over /\ Cut(s) <= 0
  <2>1. FromMag(neg, s) = Finite(neg, s, MinExp)
    BY <1>0, <1>2 DEF FromMag, CutBy, Cut
  <2>2. s \in 0..Power(2, Prec) - 1
    <3>1. PICK l \in Nat : l = BitLen(s) /\ s < Power(2, l)
      BY BitLenIs
    <3>2. Prec \in Nat /\ l <= Prec
      BY <1>2, <3>1, ExponentsAre DEF Cut
    <3>3. Power(2, l) \in Nat /\ Power(2, Prec) \in Nat /\ Power(2, l) <= Power(2, Prec)
      BY <3>2, PowerMono
    <3>. QED
      BY <3>1, <3>3
  <2>3. Finite(neg, s, MinExp) \in Floats
    BY <2>2, MadeFloat, ExponentsAre
  <2>4. ~(s >= Over) /\ ~(Cut(s) > 0)
    <3>1. Cut(s) \in Int
      BY BitLenIs, ExponentsAre DEF Cut
    <3>. QED
      BY <1>0, <1>2, <3>1
  <2>. QED
    BY <1>2, <2>1, <2>3, <2>4 DEF Finite
<1>3. CASE s < Over /\ Cut(s) > 0
  <2>1. ~(s >= Over) /\ ~(Cut(s) <= 0)
    <3>1. Cut(s) \in Int
      BY BitLenIs, ExponentsAre DEF Cut
    <3>. QED
      BY <1>0, <1>3, <3>1
  <2>2. FromMag(neg, s) = Finite(neg, s \div Power(2, Cut(s)), MinExp + Cut(s))
    BY <2>1 DEF FromMag, CutBy, Cut
  <2>3. PICK m \in 0..Power(2, Prec) - 1, e \in MinExp..EMax - (Prec - 1) :
            m = s \div Power(2, Cut(s)) /\ e = MinExp + Cut(s) /\ m # 0
    BY <1>3, CutIs
  <2>4. FromMag(neg, s) = Finite(neg, m, e)
    BY <2>2, <2>3
  <2>5. Finite(neg, m, e) \in Floats
    BY MadeFloat
  <2>6. s # 0
    <3>1. SUFFICES ASSUME s = 0 PROVE FALSE
      OBVIOUS
    <3>2. BitLen(s) \in 0..0
      BY <3>1, BitLenIs
    <3>3. ~(Cut(s) > 0)
      BY <3>2, ExponentsAre DEF Cut
    <3>. QED
      BY <1>3, <3>3
  <2>. QED
    BY <1>3, <2>1, <2>2, <2>3, <2>4, <2>5, <2>6 DEF Finite
<1>. QED
  <2>1. Cut(s) \in Int
    BY BitLenIs, ExponentsAre DEF Cut
  <2>. QED
    BY <1>0, <1>1, <1>2, <1>3, <2>1

-----------------------------------------------------------------------------
(* The neighbours of a quotient.                                           *)
LEMMA Around ==
  ASSUME NEW p \in Nat, NEW q \in Nat \ {0}, p < Over * q
  PROVE  LET low == Max({s \in Mags : s * q <= p})
             high == Min({s \in Mags : s > low})
         IN  /\ low \in Mags /\ high \in Mags /\ low \in Nat /\ high \in Nat
             /\ low < Over /\ low < high /\ low * q <= p /\ p < high * q
             /\ \A s \in Mags : (s * q <= p => s <= low) /\ (s > low => high <= s)
<1> DEFINE S == {s \in Mags : s * q <= p}
           low == Max(S)
           T == {s \in Mags : s > low}
           high == Min(T)
<1>1. S \in SUBSET (0..p) /\ S # {}
  <2>1. \A s \in Nat : s <= s * q
    <3>1. \A s \in Nat : s * q = s + s * (q - 1) /\ s * (q - 1) \in Nat
      OBVIOUS
    <3>. QED
      BY <3>1
  <2>2. \A s \in Mags : s * q <= p => s \in 0..p
    <3> SUFFICES ASSUME NEW s \in Mags, s * q <= p PROVE s \in 0..p
      OBVIOUS
    <3>1. s \in Nat /\ s <= s * q /\ s * q \in Nat
      BY <2>1, MagsAre
    <3>. QED
      BY <3>1
  <2>3. 0 \in Mags /\ 0 * q <= p
    BY MagsAre
  <2>. QED
    BY <2>2, <2>3
<1>2. low \in S /\ \A j \in S : j <= low
  <2>. HIDE DEF S
  <2>. QED
    BY <1>1, MaxIs
<1>3. low \in Mags /\ low \in Nat /\ low * q <= p
  BY <1>2, MagsAre
<1>. HIDE DEF low
<1>4. low < Over
  <2>1. low <= Over /\ Over \in Nat
    BY <1>3, MagsAre, OneUnit
  <2>2. low # Over
    <3>1. SUFFICES ASSUME low = Over PROVE FALSE
      OBVIOUS
    <3>2. Over * q \in Nat
      BY <2>1
    <3>. QED
      BY <1>3, <3>1, <3>2
  <2>. QED
    BY <1>3, <2>1, <2>2
<1>5. T \in SUBSET Nat /\ Over \in T
  BY <1>3, <1>4, MagsAre
<1>6. high \in T /\ \A j \in T : high <= j
  <2>. HIDE DEF T
  <2>. QED
    BY <1>5, MinIs
<1>7. high \in Mags /\ high \in Nat /\ high > low
  BY <1>6, MagsAre
<1>. HIDE DEF high
<1>8. p < high * q
  <2>1. SUFFICES ASSUME ~(p < high * q) PROVE FALSE
    OBVIOUS
  <2>2. high * q <= p
    <3>1. high * q \in Nat
      BY <1>7
    <3>. QED
      BY <2>1, <3>1
  <2>3. high <= low
    BY <1>2, <1>7, <2>2
  <2>. QED
    BY <1>3, <1>7, <2>3
<1>9. \A s \in Mags : (s * q <= p => s <= low) /\ (s > low => high <= s)
  BY <1>2, <1>6
<1>. QED
  BY <1>3, <1>4, <1>7, <1>8, <1>9 DEF low, high

(* The nearest float is one of the neighbours.                             *)
LEMMA NearestIs ==
  ASSUME NEW neg \in BOOLEAN, NEW p \in Nat, NEW q \in Nat \ {0}
  PROVE  /\ Nearest(neg, p, q) \in Floats
         /\ p >= Over * q => Nearest(neg, p, q) = Infinite(neg)
         /\ p < Over * q =>
              LET low == Max({s \in Mags : s * q <= p})
                  high == Min({s \in Mags : s > low})
              IN  /\ Nearest(neg, p, q) \in {FromMag(neg, low), FromMag(neg, high)}
                  /\ 2 * p < (low + high) * q => Nearest(neg, p, q) = FromMag(neg, low)
                  /\ 2 * p > (low + high) * q => Nearest(neg, p, q) = FromMag(neg, high)
<1>0. Over * q \in Nat
  BY OneUnit
<1>1. CASE p >= Over * q
  <2>1. Nearest(neg, p, q) = Infinite(neg)
    BY <1>1 DEF Nearest
  <2>. QED
    BY <1>0, <1>1, <2>1, MadeFloat
<1>2. CASE ~(p >= Over * q)
  <2> DEFINE low == Max({s \in Mags : s * q <= p})
             high == Min({s \in Mags : s > low})
             past == 2 * p - (low + high) * q
  <2>1. p < Over * q
    BY <1>0, <1>2
  <2>2. low \in Nat /\ high \in Nat
    BY <2>1, Around
  <2>3. Nearest(neg, p, q) = IF past < 0 \/ (past = 0 /\ FromMag(neg, low).m % 2 = 0)
                             THEN FromMag(neg, low) ELSE FromMag(neg, high)
    BY <1>2 DEF Nearest, Closer
  <2>. HIDE DEF low, high
  <2>4. (low + high) * q \in Nat /\ 2 * p \in Nat
    BY <2>2
  <2>5. (past < 0 <=> 2 * p < (low + high) * q) /\ (past > 0 <=> 2 * p > (low + high) * q)
    BY <2>4
  <2>6. FromMag(neg, low) \in Floats /\ FromMag(neg, high) \in Floats
    BY <2>2, FromMagIs
  <2>. HIDE DEF past
  <2>7. Nearest(neg, p, q) \in {FromMag(neg, low), FromMag(neg, high)}
    BY <2>3
  <2>8. past < 0 => Nearest(neg, p, q) = FromMag(neg, low)
    BY <2>3
  <2>9. past > 0 => Nearest(neg, p, q) = FromMag(neg, high)
    <3>1. past > 0 => ~(past < 0) /\ past # 0
      BY <2>4 DEF past
    <3>. QED
      BY <2>3, <3>1
  <2>10. Nearest(neg, p, q) \in Floats
    BY <2>6, <2>7
  <2>. QED
    BY <1>2, <2>5, <2>7, <2>8, <2>9, <2>10 DEF low, high
<1>. QED
  BY <1>1, <1>2

(* At a point of the grid it is that point.                                *)
LEMMA NearestExact ==
  ASSUME NEW neg \in BOOLEAN, NEW s \in Mags, s < Over, NEW q \in Nat \ {0}, NEW p \in Nat, p = s * q
  PROVE  Nearest(neg, p, q) = FromMag(neg, s)
<1> DEFINE low == Max({t \in Mags : t * q <= p})
           high == Min({t \in Mags : t > low})
<1>0. s \in Nat /\ Over \in Nat
  BY MagsAre, OneUnit
<1>1. p < Over * q
  <2>1. Over * q = s * q + (Over - s) * q /\ Over - s \in Nat \ {0}
    BY <1>0
  <2>2. (Over - s) * q \in Nat \ {0} /\ s * q \in Nat
    BY <1>0, <2>1
  <2>. QED
    BY <2>1, <2>2
<1>2. /\ low \in Nat /\ high \in Nat /\ low < high /\ low * q <= p
      /\ \A t \in Mags : t * q <= p => t <= low
  BY <1>1, Around
<1>3. 2 * p < (low + high) * q => Nearest(neg, p, q) = FromMag(neg, low)
  BY <1>1, NearestIs
<1>. HIDE DEF low, high
<1>4. s <= low
  BY <1>0, <1>2
<1>5. low <= s
  <2>1. low * q = q * low /\ s * q = q * s /\ q * low \in Int /\ q * s \in Int
    BY <1>0, <1>2
  <2>2. s < low => q * s < q * low
    <3>1. s < low => q * s + q <= q * low
      BY <1>0, <1>2, Less
    <3>. QED
      BY <1>0, <1>2, <2>1, <3>1
  <2>. QED
    BY <1>0, <1>2, <2>1, <2>2
<1>6. low = s
  BY <1>0, <1>2, <1>4, <1>5
<1>7. 2 * p < (low + high) * q
  <2>1. (low + high) * q = 2 * (low * q) + (high - low) * q /\ high - low \in Nat \ {0}
    BY <1>2
  <2>2. (high - low) * q \in Nat \ {0} /\ low * q \in Nat
    BY <1>2, <2>1
  <2>. QED
    BY <1>6, <2>1, <2>2
<1>. QED
  BY <1>3, <1>6, <1>7

(* A quotient of a unit or more is not rounded to zero.                    *)
LEMMA NearestAbove ==
  ASSUME NEW neg \in BOOLEAN, NEW p \in Nat, NEW q \in Nat \ {0}, p >= q
  PROVE  Nearest(neg, p, q).kind = "inf" \/ Nearest(neg, p, q).m # 0
<1>0. Over * q \in Nat
  BY OneUnit
<1>1. CASE p >= Over * q
  <2>1. Nearest(neg, p, q) = Infinite(neg)
    BY <1>1, NearestIs
  <2>2. Infinite(neg).kind = "inf"
    BY DEF Infinite
  <2>. QED
    BY <2>1, <2>2
<1>2. CASE p < Over * q
  <2> DEFINE low == Max({t \in Mags : t * q <= p})
             high == Min({t \in Mags : t > low})
  <2>1. /\ low \in Nat /\ high \in Nat /\ low < high
        /\ \A t \in Mags : t * q <= p => t <= low
    BY <1>2, Around
  <2>2. Nearest(neg, p, q) \in {FromMag(neg, low), FromMag(neg, high)}
    BY <1>2, NearestIs
  <2>. HIDE DEF low, high
  <2>3. 1 <= low
    <3>1. 1 * q = q /\ 1 \in Mags
      BY MagsAre
    <3>. QED
      BY <2>1, <3>1
  <2>4. \A t \in {low, high} : FromMag(neg, t).kind = "inf" \/ FromMag(neg, t).m # 0
    <3> SUFFICES ASSUME NEW t \in {low, high} PROVE FromMag(neg, t).kind = "inf" \/ FromMag(neg, t).m # 0
      OBVIOUS
    <3>1. t \in Nat /\ t # 0
      BY <2>1, <2>3
    <3>2. CASE t >= Over
      BY <3>1, <3>2, FromMagIs DEF Infinite
    <3>3. CASE t < Over
      BY <3>1, <3>3, FromMagIs
    <3>. QED
      BY <3>1, <3>2, <3>3, OneUnit
  <2>. QED
    BY <2>2, <2>4
<1>. QED
  BY <1>0, <1>1, <1>2

-----------------------------------------------------------------------------
(* The float operations give floats.                                       *)
LEMMA FNegIs ==
  ASSUME NEW f \in Floats
  PROVE  /\ FNeg(f) \in Floats /\ FNeg(f).kind = f.kind /\ FNeg(f).m = f.m /\ FNeg(f).e = f.e
         /\ (f.kind # "nan" => FNeg(f).neg = ~f.neg)
         /\ [f EXCEPT !.neg = FALSE] \in Floats
<1>1. [f EXCEPT !.neg = ~@] \in Floats /\ [f EXCEPT !.neg = FALSE] \in Floats
  BY DEF Floats
<1>2. CASE f.kind = "nan"
  BY <1>1, <1>2 DEF FNeg, IsNaN
<1>3. CASE f.kind # "nan"
  <2>1. FNeg(f) = [f EXCEPT !.neg = ~@]
    BY <1>3 DEF FNeg, IsNaN
  <2>3. /\ [f EXCEPT !.neg = ~@].kind = f.kind /\ [f EXCEPT !.neg = ~@].m = f.m
        /\ [f EXCEPT !.neg = ~@].e = f.e /\ [f EXCEPT !.neg = ~@].neg = ~f.neg
    BY DEF Floats
  <2>. QED
    BY <1>1, <2>1, <2>3
<1>. QED
  BY <1>2, <1>3

LEMMA MagnitudeIs ==
  ASSUME NEW n \in Int
  PROVE  /\ Magnitude(n) \in Nat /\ (n # 0 => Magnitude(n) \in Nat \ {0} /\ Magnitude(n) >= 1)
         /\ (n < 0 => Magnitude(n) = -n) /\ (n >= 0 => Magnitude(n) = n)
BY DEF Magnitude

LEMMA FAddIs ==
  ASSUME NEW x \in Floats, NEW y \in Floats
  PROVE  FAdd(x, y) \in Floats
<1>1. PICK s \in Int : s = Units(x) + Units(y)
  BY UnitsAre
<1>2. PICK b \in BOOLEAN : b = (x.neg /\ y.neg)
  OBVIOUS
<1>3. PICK c \in BOOLEAN : c = (s < 0)
  <2>1. (s < 0) \in BOOLEAN
    OBVIOUS
  <2>. QED
    BY <2>1, Zenon
<1>4. NaN \in Floats /\ signed_zero(b) \in Floats
  BY MadeFloat
<1>5. Nearest(c, Magnitude(s), 1) \in Floats
  <2>1. 1 \in Nat \ {0} /\ Magnitude(s) \in Nat
    BY MagnitudeIs
  <2>. QED
    BY <2>1, NearestIs
<1>. QED
  BY <1>1, <1>2, <1>3, <1>4, <1>5 DEF FAdd

LEMMA FMulIs ==
  ASSUME NEW x \in Floats, NEW y \in Floats
  PROVE  FMul(x, y) \in Floats
<1>1. PICK s \in Int : s = Units(x) * Units(y)
  BY UnitsAre
<1>2. PICK b \in BOOLEAN : b = (x.neg # y.neg)
  OBVIOUS
<1>3. NaN \in Floats /\ Infinite(b) \in Floats
  BY MadeFloat
<1>4. Nearest(b, Magnitude(s), One) \in Floats
  BY MagnitudeIs, OneUnit, NearestIs
<1>. QED
  BY <1>1, <1>2, <1>3, <1>4 DEF FMul

LEMMA FiniteOnes == \A f \in Floats : (IsNaN(f) <=> f.kind = "nan") /\ (IsInf(f) <=> f.kind = "inf")
                       /\ (IsZero(f) <=> f.kind = "finite" /\ f.m = 0)
                       /\ (~IsNaN(f) /\ ~IsInf(f) => f.kind = "finite")
BY FloatIs DEF IsNaN, IsInf, IsZero

LEMMA FDivIs ==
  ASSUME NEW x \in Floats, NEW y \in Floats, ~IsZero(y)
  PROVE  FDiv(x, y) \in Floats
<1>1. PICK b \in BOOLEAN : b = (x.neg # y.neg)
  OBVIOUS
<1>2. NaN \in Floats /\ Infinite(b) \in Floats /\ signed_zero(b) \in Floats
  BY MadeFloat
<1>3. CASE ~IsNaN(y) /\ ~IsInf(y)
  <2>1. y.m # 0
    BY <1>3, FiniteOnes
  <2>2. PICK q \in Nat \ {0} : q = Magnitude(Units(y))
    BY <2>1, UnitsAre, MagnitudeIs
  <2>3. PICK p \in Nat : p = Magnitude(Units(x)) * One
    BY UnitsAre, OneUnit
  <2>4. Nearest(b, p, q) \in Floats
    BY NearestIs
  <2>. QED
    BY <1>1, <1>2, <2>2, <2>3, <2>4 DEF FDiv
<1>4. CASE IsNaN(y) \/ IsInf(y)
  BY <1>1, <1>2, <1>4 DEF FDiv
<1>. QED
  BY <1>3, <1>4

LEMMA FRemIs ==
  ASSUME NEW x \in Floats, NEW y \in Floats, ~IsZero(y)
  PROVE  FRem(x, y) \in Floats
<1>2. NaN \in Floats
  BY MadeFloat
<1>3. CASE ~IsNaN(y) /\ ~IsInf(y)
  <2>1. y.m # 0
    BY <1>3, FiniteOnes
  <2>2. PICK q \in Nat \ {0} : q = Magnitude(Units(y))
    BY <2>1, UnitsAre, MagnitudeIs
  <2>3. PICK p \in Nat : p = Magnitude(Units(x))
    BY UnitsAre, OneUnit
  <2>4. p % q \in Nat
    OBVIOUS
  <2>5. FromMag(x.neg, p % q) \in Floats
    BY <2>4, FromMagIs, FloatIs
  <2>. QED
    BY <1>2, <1>3, <2>2, <2>3, <2>5 DEF FRem
<1>4. CASE IsNaN(y) \/ IsInf(y)
  BY <1>2, <1>4 DEF FRem
<1>. QED
  BY <1>3, <1>4

LEMMA PyModIs ==
  ASSUME NEW x \in Floats, NEW y \in Floats, ~IsZero(y)
  PROVE  py_mod_f64(x, y) \in Floats
BY FRemIs, FAddIs DEF py_mod_f64

LEMMA IntToFloatIs ==
  ASSUME NEW n \in Int
  PROVE  IntToFloat(n) \in Floats /\ (n # 0 => ~IsZero(IntToFloat(n)))
<1>1. PICK b \in BOOLEAN : b = (n < 0)
  <2>1. (n < 0) \in BOOLEAN
    OBVIOUS
  <2>. QED
    BY <2>1, Zenon
<1>2. PICK m \in Nat : m = Magnitude(n) /\ (n # 0 => m >= 1)
  BY MagnitudeIs
<1>3. PICK u \in Nat \ {0} : u = One
  BY OneUnit
<1>4. m * u \in Nat /\ 1 \in Nat \ {0} /\ (n # 0 => m * u >= 1)
  <2>1. CASE n # 0
    <3>1. m * u = u + (m - 1) * u /\ m - 1 \in Nat
      BY <1>2, <2>1
    <3>2. (m - 1) * u \in Nat
      BY <3>1
    <3>. QED
      BY <3>1, <3>2
  <2>. QED
    BY <2>1
<1>5. IntToFloat(n) = Nearest(b, m * u, 1)
  BY <1>1, <1>2, <1>3 DEF IntToFloat
<1>6. Nearest(b, m * u, 1) \in Floats
  BY <1>4, NearestIs
<1>7. n # 0 => Nearest(b, m * u, 1).kind = "inf" \/ Nearest(b, m * u, 1).m # 0
  BY <1>4, NearestAbove
<1>. QED
  BY <1>5, <1>6, <1>7 DEF IsZero

LEMMA FSqrtIs ==
  ASSUME NEW x \in Floats, ~Below0(x)
  PROVE  FSqrt(x) \in Floats
<1> DEFINE v == Units(x) * One
           S == {s \in Mags : s * s <= v}
           low == Max(S)
           T == {s \in Mags : s > low}
           high == Min(T)
<1>0. FSqrt(x) = IF x.kind # "finite" \/ IsZero(x) THEN x
                 ELSE FromMag(FALSE, IF 4 * v < (low + high) * (low + high) THEN low ELSE high)
  BY DEF FSqrt
<1>1. CASE x.kind # "finite" \/ IsZero(x)
  BY <1>0, <1>1
<1>2. CASE ~(x.kind # "finite" \/ IsZero(x))
  <2>1. ~x.neg
    BY <1>2 DEF Below0, IsZero
  <2>2. PICK g \in Nat : g = Units(x) /\ g < Over
    BY <2>1, UnitsAre
  <2>3. PICK u \in Nat \ {0}, o \in Nat \ {0} : u = One /\ o = Over /\ u < o
    BY OneUnit
  <2>4. v \in Nat /\ v < o * o
    <3>1. v = g * u
      BY <2>2, <2>3
    <3>2. o * o = g * u + ((o - g) * u + o * (o - u)) /\ o - g \in Nat \ {0} /\ o - u \in Nat \ {0}
      BY <2>2, <2>3
    <3>3. (o - g) * u \in Nat \ {0} /\ o * (o - u) \in Nat /\ g * u \in Nat
      BY <3>2
    <3>. QED
      BY <3>1, <3>2, <3>3
  <2>. HIDE DEF v
  <2>5. S \in SUBSET (0..v) /\ S # {}
    <3>1. \A s \in Nat : s <= s * s
      <4> SUFFICES ASSUME NEW s \in Nat PROVE s <= s * s
        OBVIOUS
      <4>1. CASE s = 0
        BY <4>1
      <4>2. CASE s # 0
        <5>1. s * s = s + s * (s - 1) /\ s - 1 \in Nat
          BY <4>2
        <5>2. s * (s - 1) \in Nat
          BY <5>1
        <5>. QED
          BY <5>1, <5>2
      <4>. QED
        BY <4>1, <4>2
    <3>2. \A s \in Mags : s * s <= v => s \in 0..v
      <4> SUFFICES ASSUME NEW s \in Mags, s * s <= v PROVE s \in 0..v
        OBVIOUS
      <4>1. s \in Nat /\ s <= s * s /\ s * s \in Nat
        BY <3>1, MagsAre
      <4>. QED
        BY <2>4, <4>1
    <3>3. 0 \in Mags /\ 0 * 0 <= v
      BY <2>4, MagsAre
    <3>. QED
      BY <3>2, <3>3
  <2>6. low \in S
    <3>. HIDE DEF S
    <3>. QED
      BY <2>4, <2>5, MaxIs
  <2>7. low \in Nat /\ low * low <= v
    BY <2>6, MagsAre
  <2>. HIDE DEF low
  <2>8. low < o
    <3>1. SUFFICES ASSUME o <= low PROVE FALSE
      BY <2>7
    <3>2. low * low = o * o + ((low - o) * low + o * (low - o)) /\ low - o \in Nat
      BY <2>7, <3>1
    <3>3. (low - o) * low \in Nat /\ o * (low - o) \in Nat /\ o * o \in Nat
      BY <2>7, <3>2
    <3>. QED
      BY <2>4, <2>7, <3>2, <3>3
  <2>9. T \in SUBSET Nat /\ Over \in T
    BY <2>3, <2>7, <2>8, MagsAre
  <2>10. high \in Nat
    <3>. HIDE DEF T
    <3>. QED
      BY <2>9, MinIs
  <2>. HIDE DEF high
  <2>11. FromMag(FALSE, low) \in Floats /\ FromMag(FALSE, high) \in Floats
    BY <2>7, <2>10, FromMagIs
  <2>. QED
    BY <1>0, <1>2, <2>11
<1>. QED
  BY <1>1, <1>2

(* Down to a whole float.                                                  *)
LEMMA FloorTyped ==
  ASSUME NEW f \in Floats
  PROVE  Floor(f) \in Floats /\ Ceil(f) \in Floats
<1>1. \A g \in Floats : Floor(g) \in Floats
  <2> SUFFICES ASSUME NEW g \in Floats PROVE Floor(g) \in Floats
    OBVIOUS
  <2>1. PICK u \in Nat \ {0}, n \in Int : u = One /\ n = Units(g)
    BY OneUnit, UnitsAre
  <2>2. PICK q \in Int : q = n \div u
    BY DivMod
  <2>3. Magnitude(q) \in Nat
    BY MagnitudeIs
  <2>4. Magnitude(q) * u \in Nat
    BY <2>3
  <2>. QED
    BY <2>1, <2>2, <2>4, FromMagIs, FloatIs DEF Floor
<1>. QED
  BY <1>1, FNegIs DEF Ceil

LEMMA NumResultIs ==
  ASSUME NEW f \in Floats
  PROVE  num_result(f) \in Values
<1>1. PICK n \in Int : n = Units(f) \div One
  BY OneUnit, UnitsAre, DivMod
<1>2. f64_fits_int(f) = IF IsWhole(f) /\ n >= MinInt /\ n <= MaxInt THEN n ELSE None
  BY <1>1 DEF f64_fits_int
<1>3. CASE f64_fits_int(f) = None
  BY <1>3 DEF num_result, Float, Values
<1>4. CASE f64_fits_int(f) # None
  <2>1. f64_fits_int(f) = n /\ n >= MinInt /\ n <= MaxInt
    BY <1>2, <1>4
  <2>2. n \in Machine
    BY <2>1, MachineIs DEF Machine
  <2>. QED
    BY <1>4, <2>1, <2>2 DEF num_result, Int_, Values
<1>. QED
  BY <1>3, <1>4

-----------------------------------------------------------------------------
(* The float of a quotient and of a big.                                   *)

\* Whatever the divisor, the shifted division gives a float or None.
LEMMA DivScaledIs ==
  ASSUME NEW a \in Bigs, NEW b \in Bigs, NEW s \in Int, NEW neg \in BOOLEAN
  PROVE  DivScaled(a, b, s, neg) \in Maybe
<1>1. (IF s >= 0 THEN shl(a, s) ELSE a) \in Bigs
  BY ShlIs
<1>2. (IF s >= 0 THEN b ELSE shl(b, -s)) \in Bigs
  <2>1. CASE s >= 0
    BY <2>1
  <2>2. CASE ~(s >= 0)
    <3>1. -s \in Nat
      BY <2>2
    <3>. QED
      BY <2>2, <3>1, ShlIs
  <2>. QED
    BY <2>1, <2>2
<1>3. PICK qr \in Bigs \X Bigs :
        qr = divmod_floor(IF s >= 0 THEN shl(a, s) ELSE a, IF s >= 0 THEN b ELSE shl(b, -s))
  BY <1>1, <1>2, DivModFloorIs
<1>4. DivScaled(a, b, s, neg) = f64_from_scaled(qr[1], -s, ~is_zero(qr[2]), neg)
  BY <1>3 DEF DivScaled, OfQuotient
<1>. QED
  BY <1>4, FromScaledIs

\* The nearest float of a quotient is a float, or None above them all
\* (bigint.rs true_div_f64).
LEMMA DivAbsIs ==
  ASSUME NEW a \in Bigs, NEW b \in Bigs, NEW est \in Int, NEW neg \in BOOLEAN
  PROVE  DivAbs(a, b, est, neg) \in Maybe
<1>1. Prec + 3 - est \in Int
  BY ExponentsAre
<1>2. DivScaled(a, b, Prec + 3 - est, neg) \in Maybe
  BY <1>1, DivScaledIs
<1>3. signed_zero(neg) \in Maybe /\ None \in Maybe
  BY MadeFloat DEF Maybe
<1>. QED
  BY <1>2, <1>3 DEF DivAbs

LEMMA TrueDivIs ==
  ASSUME NEW x \in Bigs, NEW y \in Bigs
  PROVE  true_div_f64(x, y) \in Maybe
<1>1. abs(x) \in Bigs /\ abs(y) \in Bigs /\ bit_len(x) \in Nat /\ bit_len(y) \in Nat
  BY AbsIs, BitLenOf
<1>2. bit_len(x) - bit_len(y) \in Int /\ (x.neg # y.neg) \in BOOLEAN
  BY <1>1
<1>. QED
  BY <1>1, <1>2, DivAbsIs DEF true_div_f64

\* A big shifted to l bits more, or by so many fewer.
LEMMA ShiftedLen ==
  ASSUME NEW a \in Nats, ~is_zero(a), NEW s \in Int, bit_len(a) + s >= 1
  PROVE  LET q == divmod_floor(IF s >= 0 THEN shl(a, s) ELSE a,
                               IF s >= 0 THEN one ELSE shl(one, -s))[1]
         IN  q \in Bigs /\ ~is_zero(q) /\ bit_len(q) = bit_len(a) + s
<1> DEFINE top == IF s >= 0 THEN shl(a, s) ELSE a
           bot == IF s >= 0 THEN one ELSE shl(one, -s)
           q == divmod_floor(top, bot)[1]
<1>1. a \in Bigs /\ ~a.neg /\ IntOf(a) = Mag(a.d) /\ IntOf(a) \in Nat
  BY NatIs
<1>2. PICK l \in Nat \ {0}, m \in Nat : /\ l = bit_len(a) /\ m = IntOf(a) /\ m < Power(2, l)
                                        /\ Power(2, l - 1) <= m
  <2>1. a.d # <<>>
    BY DEF is_zero
  <2>2. bit_len(a) \in Nat \ {0} /\ Mag(a.d) < Power(2, bit_len(a)) /\ Power(2, bit_len(a) - 1) <= Mag(a.d)
    BY <1>1, <2>1, BitLenOf
  <2>. QED
    BY <1>1, <2>2
<1>3. l + s \in Nat \ {0} /\ l + s - 1 \in Nat /\ l - 1 \in Nat
  BY <1>2
<1>4. 2 \in Int /\ one \in Bigs /\ IntOf(one) = 1
  BY OneIs
<1>5. /\ top \in Bigs /\ bot \in Bigs /\ IntOf(top) \in Int /\ IntOf(bot) \in Nat \ {0}
      /\ IntOf(top) \div IntOf(bot) \in Nat
      /\ Power(2, l + s - 1) <= IntOf(top) \div IntOf(bot) /\ IntOf(top) \div IntOf(bot) < Power(2, l + s)
  <2>1. CASE s >= 0
    <3>0. s \in Nat
      BY <2>1
    <3>1. top = shl(a, s) /\ bot = one
      BY <2>1
    <3>2. shl(a, s) \in Bigs /\ IntOf(shl(a, s)) = IntOf(a) * Power(2, s)
      BY <1>1, <3>0, ShlIs
    <3>3. PICK w \in Nat \ {0}, h \in Nat \ {0}, p \in Nat \ {0} : w = Power(2, s) /\ h = Power(2, l - 1) /\ p = Power(2, l)
      BY <1>3, <3>0, HalfOf
    <3>4. Power(2, l + s) = p * w /\ Power(2, l + s - 1) = h * w
      <4>1. l + s - 1 = (l - 1) + s
        BY <1>2
      <4>. QED
        BY <1>3, <1>4, <3>0, <3>3, <4>1, PowerAdd
    <3>5. h <= m /\ m + 1 <= p
      BY <1>2, <3>3
    <3>6. h * w <= m * w /\ m * w \in Nat /\ m * w + w <= p * w /\ h * w \in Nat /\ p * w \in Nat
      <4>1. w * h <= w * m /\ w * m + w <= w * p
        <5>1. h \in Int /\ m \in Int /\ p \in Int /\ m < p
          BY <3>5
        <5>. QED
          BY <3>5, <5>1, Less
      <4>2. h * w = w * h /\ m * w = w * m /\ p * w = w * p /\ h * w \in Nat /\ m * w \in Nat /\ p * w \in Nat
        OBVIOUS
      <4>. QED
        BY <4>1, <4>2
    <3>7. PICK v \in Nat : v = m * w
      BY <3>6
    <3>8. v \div 1 = v
      OBVIOUS
    <3>9. v < p * w /\ h * w <= v
      BY <3>6, <3>7
    <3>10. top \in Bigs /\ bot \in Bigs /\ IntOf(top) = v /\ IntOf(bot) = 1
      BY <1>2, <1>4, <3>1, <3>2, <3>3, <3>7
    <3>. QED
      BY <3>4, <3>8, <3>9, <3>10
  <2>2. CASE ~(s >= 0)
    <3>0. PICK t \in Nat : t = -s
      BY <2>2
    <3>1. top = a /\ bot = shl(one, t)
      BY <2>2, <3>0
    <3>2. shl(one, t) \in Bigs /\ IntOf(shl(one, t)) = Power(2, t)
      <4>1. PICK w \in Nat : w = Power(2, t)
        BY HalfOf
      <4>2. shl(one, t) \in Bigs /\ IntOf(shl(one, t)) = IntOf(one) * Power(2, t)
        BY <1>4, ShlIs
      <4>. QED
        BY <1>4, <4>1, <4>2
    <3>3. PICK k \in Nat : k = l + s - 1 /\ k + t = l - 1 /\ k + 1 = l + s /\ k + 1 + t = l
      BY <1>2, <1>3, <3>0
    <3>4. PICK w \in Nat \ {0}, h \in Nat \ {0}, p \in Nat \ {0} : w = Power(2, t) /\ h = Power(2, k) /\ p = Power(2, k + 1)
      <4>1. Power(2, t) \in Nat \ {0} /\ Power(2, k) \in Nat \ {0} /\ Power(2, k + 1) \in Nat \ {0}
        <5>1. k + 1 \in Nat
          OBVIOUS
        <5>. QED
          BY <5>1, HalfOf
      <4>. QED
        BY <4>1
    <3>5. Power(2, l - 1) = h * w /\ Power(2, l) = p * w
      <4>1. k + 1 \in Nat
        OBVIOUS
      <4>2. Power(2, k + t) = h * w /\ Power(2, k + 1 + t) = p * w
        BY <1>4, <3>4, <4>1, PowerAdd
      <4>. QED
        BY <3>3, <4>2
    <3>6. PICK e \in Nat, r \in 0..w - 1 : e = m \div w /\ m = w * e + r
      <4>1. m \div w \in Nat /\ m % w \in 0..w - 1 /\ m = w * (m \div w) + (m % w)
        BY QuotNat
      <4>. QED
        BY <4>1
    <3>7. e < p
      <4>1. w * e < w * p
        <5>1. w * e \in Nat /\ w * p \in Nat /\ w * p = p * w
          OBVIOUS
        <5>. QED
          BY <1>2, <3>5, <3>6, <5>1
      <4>. QED
        BY <4>1, Less
    <3>8. h <= e
      <4>1. SUFFICES ASSUME e < h PROVE FALSE
        OBVIOUS
      <4>2. w * e + w <= w * h
        BY <4>1, Less
      <4>3. w * e \in Nat /\ w * h \in Nat /\ w * h = h * w
        OBVIOUS
      <4>. QED
        BY <1>2, <3>5, <3>6, <4>2, <4>3
    <3>9. e \in Nat /\ Power(2, l + s - 1) <= e /\ e < Power(2, l + s)
      BY <3>3, <3>4, <3>7, <3>8
    <3>10. top \in Bigs /\ bot \in Bigs /\ IntOf(top) = m /\ IntOf(bot) = w
      BY <1>1, <1>2, <3>1, <3>2, <3>4
    <3>. QED
      BY <3>6, <3>9, <3>10
  <2>. QED
    BY <2>1, <2>2
<1>6. PICK e \in Nat :
         e = IntOf(top) \div IntOf(bot) /\ Power(2, l + s - 1) <= e /\ e < Power(2, l + s)
  BY <1>5
<1>. HIDE DEF top, bot
<1>7. q \in Bigs /\ IntOf(q) = e
  <2>1. IntOf(bot) # 0 /\ IntOf(bot) > 0
    BY <1>5
  <2>2. divmod_floor(top, bot) \in Bigs \X Bigs
    BY <1>5, DivModFloorIs
  <2>3. IntOf(q) = IntOf(top) \div IntOf(bot)
    BY <1>5, <2>1, FloorIs
  <2>. QED
    BY <1>6, <2>2, <2>3
<1>. HIDE DEF q
<1>8. e # 0
  <2>1. Power(2, l + s - 1) \in Nat \ {0}
    BY <1>3, HalfOf
  <2>. QED
    BY <1>6, <2>1
<1>9. Mag(q.d) = e /\ ~is_zero(q)
  BY <1>7, <1>8, IntOfIs
<1>10. bit_len(q) = l + s
  BY <1>3, <1>6, <1>7, <1>9, BitLenExact
<1>. QED
  BY <1>2, <1>7, <1>9, <1>10 DEF q, top, bot

\* The float of a big, or None when it is above them all; only zero becomes zero
\* (bigint.rs to_f64).
LEMMA ToF64Is ==
  ASSUME NEW x \in Bigs
  PROVE  to_f64(x) \in Maybe /\ (~is_zero(x) => NonZero(to_f64(x)))
<1>1. one \in Bigs /\ ~one.neg /\ Mag(one.d) = 1
  BY OneIs
<1>2. to_f64(x) \in Maybe
  BY <1>1, TrueDivIs DEF to_f64
<1>3. ASSUME ~is_zero(x) PROVE NonZero(to_f64(x))
  <2>1. bit_len(one) = 1
    <3>1. 1 \in Nat \ {0} /\ Power(2, 1 - 1) = 1 /\ Power(2, 1) = 2
      <4>1. 2 \in Int /\ 1 - 1 = 0
        OBVIOUS
      <4>. QED
        BY <4>1, PowerZero, PowerOne
    <3>. QED
      BY <1>1, <3>1, BitLenExact
  <2>2. abs(one) = one
    BY <1>1, BigIs DEF abs
  <2>3. PICK a \in Nats : a = abs(x) /\ ~is_zero(a) /\ bit_len(a) = bit_len(x)
    <3>1. abs(x) \in Nats /\ abs(x).d = x.d
      BY AbsNat, AbsIs
    <3>. QED
      BY <1>3, <3>1 DEF is_zero, bit_len
  <2>4. PICK l \in Nat \ {0} : l = bit_len(a)
    <3>1. a \in Bigs /\ a.d # <<>>
      BY <2>3, NatIs DEF is_zero
    <3>. QED
      BY <3>1, BitLenOf
  <2>5. PICK neg \in BOOLEAN : neg = (x.neg # one.neg)
    OBVIOUS
  <2>6. to_f64(x) = DivAbs(a, one, l - 1, neg)
    BY <2>1, <2>2, <2>3, <2>4, <2>5 DEF to_f64, true_div_f64
  <2>7. CASE l - 1 > EMax + 3
    BY <2>3, <2>6, <2>7 DEF DivAbs, NonZero
  <2>8. CASE ~(l - 1 > EMax + 3)
    <3>1. PICK s \in Int : s = Prec + 3 - (l - 1) /\ l + s >= 1 /\ ~(l - 1 < MinExp - 26)
      BY <2>4, ExponentsAre
    <3>2. DivAbs(a, one, l - 1, neg) = DivScaled(a, one, s, neg)
      BY <2>3, <2>8, <3>1 DEF DivAbs
    <3> DEFINE qr == divmod_floor(IF s >= 0 THEN shl(a, s) ELSE a, IF s >= 0 THEN one ELSE shl(one, -s))
    <3>3. qr[1] \in Bigs /\ ~is_zero(qr[1]) /\ bit_len(qr[1]) = l + s
      BY <2>3, <2>4, <3>1, ShiftedLen
    <3>4. DivScaled(a, one, s, neg) = f64_from_scaled(qr[1], -s, ~is_zero(qr[2]), neg)
      BY DEF DivScaled, OfQuotient
    <3>. HIDE DEF qr
    <3>5. l + s - 1 + (-s) = l - 1 /\ l - 1 >= EMin /\ -s \in Int
      BY <2>4, <3>1, ExponentsAre
    <3>6. NonZero(f64_from_scaled(qr[1], -s, ~is_zero(qr[2]), neg))
      BY <3>3, <3>5, FromScaledIs
    <3>. QED
      BY <2>6, <3>2, <3>4, <3>6
  <2>. QED
    BY <2>7, <2>8
<1>. QED
  BY <1>2, <1>3

Nums == ({"int"} \X Machine) \cup ({"big"} \X Bigs) \cup ({"float"} \X Floats)

\* A number is an int, a big or a float.
LEMMA NumIs ==
  ASSUME NEW v \in Nums
  PROVE  /\ v = <<v[1], v[2]>>
         /\ \/ v[1] = "int" /\ v[2] \in Machine /\ v[2] \in Int
            \/ v[1] = "big" /\ v[2] \in Bigs
            \/ v[1] = "float" /\ v[2] \in Floats
<1>1. Machine \subseteq Int
  BY MachineIs DEF Machine
<1>2. \A M, B, F : v \in ({"int"} \X M) \cup ({"big"} \X B) \cup ({"float"} \X F) =>
         /\ v = <<v[1], v[2]>>
         /\ (v[1] = "int" /\ v[2] \in M) \/ (v[1] = "big" /\ v[2] \in B) \/ (v[1] = "float" /\ v[2] \in F)
  OBVIOUS
<1>3. /\ v = <<v[1], v[2]>>
      /\ \/ v[1] = "int" /\ v[2] \in Machine
         \/ v[1] = "big" /\ v[2] \in Bigs
         \/ v[1] = "float" /\ v[2] \in Floats
  BY <1>2 DEF Nums
<1>. QED
  BY <1>1, <1>3

\* A number as a float, or a fault; the float is zero only for zero, so that a
\* division that num_is_zero let through has a divisor (lib.rs to_float).
LEMMA ToFloatIs ==
  ASSUME NEW v \in Nums
  PROVE  /\ to_float(v) = Fault("OVERFLOW") \/ to_float(v) \in {"float"} \X Floats
         /\ ~Faulted(to_float(v)) => to_float(v)[2] \in Floats
         /\ ~Faulted(to_float(v)) /\ ~num_is_zero(v) => ~IsZero(to_float(v)[2])
<1>1. CASE v[1] = "int" /\ v[2] \in Machine /\ v[2] \in Int
  <2>1. to_float(v) = Float(IntToFloat(v[2]))
    BY <1>1 DEF to_float
  <2>2. IntToFloat(v[2]) \in Floats /\ (v[2] # 0 => ~IsZero(IntToFloat(v[2])))
    BY <1>1, IntToFloatIs
  <2>3. ~num_is_zero(v) => v[2] # 0
    BY <1>1 DEF num_is_zero, is_num, truthy
  <2>. QED
    BY <2>1, <2>2, <2>3 DEF Float, Faulted
<1>2. CASE v[1] = "big" /\ v[2] \in Bigs
  <2>1. to_float(v) = FloatOr(to_f64(v[2]), "OVERFLOW")
    BY <1>2 DEF to_float
  <2>2. to_f64(v[2]) \in Maybe /\ (~is_zero(v[2]) => NonZero(to_f64(v[2])))
    BY <1>2, ToF64Is
  <2>3. ~num_is_zero(v) => ~is_zero(v[2])
    BY <1>2 DEF num_is_zero, is_num, truthy
  <2>4. CASE to_f64(v[2]) = None
    BY <2>1, <2>4 DEF FloatOr, Fault, Faulted
  <2>5. CASE to_f64(v[2]) # None
    <3>1. to_float(v) = Float(to_f64(v[2])) /\ to_f64(v[2]) \in Floats
      BY <2>1, <2>2, <2>5 DEF FloatOr, Maybe
    <3>2. ~is_zero(v[2]) => ~IsZero(to_f64(v[2]))
      BY <2>2, <2>5, FiniteOnes DEF NonZero
    <3>. QED
      BY <2>3, <3>1, <3>2 DEF Float, Faulted
  <2>. QED
    BY <2>4, <2>5
<1>3. CASE v[1] = "float" /\ v[2] \in Floats
  <2>1. to_float(v) = v /\ v \in {"float"} \X Floats
    BY <1>3, NumIs DEF to_float
  <2>2. ~num_is_zero(v) => v[2].kind # "finite" \/ v[2].m # 0
    BY <1>3 DEF num_is_zero, is_num, truthy
  <2>3. ~num_is_zero(v) => ~IsZero(v[2])
    BY <2>2 DEF IsZero
  <2>. QED
    BY <1>3, <2>1, <2>3 DEF Faulted
<1>. QED
  BY <1>1, <1>2, <1>3, NumIs

-----------------------------------------------------------------------------
(* Whole floats, and rounding to one.                                      *)

\* The units of one, split at a power of two below them.
LEMMA OneSplits ==
  ASSUME NEW k \in Nat, k <= -MinExp
  PROVE  /\ -MinExp - k \in Nat /\ Power(2, k) \in Nat \ {0} /\ Power(2, -MinExp - k) \in Nat \ {0}
         /\ One = Power(2, k) * Power(2, -MinExp - k)
<1>1. -MinExp \in Nat
  BY ExponentsAre
<1>2. PICK j \in Nat : j = -MinExp - k /\ k + j = -MinExp
  BY <1>1
<1>3. 2 \in Int
  OBVIOUS
<1>4. Power(2, k + j) = Power(2, k) * Power(2, j)
  BY <1>3, PowerAdd
<1>5. Power(2, k) \in Nat \ {0} /\ Power(2, j) \in Nat \ {0}
  BY HalfOf
<1>. QED
  BY <1>2, <1>4, <1>5 DEF One

\* A whole number of ones is a whole float.
LEMMA WholeMag ==
  ASSUME NEW neg \in BOOLEAN, NEW n \in Nat, n * One < Over
  PROVE  IsWhole(FromMag(neg, n * One))
<1>1. PICK u \in Nat \ {0} : u = One
  BY OneUnit
<1>2. PICK s \in Nat : s = n * u
  OBVIOUS
<1>3. s = n * One /\ s < Over
  BY <1>1, <1>2
<1>4. CASE Cut(s) <= 0
  <2>1. FromMag(neg, s) = Finite(neg, s, MinExp)
    BY <1>3, <1>4, FromMagIs
  <2>2. s % u = 0
    <3>1. s = u * n + 0 /\ 0 \in 0..u - 1
      BY <1>2
    <3>. QED
      BY <3>1, DivIs
  <2>3. s % Power(2, -MinExp) = 0
    BY <1>1, <2>2 DEF One
  <2>. QED
    BY <1>3, <2>1, <2>3 DEF IsWhole, Finite
<1>5. CASE Cut(s) > 0
  <2>1. PICK k \in Nat \ {0} : k = Cut(s)
    BY <1>3, <1>5, CutIs
  <2>2. FromMag(neg, s) = Finite(neg, s \div Power(2, k), MinExp + k)
    BY <1>3, <1>5, <2>1, FromMagIs
  <2>3. CASE MinExp + k >= 0
    BY <1>3, <2>2, <2>3 DEF IsWhole, Finite
  <2>4. CASE ~(MinExp + k >= 0)
    <3>1. k <= -MinExp /\ -(MinExp + k) = -MinExp - k
      BY <2>4, ExponentsAre
    <3>2. PICK p \in Nat \ {0}, w \in Nat \ {0} :
             p = Power(2, k) /\ w = Power(2, -MinExp - k) /\ u = p * w
      <4>1. k \in Nat
        OBVIOUS
      <4>2. /\ Power(2, k) \in Nat \ {0} /\ Power(2, -MinExp - k) \in Nat \ {0}
            /\ One = Power(2, k) * Power(2, -MinExp - k)
        BY <3>1, <4>1, OneSplits
      <4>. QED
        BY <1>1, <4>2
    <3>3. PICK t \in Nat : t = n * w
      OBVIOUS
    <3>4. s = p * t + 0 /\ 0 \in 0..p - 1
      <4>1. n * (p * w) = p * (n * w)
        OBVIOUS
      <4>2. p * t \in Nat
        OBVIOUS
      <4>. QED
        BY <1>2, <3>2, <3>3, <4>1, <4>2
    <3>5. s \div p = t
      BY <3>4, DivIs
    <3>6. t % w = 0
      <4>1. t = w * n + 0 /\ 0 \in 0..w - 1
        BY <3>3
      <4>. QED
        BY <4>1, DivIs
    <3>7. FromMag(neg, s).kind = "finite" /\ FromMag(neg, s).m = t /\ FromMag(neg, s).e = MinExp + k
      BY <2>2, <3>2, <3>5 DEF Finite
    <3>. QED
      BY <1>3, <3>1, <3>2, <3>6, <3>7 DEF IsWhole
  <2>. QED
    BY <2>3, <2>4
<1>6. Cut(s) \in Int
  BY BitLenIs, ExponentsAre DEF Cut
<1>. QED
  BY <1>4, <1>5, <1>6

\* A whole number that a significand holds is in the range of the floats.
LEMMA WholeBelow ==
  ASSUME NEW n \in 0..Power(2, Prec) - 1
  PROVE  n \in Nat /\ n * One \in Mags /\ n * One \in Nat /\ n * One < Over
<1>1. 0 \in MinExp..EMax - (Prec - 1) /\ 0 - MinExp = -MinExp
  BY ExponentsAre
<1>2. One = Power(2, 0 - MinExp)
  BY <1>1 DEF One
<1>3. n * Power(2, 0 - MinExp) \in Nat /\ n * Power(2, 0 - MinExp) < Over /\ n \in Nat
  BY <1>1, ScaledBelow
<1>4. n * Power(2, 0 - MinExp) \in Mags
  BY <1>1 DEF Mags
<1>. QED
  BY <1>2, <1>3, <1>4

\* Such a number keeps its value.
LEMMA WholeUnits ==
  ASSUME NEW neg \in BOOLEAN, NEW n \in 0..Power(2, Prec) - 1
  PROVE  Units(FromMag(neg, n * One)) = IF neg THEN -(n * One) ELSE n * One
<1>1. PICK u \in Nat \ {0} : u = One
  BY OneUnit
<1>2. PICK s \in Nat : s = n * u /\ s = n * One /\ s < Over /\ n \in Nat
  BY <1>1, WholeBelow
<1>3. PICK f \in Floats : f = FromMag(neg, s) /\ f.neg = neg
  BY FromMagIs
<1>4. f.m * Power(2, f.e - MinExp) = s
  <2>1. CASE Cut(s) <= 0
    <3>1. f = Finite(neg, s, MinExp)
      BY <1>2, <1>3, <2>1, FromMagIs
    <3>2. f.m = s /\ f.e - MinExp = 0
      BY <3>1, ExponentsAre DEF Finite
    <3>3. Power(2, 0) = 1
      <4>1. 2 \in Int
        OBVIOUS
      <4>. QED
        BY <4>1, PowerZero
    <3>. QED
      BY <3>2, <3>3
  <2>2. CASE Cut(s) > 0
    <3>1. PICK k \in Nat \ {0} : k = Cut(s)
      BY <1>2, <2>2, CutIs
    <3>2. f = Finite(neg, s \div Power(2, k), MinExp + k)
      BY <1>2, <1>3, <2>2, <3>1, FromMagIs
    <3>3. k <= -MinExp
      <4>1. PICK l \in Nat : l = BitLen(s) /\ k = l - Prec /\ \A j \in 0..l - 1 : Power(2, j) <= s
        <5>1. BitLen(s) \in 0..s /\ \A j \in 0..BitLen(s) - 1 : Power(2, j) <= s
          BY BitLenIs
        <5>. QED
          BY <3>1, <5>1 DEF Cut
      <4>2. PICK z \in Nat : z = -MinExp
        BY ExponentsAre
      <4>3. SUFFICES ASSUME ~(k <= z) PROVE FALSE
        BY <4>2
      <4>4. Prec \in Nat /\ Prec + z \in 0..l - 1 /\ Prec + z \in Nat
        BY <4>1, <4>2, <4>3, ExponentsAre
      <4>5. Power(2, Prec + z) <= s
        BY <4>1, <4>4
      <4>6. PICK p \in Nat \ {0} : p = Power(2, Prec) /\ n < p
        BY OneUnit, <1>2
      <4>7. Power(2, Prec + z) = p * u
        <5>1. 2 \in Int
          OBVIOUS
        <5>. QED
          BY <1>1, <4>2, <4>4, <4>6, <5>1, PowerAdd DEF One
      <4>8. u * n + u <= u * p
        <5>1. n \in Int /\ p \in Int
          BY <1>2
        <5>. QED
          BY <4>6, <5>1, Less
      <4>9. u * n = s /\ u * p = p * u /\ p * u \in Nat
        BY <1>2
      <4>. QED
        BY <4>5, <4>7, <4>8, <4>9
    <3>4. PICK p \in Nat \ {0}, w \in Nat \ {0} :
             p = Power(2, k) /\ w = Power(2, -MinExp - k) /\ u = p * w
      <4>1. k \in Nat
        OBVIOUS
      <4>2. /\ Power(2, k) \in Nat \ {0} /\ Power(2, -MinExp - k) \in Nat \ {0}
            /\ One = Power(2, k) * Power(2, -MinExp - k)
        BY <3>3, <4>1, OneSplits
      <4>. QED
        BY <1>1, <4>2
    <3>5. PICK t \in Nat : t = n * w
      BY <1>2
    <3>6. s = p * t + 0 /\ 0 \in 0..p - 1 /\ s = t * p
      <4>1. n * (p * w) = p * (n * w)
        BY <1>2
      <4>2. p * t \in Nat /\ p * t = t * p
        OBVIOUS
      <4>. QED
        BY <1>2, <3>4, <3>5, <4>1, <4>2
    <3>7. s \div p = t
      BY <3>6, DivIs
    <3>8. f.m = t /\ f.e - MinExp = k
      BY <3>2, <3>4, <3>7, ExponentsAre DEF Finite
    <3>. QED
      BY <3>4, <3>6, <3>8
  <2>3. Cut(s) \in Int
    BY BitLenIs, ExponentsAre DEF Cut
  <2>. QED
    BY <2>1, <2>2, <2>3
<1>5. Magnitude(Units(f)) = s /\ Units(f) = IF f.neg THEN -Magnitude(Units(f)) ELSE Magnitude(Units(f))
  BY <1>4, UnitsAre
<1>. QED
  BY <1>2, <1>3, <1>5

\* The floor of a finite float is a whole number of ones below the limit, and when
\* the float is not whole already, one that a significand holds with room for one more.
LEMMA FloorMag ==
  ASSUME NEW f \in Floats, f.kind = "finite"
  PROVE  \E n \in Nat : /\ n = Magnitude(Units(f) \div One) /\ n * One < Over
                        /\ Floor(f) = FromMag(f.neg, n * One)
                        /\ ~IsWhole(f) => n <= Power(2, Prec - 1)
<1>1. PICK w \in Nat \ {0} : w = One
  BY OneUnit
<1>2. PICK v \in Int, u \in Nat : v = Units(f) /\ u = Magnitude(v) /\ u < Over /\ (v = u \/ v = -u)
                                  /\ u = f.m * Power(2, f.e - MinExp)
  <2>1. /\ Units(f) \in Int /\ Magnitude(Units(f)) \in Nat /\ Magnitude(Units(f)) < Over
        /\ Magnitude(Units(f)) = f.m * Power(2, f.e - MinExp)
        /\ Units(f) = (IF f.neg THEN -Magnitude(Units(f)) ELSE Magnitude(Units(f)))
    BY UnitsAre
  <2>. QED
    BY <2>1
<1>3. PICK q \in Int, r \in 0..w - 1 : q = v \div w /\ v = w * q + r
  <2>1. v \div w \in Int /\ v % w \in 0..w - 1 /\ v = w * (v \div w) + (v % w)
    BY DivMod
  <2>. QED
    BY <2>1
<1>4. PICK n \in Nat : n = Magnitude(q) /\ (n = q \/ n = -q)
  BY MagnitudeIs
<1>5. Floor(f) = FromMag(f.neg, n * One) /\ n = Magnitude(Units(f) \div One)
  BY <1>1, <1>2, <1>3, <1>4 DEF Floor
<1>6. PICK m \in Nat, e \in Int : m = f.m /\ e = f.e /\ m \in 0..Power(2, Prec) - 1 /\ MinExp <= e
  <2>1. f.m \in Nat /\ f.e \in Int /\ f.m \in 0..Power(2, Prec) - 1 /\ f.e \in MinExp..EMax - (Prec - 1)
    BY FloatIs
  <2>2. MinExp <= f.e
    BY <2>1, ExponentsAre
  <2>. QED
    BY <2>1, <2>2
<1>7. CASE e >= 0
  <2>1. PICK p \in Nat \ {0} : p = Power(2, e) /\ Power(2, e - MinExp) = p * w
    <3>1. e \in Nat /\ -MinExp \in Nat /\ e - MinExp = e + -MinExp /\ 2 \in Int
      BY <1>7, ExponentsAre
    <3>2. Power(2, e) \in Nat \ {0} /\ Power(2, e + -MinExp) = Power(2, e) * Power(2, -MinExp)
      BY <3>1, HalfOf, PowerAdd
    <3>. QED
      BY <1>1, <3>1, <3>2 DEF One
  <2>2. PICK t \in Nat : t = m * p
    OBVIOUS
  <2>3. u = w * t + 0 /\ -u = w * (-t) + 0 /\ 0 \in 0..w - 1
    <3>1. m * (p * w) = w * (m * p) /\ w * (-t) = -(w * t) /\ w * t \in Nat
      OBVIOUS
    <3>. QED
      BY <1>2, <1>6, <2>1, <2>2, <3>1
  <2>4. u \div w = t /\ (-u) \div w = -t
    <3>1. t \in Int /\ -t \in Int /\ u \in Int /\ -u \in Int
      OBVIOUS
    <3>. QED
      BY <2>3, <3>1, DivIs
  <2>5. q = t \/ q = -t
    BY <1>2, <1>3, <2>4
  <2>6. n = t
    BY <1>4, <2>5
  <2>7. n * One = u
    <3>1. w * t \in Nat /\ w * t = t * w
      OBVIOUS
    <3>. QED
      BY <1>1, <2>3, <2>6, <3>1
  <2>8. IsWhole(f)
    BY <1>6, <1>7 DEF IsWhole
  <2>. QED
    BY <1>2, <1>5, <2>7, <2>8
<1>8. CASE ~(e >= 0)
  <2>1. PICK h \in Nat \ {0, 1} : h = Power(2, Prec - 1) /\ Power(2, Prec) = 2 * h
    BY MantsAre
  <2>2. PICK p \in Nat \ {0}, x \in Nat \ {0} : p = Power(2, e - MinExp) /\ w = p * (2 * x)
    <3>1. PICK k \in Nat : k = e - MinExp /\ k <= -MinExp /\ -MinExp - k \in Nat \ {0} /\ -MinExp - k - 1 \in Nat
      BY <1>6, <1>8, ExponentsAre
    <3>2. PICK j \in Nat : j = -MinExp - k - 1 /\ j + 1 = -MinExp - k
      BY <3>1, ExponentsAre
    <3>3. One = Power(2, k) * Power(2, -MinExp - k) /\ Power(2, k) \in Nat \ {0}
      BY <3>1, OneSplits
    <3>4. Power(2, j + 1) = 2 * Power(2, j) /\ Power(2, j) \in Nat \ {0}
      <4>1. 2 \in Int
        OBVIOUS
      <4>. QED
        BY <4>1, PowerNext, HalfOf
    <3>5. One = Power(2, k) * (2 * Power(2, j))
      BY <3>2, <3>3, <3>4
    <3>. QED
      BY <1>1, <3>1, <3>3, <3>4, <3>5
  <2>3. u < h * w
    <3>1. m < 2 * h
      BY <1>6, <2>1
    <3>2. p * m < p * (2 * h)
      <4>1. m \in Int /\ 2 * h \in Int /\ p * m + p <= p * (2 * h)
        <5>1. m \in Int /\ 2 * h \in Int
          OBVIOUS
        <5>. QED
          BY <3>1, <5>1, Less
      <4>2. p * m \in Nat /\ p * (2 * h) \in Nat
        OBVIOUS
      <4>. QED
        BY <4>1, <4>2
    <3>3. p * (2 * h) <= h * (p * (2 * x))
      <4>1. PICK y \in Nat \ {0} : y = p * (2 * h)
        <5>1. p * (2 * h) \in Nat \ {0}
          OBVIOUS
        <5>. QED
          BY <5>1
      <4>2. h * (p * (2 * x)) = y * x
        <5>1. h * (p * (2 * x)) = (p * (2 * h)) * x
          OBVIOUS
        <5>. QED
          BY <4>1, <5>1
      <4>3. y <= y * x
        OBVIOUS
      <4>. QED
        BY <4>1, <4>2, <4>3
    <3>4. u = m * p /\ m * p = p * m /\ p * m \in Nat /\ p * (2 * h) \in Nat /\ h * w \in Nat
      BY <1>2, <1>6, <2>2
    <3>. QED
      BY <2>2, <3>2, <3>3, <3>4
  <2>4. q <= h /\ -h <= q
    <3>1. PICK a \in Int, b \in Nat : a = w * q /\ b = h * w /\ w * h = b /\ w * (-h) = -b
      <4>1. w * q \in Int /\ h * w \in Nat /\ w * h = h * w /\ w * (-h) = -(h * w)
        OBVIOUS
      <4>. QED
        BY <4>1
    <3>2. a <= b /\ -b < a + w
      BY <1>2, <1>3, <2>3, <3>1
    <3>3. ~(h < q)
      <4>1. SUFFICES ASSUME h < q PROVE FALSE
        OBVIOUS
      <4>2. w * h + w <= w * q
        BY <4>1, Less
      <4>. QED
        BY <3>1, <3>2, <4>2
    <3>4. ~(q < -h)
      <4>1. SUFFICES ASSUME q < -h PROVE FALSE
        OBVIOUS
      <4>2. -h \in Int
        OBVIOUS
      <4>3. w * q + w <= w * (-h)
        BY <4>1, <4>2, Less
      <4>. QED
        BY <3>1, <3>2, <4>3
    <3>. QED
      BY <3>3, <3>4
  <2>5. n <= h /\ n \in 0..Power(2, Prec) - 1
    BY <1>4, <2>1, <2>4
  <2>6. n * One < Over
    BY <2>5, WholeBelow
  <2>. QED
    BY <1>5, <2>1, <2>5, <2>6
<1>. QED
  BY <1>7, <1>8

\* Both roundings to the whole float below or above give one (lib.rs b_roundish).
LEMMA FloorWhole ==
  ASSUME NEW f \in Floats, f.kind = "finite"
  PROVE  IsWhole(Floor(f)) /\ IsWhole(Ceil(f)) /\ Floor(f) \in Floats /\ Ceil(f) \in Floats
<1>1. \A g \in Floats : g.kind = "finite" => IsWhole(Floor(g))
  <2> SUFFICES ASSUME NEW g \in Floats, g.kind = "finite" PROVE IsWhole(Floor(g))
    OBVIOUS
  <2>1. PICK n \in Nat : n * One < Over /\ Floor(g) = FromMag(g.neg, n * One)
    BY FloorMag
  <2>2. g.neg \in BOOLEAN
    BY FloatIs
  <2>. QED
    BY <2>1, <2>2, WholeMag
<1>2. FNeg(f) \in Floats /\ FNeg(f).kind = "finite"
  BY FNegIs
<1>3. Floor(FNeg(f)) \in Floats /\ IsWhole(Floor(FNeg(f)))
  BY <1>1, <1>2, FloorTyped
<1>4. IsWhole(FNeg(Floor(FNeg(f))))
  <2>1. PICK g \in Floats : g = Floor(FNeg(f)) /\ IsWhole(g)
    BY <1>3
  <2>2. FNeg(g).kind = g.kind /\ FNeg(g).m = g.m /\ FNeg(g).e = g.e
    BY FNegIs
  <2>. QED
    BY <2>1, <2>2 DEF IsWhole
<1>. QED
  BY <1>1, <1>4, FloorTyped DEF Ceil

\* One more than the floor of a float that is not whole.
LEMMA UpWhole ==
  ASSUME NEW f \in Floats, f.kind = "finite", ~IsWhole(f)
  PROVE  /\ FAdd(Floor(f), IntToFloat(1)) \in Floats
         /\ IsWhole(FAdd(Floor(f), IntToFloat(1)))
<1>0. PICK neg \in BOOLEAN : neg = f.neg
  BY FloatIs
<1>1. PICK h \in Nat \ {0, 1} : h = Power(2, Prec - 1) /\ Power(2, Prec) = 2 * h
  BY MantsAre
<1>2. PICK n \in Nat : Floor(f) = FromMag(neg, n * One) /\ n <= h
  BY <1>0, <1>1, FloorMag
<1>3. n \in 0..Power(2, Prec) - 1 /\ 1 \in 0..Power(2, Prec) - 1 /\ n + 1 \in 0..Power(2, Prec) - 1
  BY <1>1, <1>2
<1>4. PICK w \in Nat \ {0} : w = One /\ 1 * One = w
  BY OneUnit
<1>5. IntToFloat(1) = FromMag(FALSE, w)
  <2>1. w \in Mags /\ w < Over
    BY <1>4, MagsAre, OneUnit
  <2>2. ~(1 < 0) /\ Magnitude(1) = 1 /\ 1 * One = w
    BY <1>4 DEF Magnitude
  <2>3. FALSE \in BOOLEAN /\ 1 \in Nat \ {0} /\ w = w * 1
    OBVIOUS
  <2>4. Nearest(FALSE, w, 1) = FromMag(FALSE, w)
    BY <2>1, <2>3, NearestExact
  <2>5. (1 < 0) = FALSE
    OBVIOUS
  <2>6. IntToFloat(1) = Nearest(1 < 0, w, 1)
    BY <2>2 DEF IntToFloat
  <2>. QED
    BY <2>4, <2>5, <2>6, Zenon
<1>6. PICK x \in Floats, y \in Floats : /\ x = Floor(f) /\ y = IntToFloat(1)
                                        /\ x.kind = "finite" /\ y.kind = "finite"
  <2>1. n * One \in Nat /\ n * One < Over /\ w < Over
    BY <1>3, <1>4, WholeBelow, OneUnit
  <2>2. PICK t \in Nat : t = n * One /\ t < Over
    BY <2>1
  <2>3. FromMag(neg, t) \in Floats /\ FromMag(neg, t).kind = "finite"
    BY <2>2, FromMagIs
  <2>4. FromMag(FALSE, w) \in Floats /\ FromMag(FALSE, w).kind = "finite"
    <3>1. w \in Nat /\ FALSE \in BOOLEAN
      OBVIOUS
    <3>. QED
      BY <2>1, <3>1, FromMagIs
  <2>. QED
    BY <1>2, <1>5, <2>2, <2>3, <2>4
<1>7. Units(x) = (IF neg THEN -(n * w) ELSE n * w) /\ Units(y) = w
  <2>1. Units(FromMag(neg, n * One)) = IF neg THEN -(n * One) ELSE n * One
    BY <1>3, WholeUnits
  <2>2. Units(FromMag(FALSE, 1 * One)) = 1 * One
    BY <1>3, WholeUnits
  <2>. QED
    BY <1>2, <1>4, <1>5, <1>6, <2>1, <2>2
<1>8. PICK z \in Int : Units(x) + Units(y) = z * w /\ -n <= z /\ z <= n + 1
  <2>1. CASE neg
    <3>1. 1 - n \in Int /\ -(n * w) + w = (1 - n) * w
      OBVIOUS
    <3>. QED
      BY <1>7, <2>1, <3>1
  <2>2. CASE ~neg
    <3>1. n + 1 \in Int /\ n * w + w = (n + 1) * w
      OBVIOUS
    <3>. QED
      BY <1>7, <2>2, <3>1
  <2>. QED
    BY <2>1, <2>2
<1>9. PICK c \in Nat : c = Magnitude(z) /\ (z < 0 => c = -z) /\ (z >= 0 => c = z)
  BY MagnitudeIs
<1>10. c \in 0..Power(2, Prec) - 1
  <2>1. c <= n + 1
    BY <1>8, <1>9
  <2>2. n + 1 < 2 * h
    BY <1>1, <1>3
  <2>. QED
    BY <1>1, <2>1, <2>2
<1>11. PICK s \in Int : s = z * w
  OBVIOUS
<1>12. Magnitude(s) = c * w
  <2>1. CASE z < 0
    <3>1. c * w = -(z * w)
      BY <1>9, <2>1
    <3>2. z * w < 0
      BY <2>1
    <3>. QED
      BY <1>11, <3>1, <3>2 DEF Magnitude
  <2>2. CASE z >= 0
    <3>1. c * w = z * w
      BY <1>9, <2>2
    <3>2. ~(z * w < 0)
      BY <2>2
    <3>. QED
      BY <1>11, <3>1, <3>2 DEF Magnitude
  <2>. QED
    BY <2>1, <2>2
<1>13. FAdd(x, y) = IF s = 0 THEN signed_zero(x.neg /\ y.neg) ELSE Nearest(s < 0, Magnitude(s), 1)
  BY <1>6, <1>8, <1>11, FiniteOnes DEF FAdd
<1>14. CASE s = 0
  <2>1. FAdd(x, y) = Finite(x.neg /\ y.neg, 0, MinExp)
    BY <1>13, <1>14 DEF signed_zero
  <2>2. PICK p \in Nat \ {0} : p = Power(2, -MinExp)
    BY <1>4 DEF One
  <2>3. 0 % p = 0
    OBVIOUS
  <2>. QED
    BY <1>6, <2>1, <2>2, <2>3, FAddIs DEF IsWhole, Finite
<1>15. CASE s # 0
  <2>1. PICK b \in BOOLEAN : b = (s < 0) /\ (b <=> s < 0)
    <3>1. (s < 0) \in BOOLEAN
      OBVIOUS
    <3>. QED
      BY <3>1, Zenon
  <2>2. c * One \in Mags /\ c * One \in Nat /\ c * One < Over /\ c * w = c * One
    BY <1>4, <1>10, WholeBelow
  <2>3. Nearest(b, c * One, 1) = FromMag(b, c * One)
    <3>1. PICK t \in Mags : t = c * One /\ t < Over /\ t \in Nat
      BY <2>2
    <3>2. 1 \in Nat \ {0} /\ t = t * 1
      BY <3>1
    <3>3. Nearest(b, t, 1) = FromMag(b, t)
      BY <3>1, <3>2, NearestExact
    <3>. QED
      BY <3>1, <3>3
  <2>4. FAdd(x, y) = FromMag(b, c * One)
    BY <1>12, <1>13, <1>15, <2>1, <2>2, <2>3
  <2>5. IsWhole(FromMag(b, c * One))
    BY <2>2, WholeMag
  <2>. QED
    BY <1>6, <2>4, <2>5, FAddIs
<1>. QED
  BY <1>14, <1>15

-----------------------------------------------------------------------------
(* Results of words, and rounding to an integer.                           *)
Fine(r) == r[1] = "fault" \/ r \in Values

\* What each kind of value is made of.
LEMMA MadeValue ==
  /\ \A n \in Machine : Int_(n) \in Values
  /\ \A x \in Bigs : BigV(x) \in Values
  /\ \A f \in Floats : Float(f) \in Values
  /\ \A c \in Machine, s \in 0..ScaleMax : DecV(c, s) \in Values
  /\ \A m, n \in Machine : CxV(m, n) \in Values
  /\ \A s \in BOOLEAN, b \in WidthBits : Width(s, b) \in Values
  /\ \A neg, point \in BOOLEAN, whole, frac \in Text : Str(neg, whole, point, frac) \in Values
  /\ \A n \in DOMAIN VecKinds : \A l \in Lanes(VecKinds[n]) : VecV(n, l) \in Values
  /\ Nums \subseteq Values
  /\ \A c : Fine(Fault(c))
<1>1. /\ \A n \in Machine : Int_(n) \in {"int"} \X Machine
      /\ \A x \in Bigs : BigV(x) \in {"big"} \X Bigs
      /\ \A f \in Floats : Float(f) \in {"float"} \X Floats
  BY DEF Int_, BigV, Float
<1>2. \A c \in Machine, s \in 0..ScaleMax : DecV(c, s) \in {"dc"} \X Decs
  BY DEF DecV, Decs
<1>3. \A m, n \in Machine : CxV(m, n) \in {"cx"} \X (Machine \X Machine)
  BY DEF CxV
<1>4. \A s \in BOOLEAN, b \in WidthBits : Width(s, b) \in {"width"} \X Widths
  BY DEF Width, Widths
<1>5. \A neg, point \in BOOLEAN, whole, frac \in Text : Str(neg, whole, point, frac) \in {"str"} \X Strs
  BY DEF Str, Strs
<1>6. \A n \in DOMAIN VecKinds : \A l \in Lanes(VecKinds[n]) : VecV(n, l) \in {"vec"} \X Vecs
  <2> SUFFICES ASSUME NEW n \in DOMAIN VecKinds, NEW l \in Lanes(VecKinds[n])
               PROVE  VecV(n, l) \in {"vec"} \X Vecs
    OBVIOUS
  <2>1. [name |-> n, lanes |-> l] \in [name : {n}, lanes : Lanes(VecKinds[n])]
    OBVIOUS
  <2>2. [name |-> n, lanes |-> l] \in Vecs
    BY <2>1 DEF Vecs
  <2>. QED
    BY <2>2 DEF VecV
<1>7. \A c : Fine(Fault(c))
  BY DEF Fine, Fault
<1>. QED
  BY <1>1, <1>2, <1>3, <1>4, <1>5, <1>6, <1>7 DEF Values, Nums

\* A big that fits is an int, else OVERFLOW.
LEMMA FitFine ==
  ASSUME NEW x \in Bigs
  PROVE  /\ fit_int(x) = Fault("OVERFLOW") \/ fit_int(x) \in {"int"} \X Machine
         /\ Fine(fit_int(x))
<1>1. fit_int(x) = IF fit(IntOf(x)) THEN Int_(IntOf(x)) ELSE Fault("OVERFLOW")
  BY FitIntIs, ValueAssumption
<1>2. fit(IntOf(x)) => IntOf(x) \in Machine
  BY IntOfIs, FitMachine
<1>. QED
  BY <1>1, <1>2, MadeValue DEF Int_, Fine

LEMMA RoundHalfTyped ==
  ASSUME NEW f \in Floats, f.kind = "finite"
  PROVE  round_half_even(f) \in Bigs
<1>1. IsWhole(f) => round_half_even(f) = from_f64_exact(f)
  BY DEF round_half_even
<1>2. ~IsWhole(f) => round_half_even(f) \in {from_f64_exact(Floor(f)), from_f64_exact(FAdd(Floor(f), IntToFloat(1)))}
  BY DEF round_half_even
<1>3. IsWhole(Floor(f)) /\ Floor(f) \in Floats
  BY FloorWhole
<1>4. ~IsWhole(f) => /\ FAdd(Floor(f), IntToFloat(1)) \in Floats
                     /\ IsWhole(FAdd(Floor(f), IntToFloat(1)))
  BY UpWhole
<1>5. \A g \in Floats : IsWhole(g) => from_f64_exact(g) \in Bigs
  BY FromExactTyped
<1>. QED
  BY <1>1, <1>2, <1>3, <1>4, <1>5

\* fl, ce and rd of a number (lib.rs b_roundish).
LEMMA RoundishFine ==
  ASSUME NEW op \in {"fl", "ce", "rd"}, NEW a \in Values
  PROVE  Fine(b_roundish(op, a))
<1>1. CASE ~is_num(a)
  <2>1. b_roundish(op, a) = Fault("TYPE_MISMATCH")
    BY <1>1 DEF b_roundish, is_num, is_float
  <2>. QED
    BY <2>1, MadeValue
<1>2. CASE is_num(a) /\ ~is_float(a)
  BY <1>2 DEF b_roundish, Fine
<1>3. CASE is_num(a) /\ is_float(a)
  <2>1. a[2] \in Floats
    BY <1>3 DEF Values, is_float
  <2>2. CASE IsNaN(a[2])
    BY <1>3, <2>2, MadeValue DEF b_roundish, IsNaN, IsInf
  <2>3. CASE IsInf(a[2])
    BY <1>3, <2>3, MadeValue DEF b_roundish, IsNaN, IsInf
  <2>4. CASE a[2].kind = "finite"
    <3>1. /\ from_f64_exact(Floor(a[2])) \in Bigs /\ from_f64_exact(Ceil(a[2])) \in Bigs
          /\ round_half_even(a[2]) \in Bigs
      BY <2>1, <2>4, FloorWhole, FromExactTyped, RoundHalfTyped
    <3>2. b_roundish(op, a) \in {fit_int(from_f64_exact(Floor(a[2]))), fit_int(from_f64_exact(Ceil(a[2]))),
                                 fit_int(round_half_even(a[2]))}
      <4>1. ~IsNaN(a[2]) /\ ~IsInf(a[2])
        BY <2>4 DEF IsNaN, IsInf
      <4>2. b_roundish(op, a) = fit_int(CASE op = "fl" -> from_f64_exact(Floor(a[2]))
                                          [] op = "ce" -> from_f64_exact(Ceil(a[2]))
                                          [] op = "rd" -> round_half_even(a[2]))
        BY <1>3, <2>4, <4>1 DEF b_roundish
      <4>. QED
        BY <4>2
    <3>. QED
      BY <3>1, <3>2, FitFine
  <2>. QED
    BY <2>1, <2>2, <2>3, <2>4, FiniteOnes
<1>. QED
  BY <1>1, <1>2, <1>3

-----------------------------------------------------------------------------
(* Texts.                                                                  *)
NextDigit(d, k, s) == Radix * s + d[k]
DigitAt(u, d, k) == IF k = 0 THEN 0 ELSE NextDigit(d, k, u[k - 1])
NextRead(d, k, s) == add(mul_u32(s, Radix), from_u64(d[k]))
ReadAt(u, d, k) == IF k = 0 THEN zero ELSE NextRead(d, k, u[k - 1])

\* The base texts are written to, and their digits.
LEMMA TextIs ==
  /\ Radix \in Nat /\ Radix >= 2 /\ Radix \in Limb /\ Radix \in Nat \ {0}
  /\ \A d \in Text : /\ Len(d) \in Nat /\ DOMAIN d = 1..Len(d)
                     /\ \A k \in 1..Len(d) : d[k] \in 0..Radix - 1 /\ d[k] \in Nat /\ d[k] < Base * Base
<1>1. Radix \in 2..Base - 1 /\ Base \in Nat /\ Base > 1
  BY WidthAssumption, BaseIs
<1>2. Radix \in Nat /\ Radix >= 2 /\ Radix \in Limb /\ Radix < Base
  BY <1>1 DEF Limb
<1>3. ASSUME NEW d \in Text
      PROVE  /\ Len(d) \in Nat /\ DOMAIN d = 1..Len(d)
             /\ \A k \in 1..Len(d) : d[k] \in 0..Radix - 1 /\ d[k] \in Nat /\ d[k] < Base * Base
  <2>1. d \in Seq(0..Radix - 1)
    BY DEF Text
  <2>2. Len(d) \in Nat /\ DOMAIN d = 1..Len(d) /\ \A k \in 1..Len(d) : d[k] \in 0..Radix - 1
    <3>1. \A S, s : s \in Seq(S) => Len(s) \in Nat /\ DOMAIN s = 1..Len(s) /\ \A k \in 1..Len(s) : s[k] \in S
      OBVIOUS
    <3>. QED
      BY <2>1, <3>1
  <2>3. \A c \in 0..Radix - 1 : c \in Nat /\ c < Base
    BY <1>2, BaseIs
  <2>4. Base <= Base * Base /\ Base * Base \in Nat
    BY BaseIs
  <2>5. PICK w \in Nat : w = Base * Base
    BY <2>4
  <2>6. \A c \in 0..Radix - 1 : c \in Nat /\ c < Base * Base
    BY <2>3, <2>4, <2>5, BaseIs
  <2>. QED
    BY <2>2, <2>6, Zenon
<1>. QED
  BY <1>2, <1>3

\* The number that digits are.
LEMMA DigitsAre ==
  ASSUME NEW d \in Text
  PROVE  \E f : /\ DigitsValue(d) = f[Len(d)] /\ f[0] = 0
                /\ \A k \in 1..Len(d) : f[k] = NextDigit(d, k, f[k - 1])
                /\ \A k \in 0..Len(d) : f[k] \in Nat
<1> DEFINE n == Len(d)
           E == [z \in (1..n) \X Nat |-> NextDigit(d, z[1], z[2])]
           Fits(u) == u = [k \in 0..n |-> DigitAt(u, d, k)]
           chosen == CHOOSE u : Fits(u)
<1>0. n \in Nat /\ 0 \in Nat
  BY TextIs
<1>1. \A k \in 1..n, s \in Nat : NextDigit(d, k, s) \in Nat
  <2> SUFFICES ASSUME NEW k \in 1..Len(d), NEW s \in Nat PROVE NextDigit(d, k, s) \in Nat
    OBVIOUS
  <2>1. PICK c \in Nat, r \in Nat : c = d[k] /\ r = Radix
    BY TextIs
  <2>2. r * s + c \in Nat
    OBVIOUS
  <2>. QED
    BY <2>1, <2>2 DEF NextDigit
<1>. HIDE DEF n
<1>2. E \in [(1..n) \X Nat -> Nat] /\ \A k \in 1..n, s \in Nat : E[<<k, s>>] = NextDigit(d, k, s)
  <2>1. \A z \in (1..n) \X Nat : z[1] \in 1..n /\ z[2] \in Nat
    OBVIOUS
  <2>2. \A k \in 1..n, s \in Nat : <<k, s>> \in (1..n) \X Nat /\ <<k, s>>[1] = k /\ <<k, s>>[2] = s
    OBVIOUS
  <2>3. E \in [(1..n) \X Nat -> Nat]
    BY <1>1, <2>1
  <2>4. \A k \in 1..n, s \in Nat : E[<<k, s>>] = NextDigit(d, k, s)
    BY <2>2
  <2>. QED
    BY <2>3, <2>4
<1>3. \E u : Fits(u)
  <2>. HIDE DEF E
  <2>1. PICK f : Loops(f, Nat, 0, E, n)
    BY <1>0, <1>2, LoopExists
  <2>2. f \in [0..n -> Nat] /\ f[0] = 0 /\ \A k \in 1..n : f[k] = E[<<k, f[k - 1]>>]
    BY <2>1 DEF Loops
  <2>3. \A k \in 1..n : f[k - 1] \in Nat
    <3>1. \A k \in 1..n : k - 1 \in 0..n
      BY <1>0
    <3>. QED
      BY <2>2, <3>1
  <2>4. \A k \in 1..n : f[k] = NextDigit(d, k, f[k - 1])
    BY <1>2, <2>2, <2>3
  <2>5. \A k \in 0..n : f[k] = DigitAt(f, d, k)
    <3> SUFFICES ASSUME NEW k \in 0..n PROVE f[k] = DigitAt(f, d, k)
      OBVIOUS
    <3>1. CASE k = 0
      BY <2>2, <3>1 DEF DigitAt, NextDigit
    <3>2. CASE k # 0
      <4>1. k \in 1..n
        BY <1>0, <3>2
      <4>. QED
        BY <2>4, <3>2, <4>1 DEF DigitAt, NextDigit
    <3>. QED
      BY <3>1, <3>2
  <2>. QED
    BY <2>2, <2>5
<1>4. Fits(chosen)
  BY <1>3
<1>5. DigitsValue(d) = chosen[n]
  BY DEF DigitsValue, DigitAt, NextDigit, n
<1>. HIDE DEF chosen
<1>6. chosen[0] = 0 /\ \A k \in 1..n : chosen[k] = NextDigit(d, k, chosen[k - 1])
  <2>1. 0 \in 0..n /\ \A k \in 1..n : k \in 0..n /\ k # 0
    BY <1>0
  <2>2. \A k \in 0..n : chosen[k] = DigitAt(chosen, d, k)
    BY <1>4
  <2>3. chosen[0] = 0
    BY <2>1, <2>2 DEF DigitAt, NextDigit
  <2>4. ASSUME NEW k \in 1..n PROVE chosen[k] = NextDigit(d, k, chosen[k - 1])
    BY <2>1, <2>2 DEF DigitAt, NextDigit
  <2>. QED
    BY <2>3, <2>4
<1>7. \A k \in 0..n : chosen[k] \in Nat
  <2>1. \A k \in 1..n : chosen[k - 1] \in Nat => chosen[k] \in Nat
    BY <1>1, <1>6
  <2>. QED
    BY <1>0, <1>6, <2>1, LoopTyped
<1>. QED
  BY <1>5, <1>6, <1>7 DEF n

\* The digits of a literal as a big (bigint.rs parse_dec).
LEMMA ReadsAre ==
  ASSUME NEW d \in Text
  PROVE  /\ Read(d)[0] = zero
         /\ \A k \in 1..Len(d) : Read(d)[k] = NextRead(d, k, Read(d)[k - 1])
         /\ \A k \in 0..Len(d) : Read(d)[k] \in Nats
<1> DEFINE n == Len(d)
           E == [z \in (1..n) \X Nats |-> NextRead(d, z[1], z[2])]
           Fits(u) == u = [k \in 0..n |-> ReadAt(u, d, k)]
           chosen == CHOOSE u : Fits(u)
<1>0. n \in Nat /\ zero \in Nats
  BY TextIs, ZeroNat
<1>1. \A k \in 1..n, s \in Nats : NextRead(d, k, s) \in Nats
  <2> SUFFICES ASSUME NEW k \in 1..Len(d), NEW s \in Nats PROVE NextRead(d, k, s) \in Nats
    OBVIOUS
  <2>1. s \in Bigs /\ ~s.neg /\ IntOf(s) \in Nat /\ Radix \in Limb /\ Radix \in Nat
    BY NatIs, TextIs
  <2>2. mul_u32(s, Radix) \in Bigs /\ IntOf(mul_u32(s, Radix)) = IntOf(s) * Radix
    BY <2>1, MulU32Is
  <2>3. d[k] \in Nat /\ d[k] < Base * Base
    BY TextIs
  <2>4. from_u64(d[k]) \in Bigs /\ IntOf(from_u64(d[k])) = d[k]
    BY <2>3, FromU64
  <2>5. NextRead(d, k, s) \in Bigs /\ IntOf(NextRead(d, k, s)) = IntOf(s) * Radix + d[k]
    BY <2>2, <2>4, AddIs DEF NextRead
  <2>6. IntOf(s) * Radix \in Nat
    BY <2>1
  <2>7. IntOf(s) * Radix + d[k] \in Nat
    BY <2>3, <2>6
  <2>. QED
    BY <2>5, <2>7, IsNat
<1>. HIDE DEF n
<1>2. E \in [(1..n) \X Nats -> Nats] /\ \A k \in 1..n, s \in Nats : E[<<k, s>>] = NextRead(d, k, s)
  <2>1. \A z \in (1..n) \X Nats : z[1] \in 1..n /\ z[2] \in Nats
    OBVIOUS
  <2>2. \A k \in 1..n, s \in Nats : <<k, s>> \in (1..n) \X Nats /\ <<k, s>>[1] = k /\ <<k, s>>[2] = s
    OBVIOUS
  <2>3. E \in [(1..n) \X Nats -> Nats]
    BY <1>1, <2>1
  <2>4. \A k \in 1..n, s \in Nats : E[<<k, s>>] = NextRead(d, k, s)
    BY <2>2
  <2>. QED
    BY <2>3, <2>4
<1>3. \E u : Fits(u)
  <2>. HIDE DEF E
  <2>1. PICK f : Loops(f, Nats, zero, E, n)
    BY <1>0, <1>2, LoopExists
  <2>2. f \in [0..n -> Nats] /\ f[0] = zero /\ \A k \in 1..n : f[k] = E[<<k, f[k - 1]>>]
    BY <2>1 DEF Loops
  <2>3. \A k \in 1..n : f[k - 1] \in Nats
    <3>1. \A k \in 1..n : k - 1 \in 0..n
      BY <1>0
    <3>. QED
      BY <2>2, <3>1
  <2>4. \A k \in 1..n : f[k] = NextRead(d, k, f[k - 1])
    BY <1>2, <2>2, <2>3
  <2>5. \A k \in 0..n : f[k] = ReadAt(f, d, k)
    <3> SUFFICES ASSUME NEW k \in 0..n PROVE f[k] = ReadAt(f, d, k)
      OBVIOUS
    <3>1. CASE k = 0
      BY <2>2, <3>1 DEF ReadAt, NextRead
    <3>2. CASE k # 0
      <4>1. k \in 1..n
        BY <1>0, <3>2
      <4>. QED
        BY <2>4, <3>2, <4>1 DEF ReadAt, NextRead
    <3>. QED
      BY <3>1, <3>2
  <2>. QED
    BY <2>2, <2>5
<1>4. Fits(chosen)
  BY <1>3
<1>5. Read(d) = chosen
  BY DEF Read, ReadAt, NextRead, n
<1>. HIDE DEF chosen
<1>6. chosen[0] = zero /\ \A k \in 1..n : chosen[k] = NextRead(d, k, chosen[k - 1])
  <2>1. 0 \in 0..n /\ \A k \in 1..n : k \in 0..n /\ k # 0
    BY <1>0
  <2>2. \A k \in 0..n : chosen[k] = ReadAt(chosen, d, k)
    BY <1>4
  <2>3. chosen[0] = zero
    BY <2>1, <2>2 DEF ReadAt, NextRead
  <2>4. ASSUME NEW k \in 1..n PROVE chosen[k] = NextRead(d, k, chosen[k - 1])
    BY <2>1, <2>2 DEF ReadAt, NextRead
  <2>. QED
    BY <2>3, <2>4
<1>7. \A k \in 0..n : chosen[k] \in Nats
  <2>1. \A k \in 1..n : chosen[k - 1] \in Nats => chosen[k] \in Nats
    BY <1>1, <1>6
  <2>. QED
    BY <1>0, <1>6, <2>1, LoopTyped
<1>. QED
  BY <1>5, <1>6, <1>7 DEF n

-----------------------------------------------------------------------------
(* Division by a limb, and the digits of a number.                         *)
NextRem(a, m, k, s) == (s * Base + a.d[Len(a.d) + 1 - k]) % m
RemAt(u, a, m, k) == IF k = 0 THEN 0 ELSE NextRem(a, m, k, u[k - 1])
NextQuot(s) == divmod_u32(s, Radix)[1]
QuotAt(u, x, k) == IF k = 0 THEN x ELSE NextQuot(u[k - 1])

\* The remainders of a division by a limb, from the top limb down.
LEMMA RemaindersAre ==
  ASSUME NEW a \in Nats, NEW m \in Limb \ {0}
  PROVE  /\ Remainders(a, m)[0] = 0
         /\ \A k \in 1..Len(a.d) : Remainders(a, m)[k] = NextRem(a, m, k, Remainders(a, m)[k - 1])
         /\ \A k \in 0..Len(a.d) : Remainders(a, m)[k] \in (0..m - 1)
<1> DEFINE n == Len(a.d)
           E == [z \in (1..n) \X (0..m - 1) |-> NextRem(a, m, z[1], z[2])]
           Fits(u) == u = [k \in 0..n |-> RemAt(u, a, m, k)]
           chosen == CHOOSE u : Fits(u)
<1>0. n \in Nat /\ 0 \in (0..m - 1)
  <2>1. Len(a.d) \in Nat
    BY NatIs, BigIs
  <2>2. m \in Nat \ {0}
    BY BaseIs DEF Limb
  <2>. QED
    BY <2>1, <2>2
<1>1. \A k \in 1..n, s \in (0..m - 1) : NextRem(a, m, k, s) \in (0..m - 1)
  <2> SUFFICES ASSUME NEW k \in 1..Len(a.d), NEW s \in 0..m - 1 PROVE NextRem(a, m, k, s) \in 0..m - 1
    OBVIOUS
  <2>1. m \in Nat \ {0} /\ s \in Nat
    BY BaseIs DEF Limb
  <2>2. Len(a.d) + 1 - k \in 1..Len(a.d)
    BY <1>0
  <2>3. PICK c \in Nat : c = a.d[Len(a.d) + 1 - k]
    BY <2>2, NatIs, BigIs, LimbsAre
  <2>4. PICK e \in Nat : e = s * Base + c
    <3>1. s * Base \in Nat
      BY <2>1, BaseIs
    <3>. QED
      BY <3>1
  <2>5. e % m \in 0..m - 1
    BY <2>1, QuotNat
  <2>. QED
    BY <2>3, <2>4, <2>5 DEF NextRem
<1>. HIDE DEF n
<1>2. E \in [(1..n) \X (0..m - 1) -> (0..m - 1)] /\ \A k \in 1..n, s \in (0..m - 1) : E[<<k, s>>] = NextRem(a, m, k, s)
  <2>1. \A z \in (1..n) \X (0..m - 1) : z[1] \in 1..n /\ z[2] \in (0..m - 1)
    OBVIOUS
  <2>2. \A k \in 1..n, s \in (0..m - 1) : <<k, s>> \in (1..n) \X (0..m - 1) /\ <<k, s>>[1] = k /\ <<k, s>>[2] = s
    OBVIOUS
  <2>3. E \in [(1..n) \X (0..m - 1) -> (0..m - 1)]
    BY <1>1, <2>1
  <2>4. \A k \in 1..n, s \in (0..m - 1) : E[<<k, s>>] = NextRem(a, m, k, s)
    BY <2>2
  <2>. QED
    BY <2>3, <2>4
<1>3. \E u : Fits(u)
  <2>. HIDE DEF E
  <2>1. PICK f : Loops(f, (0..m - 1), 0, E, n)
    BY <1>0, <1>2, LoopExists
  <2>2. f \in [0..n -> (0..m - 1)] /\ f[0] = 0 /\ \A k \in 1..n : f[k] = E[<<k, f[k - 1]>>]
    BY <2>1 DEF Loops
  <2>3. \A k \in 1..n : f[k - 1] \in (0..m - 1)
    <3>1. \A k \in 1..n : k - 1 \in 0..n
      BY <1>0
    <3>. QED
      BY <2>2, <3>1
  <2>4. \A k \in 1..n : f[k] = NextRem(a, m, k, f[k - 1])
    BY <1>2, <2>2, <2>3
  <2>5. \A k \in 0..n : f[k] = RemAt(f, a, m, k)
    <3> SUFFICES ASSUME NEW k \in 0..n PROVE f[k] = RemAt(f, a, m, k)
      OBVIOUS
    <3>1. CASE k = 0
      BY <2>2, <3>1 DEF RemAt, NextRem
    <3>2. CASE k # 0
      <4>1. k \in 1..n
        BY <1>0, <3>2
      <4>. QED
        BY <2>4, <3>2, <4>1 DEF RemAt, NextRem
    <3>. QED
      BY <3>1, <3>2
  <2>. QED
    BY <2>2, <2>5
<1>4. Fits(chosen)
  BY <1>3
<1>5. Remainders(a, m) = chosen
  BY DEF Remainders, RemAt, NextRem, n
<1>. HIDE DEF chosen
<1>6. chosen[0] = 0 /\ \A k \in 1..n : chosen[k] = NextRem(a, m, k, chosen[k - 1])
  <2>1. 0 \in 0..n /\ \A k \in 1..n : k \in 0..n /\ k # 0
    BY <1>0
  <2>2. \A k \in 0..n : chosen[k] = RemAt(chosen, a, m, k)
    BY <1>4
  <2>3. chosen[0] = 0
    BY <2>1, <2>2 DEF RemAt, NextRem
  <2>4. ASSUME NEW k \in 1..n PROVE chosen[k] = NextRem(a, m, k, chosen[k - 1])
    BY <2>1, <2>2 DEF RemAt, NextRem
  <2>. QED
    BY <2>3, <2>4
<1>7. \A k \in 0..n : chosen[k] \in (0..m - 1)
  <2>1. \A k \in 1..n : chosen[k - 1] \in (0..m - 1) => chosen[k] \in (0..m - 1)
    BY <1>1, <1>6
  <2>. QED
    BY <1>0, <1>6, <2>1, LoopTyped
<1>. QED
  BY <1>5, <1>6, <1>7 DEF n

\* One limb of the quotient, with the remainder above it.
LEMMA QuotLimb ==
  ASSUME NEW m \in Limb \ {0}, NEW s \in 0..m - 1, NEW c \in Limb
  PROVE  /\ (s * Base + c) \div m \in Limb /\ (s * Base + c) % m \in 0..m - 1
         /\ s * Base + c = m * ((s * Base + c) \div m) + ((s * Base + c) % m)
<1>1. PICK b \in Nat : b = Base /\ m \in Nat \ {0} /\ m < b /\ c \in Nat /\ c < b /\ s \in Nat /\ s < m
  BY BaseIs DEF Limb
<1>2. PICK e \in Nat : e = s * b + c
  <2>1. s * b \in Nat
    BY <1>1
  <2>. QED
    BY <1>1, <2>1
<1>3. PICK q \in Nat, r \in 0..m - 1 : q = e \div m /\ r = e % m /\ e = m * q + r
  <2>1. e \div m \in Nat /\ e % m \in 0..m - 1 /\ e = m * (e \div m) + (e % m)
    BY <1>1, QuotNat
  <2>. QED
    BY <2>1
<1>4. e < m * b
  <2>1. b * s + b <= b * m
    <3>1. b \in Nat \ {0} /\ s \in Int /\ m \in Int
      BY <1>1
    <3>. QED
      BY <1>1, <3>1, Less
  <2>2. b * s = s * b /\ b * m = m * b /\ s * b \in Nat /\ m * b \in Nat
    BY <1>1
  <2>. QED
    BY <1>1, <1>2, <2>1, <2>2
<1>5. q < b
  <2>1. m * q <= e /\ m * q \in Nat /\ m * b \in Nat
    BY <1>1, <1>3
  <2>2. m * q < m * b
    BY <1>4, <2>1
  <2>. QED
    BY <1>1, <2>2, Less
<1>6. q \in Limb
  BY <1>1, <1>5 DEF Limb
<1>. QED
  BY <1>1, <1>2, <1>3, <1>6

\* Division by a limb is division (bigint.rs divmod_u32).
LEMMA DivU32Is ==
  ASSUME NEW a \in Nats, NEW m \in Limb \ {0}
  PROVE  /\ divmod_u32(a, m)[1] \in Nats /\ divmod_u32(a, m)[2] \in 0..m - 1
         /\ IntOf(a) = m * IntOf(divmod_u32(a, m)[1]) + divmod_u32(a, m)[2]
<1> DEFINE R == Remainders(a, m)
           q == [i \in DOMAIN a.d |-> (R[Len(a.d) - i] * Base + a.d[i]) \div m]
<1>1. PICK n \in Nat : n = Len(a.d) /\ DOMAIN a.d = 1..n /\ a.d \in Seq(Limb) /\ a.d \in Seq(Int) /\ a \in Bigs
                       /\ \A k \in 1..n : a.d[k] \in Limb /\ a.d[k] \in Nat
  <2>1. a \in Bigs /\ a.d \in Seq(Limb)
    BY NatIs, BigIs
  <2>. QED
    BY <2>1, LimbsAre
<1>2. /\ R[0] = 0 /\ \A k \in 0..n : R[k] \in 0..m - 1
      /\ \A k \in 1..n : R[k] = (R[k - 1] * Base + a.d[n + 1 - k]) % m
  BY <1>1, RemaindersAre DEF NextRem
<1>3. m \in Nat \ {0} /\ Base \in Nat /\ Base > 1
  BY BaseIs DEF Limb
<1>. HIDE DEF R
<1>4. \A i \in 1..n : /\ q[i] = (R[n - i] * Base + a.d[i]) \div m /\ q[i] \in Limb
                      /\ R[n - i] * Base + a.d[i] = m * q[i] + R[n + 1 - i]
  <2> SUFFICES ASSUME NEW i \in 1..n
               PROVE  /\ q[i] = (R[n - i] * Base + a.d[i]) \div m /\ q[i] \in Limb
                      /\ R[n - i] * Base + a.d[i] = m * q[i] + R[n + 1 - i]
    OBVIOUS
  <2>1. q[i] = (R[n - i] * Base + a.d[i]) \div m
    BY <1>1
  <2>2. n - i \in 0..n /\ n + 1 - i \in 1..n /\ n + 1 - i - 1 = n - i /\ n + 1 - (n + 1 - i) = i
    OBVIOUS
  <2>3. R[n - i] \in 0..m - 1 /\ a.d[i] \in Limb
    BY <1>1, <1>2, <2>2
  <2>4. R[n + 1 - i] = (R[n - i] * Base + a.d[i]) % m
    BY <1>2, <2>2
  <2>. QED
    BY <2>1, <2>3, <2>4, QuotLimb
<1>5. q \in Seq(Limb) /\ Len(q) = n
  <2>1. q = [i \in 1..n |-> q[i]]
    BY <1>1
  <2>. HIDE DEF q
  <2>. QED
    BY <1>4, <2>1
<1>6. q \in Seq(Int)
  BY <1>5, LimbsAre
<1>. HIDE DEF q
<1> DEFINE P == {j \in 0..n : Mag(a.d) - Partials(a.d)[n - j] = m * (Mag(q) - Partials(q)[n - j]) + R[j] * Weight(n - j)}
<1>7. /\ \A k \in 0..n : Partials(a.d)[k] \in Int /\ Partials(q)[k] \in Int
      /\ \A k \in 1..n : /\ Partials(a.d)[k] = Partials(a.d)[k - 1] + a.d[k] * Weight(k - 1)
                         /\ Partials(q)[k] = Partials(q)[k - 1] + q[k] * Weight(k - 1)
      /\ Mag(a.d) = Partials(a.d)[n] /\ Mag(q) = Partials(q)[n]
      /\ Mag(a.d) \in Int /\ Mag(q) \in Int /\ Partials(a.d)[0] = 0 /\ Partials(q)[0] = 0
  <2>1. /\ Partials(a.d) \in [0..n -> Int] /\ Partials(a.d)[0] = 0
        /\ \A k \in 1..n : Partials(a.d)[k] = Partials(a.d)[k - 1] + a.d[k] * Weight(k - 1)
    BY <1>1, PartialsAre
  <2>2. /\ Partials(q) \in [0..n -> Int] /\ Partials(q)[0] = 0
        /\ \A k \in 1..n : Partials(q)[k] = Partials(q)[k - 1] + q[k] * Weight(k - 1)
    BY <1>5, <1>6, PartialsAre
  <2>3. Mag(a.d) = Partials(a.d)[n] /\ Mag(q) = Partials(q)[n] /\ Mag(a.d) \in Int /\ Mag(q) \in Int
    BY <1>1, <1>5, <1>6, MagIs
  <2>. QED
    BY <2>1, <2>2, <2>3
<1>8. 0 \in P
  <2>1. n - 0 = n /\ 0 \in 0..n
    OBVIOUS
  <2>2. PICK A \in Int, Q \in Int, w \in Nat : A = Mag(a.d) /\ Q = Mag(q) /\ w = Weight(n)
    BY <1>7, WeightIs
  <2>3. A - A = m * (Q - Q) + 0 * w
    BY <1>3
  <2>. QED
    BY <1>2, <1>7, <2>1, <2>2, <2>3
<1>9. \A k \in 1..n : k - 1 \in P => k \in P
  <2> SUFFICES ASSUME NEW k \in 1..n, k - 1 \in P PROVE k \in P
    OBVIOUS
  <2>1. PICK j \in 1..n : j = n + 1 - k /\ n - (k - 1) = j /\ n - k = j - 1 /\ n - j = k - 1 /\ n + 1 - j = k
    OBVIOUS
  <2>2. PICK w \in Nat, b \in Nat : w = Weight(j - 1) /\ b = Base /\ Weight(j) = b * w
    <3>1. j - 1 \in Nat /\ j - 1 + 1 = j
      OBVIOUS
    <3>2. Weight(j - 1) \in Nat /\ Weight(j - 1 + 1) = Base * Weight(j - 1)
      BY <3>1, WeightIs
    <3>. QED
      BY <1>3, <3>1, <3>2
  <2>3. k - 1 \in 0..n /\ k \in 0..n /\ j - 1 \in 0..n
    OBVIOUS
  <2>4. PICK A \in Int, Q \in Int, x \in Int, y \in Int, c \in Int, e \in Int, r \in Int, s \in Int :
           /\ A = Mag(a.d) /\ Q = Mag(q) /\ x = Partials(a.d)[j - 1] /\ y = Partials(q)[j - 1]
           /\ c = a.d[j] /\ e = q[j] /\ r = R[k - 1] /\ s = R[k]
    <3>1. Mag(a.d) \in Int /\ Mag(q) \in Int /\ Partials(a.d)[j - 1] \in Int /\ Partials(q)[j - 1] \in Int
      BY <1>7, <2>3
    <3>2. a.d[j] \in Int /\ q[j] \in Int
      <4>1. a.d[j] \in Nat
        BY <1>1
      <4>2. PICK l \in Limb : l = q[j]
        BY <1>4
      <4>3. l \in Int
        BY <1>3 DEF Limb
      <4>. QED
        BY <4>1, <4>2, <4>3
    <3>3. R[k - 1] \in Int /\ R[k] \in Int
      BY <1>2, <1>3, <2>3
    <3>. QED
      BY <3>1, <3>2, <3>3
  <2>5. r * b + c = m * e + s
    <3>1. R[n - j] * Base + a.d[j] = m * q[j] + R[n + 1 - j]
      BY <1>4
    <3>. QED
      BY <2>1, <2>2, <2>4, <3>1
  <2>6. Partials(a.d)[j] = x + c * w /\ Partials(q)[j] = y + e * w
    BY <1>7, <2>2, <2>4
  <2>7. A - (x + c * w) = m * (Q - (y + e * w)) + r * (b * w)
    <3>1. Mag(a.d) - Partials(a.d)[n - (k - 1)] = m * (Mag(q) - Partials(q)[n - (k - 1)]) + R[k - 1] * Weight(n - (k - 1))
      OBVIOUS
    <3>. QED
      BY <2>1, <2>2, <2>4, <2>6, <3>1
  <2>8. A - x = m * (Q - y) + s * w
    <3>1. m * (Q - (y + e * w)) = m * (Q - y) - (m * e) * w
      BY <1>3
    <3>2. r * (b * w) = (r * b) * w
      OBVIOUS
    <3>3. r * b = m * e + s - c
      <4>1. PICK f \in Int, g \in Int : f = r * b /\ g = m * e
        <5>1. r * b \in Int /\ m * e \in Int
          BY <1>3
        <5>. QED
          BY <5>1
      <4>2. f + c = g + s
        BY <2>5, <4>1
      <4>3. f = g + s - c
        BY <4>2
      <4>. QED
        BY <4>1, <4>3
    <3>4. (m * e + s - c) * w = (m * e) * w + s * w - c * w
      <4>1. PICK f \in Int : f = m * e
        BY <1>3
      <4>2. (f + s - c) * w = f * w + s * w - c * w
        OBVIOUS
      <4>. QED
        BY <4>1, <4>2
    <3>5. PICK f \in Int, g \in Int, h \in Int, i \in Int : f = m * (Q - y) /\ g = (m * e) * w /\ h = s * w /\ i = c * w
      <4>1. m * (Q - y) \in Int /\ (m * e) * w \in Int /\ s * w \in Int /\ c * w \in Int
        BY <1>3
      <4>. QED
        BY <4>1
    <3>6. A - (x + i) = f - g + (g + h - i)
      BY <2>7, <3>1, <3>2, <3>3, <3>4, <3>5
    <3>7. A - x = f + h
      BY <3>6
    <3>. QED
      BY <3>5, <3>7
  <2>. QED
    BY <2>1, <2>2, <2>3, <2>4, <2>8
<1>10. n \in P
  <2>. HIDE DEF P
  <2>1. n \in 0..n
    OBVIOUS
  <2>2. 0..n \subseteq P
    BY <1>8, <1>9, UpInduction
  <2>. QED
    BY <2>1, <2>2
<1>11. Mag(a.d) = m * Mag(q) + R[n]
  <2>1. Mag(a.d) - Partials(a.d)[n - n] = m * (Mag(q) - Partials(q)[n - n]) + R[n] * Weight(n - n)
    BY <1>10
  <2>2. n - n = 0 /\ Weight(0) = 1 /\ n \in 0..n
    BY WeightIs
  <2>3. PICK A \in Int, Q \in Int, r \in Int : A = Mag(a.d) /\ Q = Mag(q) /\ r = R[n]
    BY <1>2, <1>3, <1>7, <2>2
  <2>4. A - 0 = m * (Q - 0) + r * 1
    BY <1>7, <2>1, <2>2, <2>3
  <2>5. A = m * Q + r
    <3>1. m * Q \in Int /\ Q - 0 = Q
      BY <1>3
    <3>. QED
      BY <2>4, <3>1
  <2>. QED
    BY <2>3, <2>5
<1>12. divmod_u32(a, m) = <<normalize(Big(FALSE, q)), R[n]>>
  BY <1>1 DEF divmod_u32, OfRemainders, q, R
<1>13. normalize(Big(FALSE, q)) \in Bigs /\ IntOf(normalize(Big(FALSE, q))) = Mag(q) /\ ~normalize(Big(FALSE, q)).neg
  <2>1. FALSE \in BOOLEAN
    OBVIOUS
  <2>. QED
    BY <1>5, <2>1, NormalizeIs
<1>14. normalize(Big(FALSE, q)) \in Nats
  <2>1. Mag(q) \in Nat
    BY <1>5, MagBelow
  <2>. QED
    BY <1>13, <2>1, IsNat
<1>15. R[n] \in 0..m - 1 /\ IntOf(a) = Mag(a.d)
  <2>1. n \in 0..n
    OBVIOUS
  <2>. QED
    BY <1>2, <2>1, NatIs
<1>16. PICK y \in Nats, r \in 0..m - 1 : y = normalize(Big(FALSE, q)) /\ r = R[n] /\ IntOf(y) = Mag(q)
  BY <1>13, <1>14, <1>15
<1>17. divmod_u32(a, m) = <<y, r>> /\ IntOf(a) = m * IntOf(y) + r
  BY <1>11, <1>12, <1>15, <1>16
<1>. QED
  BY <1>17


\* The same for a number of either sign, as only its limbs count.
LEMMA DivU32Big ==
  ASSUME NEW a \in Bigs, NEW m \in Limb \ {0}
  PROVE  /\ divmod_u32(a, m)[1] \in Nats /\ divmod_u32(a, m)[2] \in 0..m - 1
         /\ Mag(a.d) = m * IntOf(divmod_u32(a, m)[1]) + divmod_u32(a, m)[2]
<1>1. PICK b \in Nats : b = abs(a) /\ b.d = a.d /\ IntOf(b) = Mag(a.d)
  BY AbsNat, AbsIs
<1>2. divmod_u32(a, m) = divmod_u32(b, m)
  BY <1>1 DEF divmod_u32, OfRemainders, Remainders
<1>3. /\ divmod_u32(b, m)[1] \in Nats /\ divmod_u32(b, m)[2] \in 0..m - 1
      /\ IntOf(b) = m * IntOf(divmod_u32(b, m)[1]) + divmod_u32(b, m)[2]
  BY DivU32Is
<1>. QED
  BY <1>1, <1>2, <1>3

\* The quotients whose remainders are the digits (bigint.rs Display).
LEMMA QuotientsAre ==
  ASSUME NEW x \in Bigs
  PROVE  /\ Quotients(x)[0] = x
         /\ \A k \in 1..bit_len(x) : Quotients(x)[k] = NextQuot(Quotients(x)[k - 1])
         /\ \A k \in 0..bit_len(x) : Quotients(x)[k] \in Bigs
<1> DEFINE n == bit_len(x)
           E == [z \in (1..n) \X Bigs |-> NextQuot(z[2])]
           Fits(u) == u = [k \in 0..n |-> QuotAt(u, x, k)]
           chosen == CHOOSE u : Fits(u)
<1>0. n \in Nat /\ x \in Bigs
  BY BitLenOf
<1>1. \A k \in 1..n, s \in Bigs : NextQuot(s) \in Bigs
  <2> SUFFICES ASSUME NEW s \in Bigs PROVE NextQuot(s) \in Bigs
    OBVIOUS
  <2>1. Radix \in Limb \ {0}
    BY TextIs
  <2>. QED
    BY <2>1, DivU32Big, NatIs DEF NextQuot
<1>. HIDE DEF n
<1>2. E \in [(1..n) \X Bigs -> Bigs] /\ \A k \in 1..n, s \in Bigs : E[<<k, s>>] = NextQuot(s)
  <2>1. \A z \in (1..n) \X Bigs : z[1] \in 1..n /\ z[2] \in Bigs
    OBVIOUS
  <2>2. \A k \in 1..n, s \in Bigs : <<k, s>> \in (1..n) \X Bigs /\ <<k, s>>[1] = k /\ <<k, s>>[2] = s
    OBVIOUS
  <2>3. E \in [(1..n) \X Bigs -> Bigs]
    BY <1>1, <2>1
  <2>4. \A k \in 1..n, s \in Bigs : E[<<k, s>>] = NextQuot(s)
    BY <2>2
  <2>. QED
    BY <2>3, <2>4
<1>3. \E u : Fits(u)
  <2>. HIDE DEF E
  <2>1. PICK f : Loops(f, Bigs, x, E, n)
    BY <1>0, <1>2, LoopExists
  <2>2. f \in [0..n -> Bigs] /\ f[0] = x /\ \A k \in 1..n : f[k] = E[<<k, f[k - 1]>>]
    BY <2>1 DEF Loops
  <2>3. \A k \in 1..n : f[k - 1] \in Bigs
    <3>1. \A k \in 1..n : k - 1 \in 0..n
      BY <1>0
    <3>. QED
      BY <2>2, <3>1
  <2>4. \A k \in 1..n : f[k] = NextQuot(f[k - 1])
    BY <1>2, <2>2, <2>3
  <2>5. \A k \in 0..n : f[k] = QuotAt(f, x, k)
    <3> SUFFICES ASSUME NEW k \in 0..n PROVE f[k] = QuotAt(f, x, k)
      OBVIOUS
    <3>1. CASE k = 0
      BY <2>2, <3>1 DEF QuotAt, NextQuot
    <3>2. CASE k # 0
      <4>1. k \in 1..n
        BY <1>0, <3>2
      <4>. QED
        BY <2>4, <3>2, <4>1 DEF QuotAt, NextQuot
    <3>. QED
      BY <3>1, <3>2
  <2>. QED
    BY <2>2, <2>5
<1>4. Fits(chosen)
  BY <1>3
<1>5. Quotients(x) = chosen
  BY DEF Quotients, QuotAt, NextQuot, n
<1>. HIDE DEF chosen
<1>6. chosen[0] = x /\ \A k \in 1..n : chosen[k] = NextQuot(chosen[k - 1])
  <2>1. 0 \in 0..n /\ \A k \in 1..n : k \in 0..n /\ k # 0
    BY <1>0
  <2>2. \A k \in 0..n : chosen[k] = QuotAt(chosen, x, k)
    BY <1>4
  <2>3. chosen[0] = x
    BY <2>1, <2>2 DEF QuotAt, NextQuot
  <2>4. ASSUME NEW k \in 1..n PROVE chosen[k] = NextQuot(chosen[k - 1])
    BY <2>1, <2>2 DEF QuotAt, NextQuot
  <2>. QED
    BY <2>3, <2>4
<1>7. \A k \in 0..n : chosen[k] \in Bigs
  <2>1. \A k \in 1..n : chosen[k - 1] \in Bigs => chosen[k] \in Bigs
    BY <1>1, <1>6
  <2>. QED
    BY <1>0, <1>6, <2>1, LoopTyped
<1>. QED
  BY <1>5, <1>6, <1>7 DEF n

\* What the quotients keep of the number: at most half each time.
LEMMA QuotientsHalve ==
  ASSUME NEW x \in Bigs
  PROVE  \A k \in 0..bit_len(x) : Power(2, k) * Mag(Quotients(x)[k].d) <= Mag(x.d)
<1> DEFINE n == bit_len(x)
           Q == Quotients(x)
           P == {k \in 0..n : Power(2, k) * Mag(Q[k].d) <= Mag(x.d)}
<1>1. n \in Nat /\ Q[0] = x /\ \A k \in 1..n : Q[k] = NextQuot(Q[k - 1])
  BY BitLenOf, QuotientsAre
<1>2. \A k \in 0..n : Q[k] \in Bigs
  BY QuotientsAre
<1>. HIDE DEF n, Q
<1>3. 0 \in P
  <2>1. Power(2, 0) = 1
    <3>1. 2 \in Int
      OBVIOUS
    <3>. QED
      BY <3>1, PowerZero
  <2>2. PICK m \in Nat : m = Mag(x.d)
    BY BigIs
  <2>3. 1 * m <= m
    OBVIOUS
  <2>. QED
    BY <1>1, <2>1, <2>2, <2>3
<1>4. \A k \in 1..n : k - 1 \in P => k \in P
  <2> SUFFICES ASSUME NEW k \in 1..n, k - 1 \in P PROVE k \in P
    OBVIOUS
  <2>1. k - 1 \in 0..n /\ k \in 0..n /\ k - 1 \in Nat /\ k - 1 + 1 = k /\ 2 \in Int
    BY <1>1
  <2>2. PICK a \in Bigs, b \in Bigs : a = Q[k - 1] /\ b = Q[k] /\ b = divmod_u32(a, Radix)[1]
    BY <1>1, <1>2, <2>1 DEF NextQuot
  <2>3. PICK u \in Nat, v \in Nat, r \in Nat, m \in Nat : u = Mag(a.d) /\ v = Mag(b.d) /\ u = Radix * v + r /\ m = Mag(x.d)
    <3>1. Radix \in Limb \ {0} /\ Radix \in Nat
      BY TextIs
    <3>2. /\ b \in Nats /\ divmod_u32(a, Radix)[2] \in 0..Radix - 1
          /\ Mag(a.d) = Radix * IntOf(b) + divmod_u32(a, Radix)[2]
      BY <2>2, <3>1, DivU32Big
    <3>3. IntOf(b) = Mag(b.d)
      BY <3>2, NatIs
    <3>4. Mag(a.d) \in Nat /\ Mag(b.d) \in Nat /\ Mag(x.d) \in Nat
      BY BigIs
    <3>5. divmod_u32(a, Radix)[2] \in Nat
      BY <3>1, <3>2
    <3>. QED
      BY <3>2, <3>3, <3>4, <3>5
  <2>4. PICK R \in Nat : R = Radix /\ R >= 2
    BY TextIs
  <2>5. 2 * v <= u
    <3>1. 2 * v <= R * v /\ R * v \in Nat
      BY <2>4
    <3>. QED
      BY <2>3, <2>4, <3>1
  <2>6. PICK w \in Nat \ {0} : w = Power(2, k - 1) /\ Power(2, k) = 2 * w
    <3>1. Power(2, k - 1 + 1) = 2 * Power(2, k - 1) /\ Power(2, k - 1) \in Nat \ {0}
      BY <2>1, PowerNext, HalfOf
    <3>. QED
      BY <2>1, <3>1
  <2>7. w * u <= m
    BY <2>2, <2>3, <2>6
  <2>8. w * (2 * v) <= w * u
    BY <2>5, Less
  <2>9. (2 * w) * v = w * (2 * v) /\ w * (2 * v) \in Nat /\ w * u \in Nat
    OBVIOUS
  <2>10. (2 * w) * v <= m
    BY <2>7, <2>8, <2>9
  <2>. QED
    BY <2>1, <2>2, <2>3, <2>6, <2>10
<1>5. 0..n \subseteq P
  <2>. HIDE DEF P
  <2>. QED
    BY <1>1, <1>3, <1>4, UpInduction
<1>. QED
  BY <1>5 DEF n, Q

\* The number of digits is that of the quotients before zero.
LEMMA DigitCountIs ==
  ASSUME NEW x \in Bigs
  PROVE  /\ DigitCount(x) \in 0..bit_len(x) /\ DigitCount(x) \in Nat
         /\ is_zero(Quotients(x)[DigitCount(x)])
         /\ \A k \in 0..DigitCount(x) - 1 : ~is_zero(Quotients(x)[k])
<1>1. PICK n \in Nat : n = bit_len(x)
  BY BitLenOf
<1> DEFINE Z == {k \in 0..n : is_zero(Quotients(x)[k])}
<1>2. n \in Z
  <2>1. n \in 0..n
    OBVIOUS
  <2>2. PICK q \in Bigs : q = Quotients(x)[n]
    BY <1>1, <2>1, QuotientsAre
  <2>3. PICK m \in Nat, v \in Nat, w \in Nat \ {0} : m = Mag(x.d) /\ v = Mag(q.d) /\ w = Power(2, n)
    BY BigIs, HalfOf
  <2>4. w * v <= m /\ m < w
    BY <1>1, <2>1, <2>2, <2>3, QuotientsHalve, BitLenOf
  <2>5. v = 0
    <3>1. SUFFICES ASSUME v # 0 PROVE FALSE
      OBVIOUS
    <3>2. w <= w * v /\ w * v \in Nat
      BY <3>1
    <3>. QED
      BY <2>4, <3>2
  <2>. QED
    BY <2>1, <2>2, <2>3, <2>5, MagZero
<1>3. PICK z \in Z : \A y \in Z : ~(y < z)
  <2>1. Z \in SUBSET Nat /\ Z # {}
    BY <1>2
  <2>. HIDE DEF Z
  <2>. QED
    BY <2>1, LeastElement
<1>4. z \in 0..n /\ is_zero(Quotients(x)[z]) /\ \A k \in 0..z - 1 : ~is_zero(Quotients(x)[k])
  <2>1. z \in 0..n /\ is_zero(Quotients(x)[z])
    OBVIOUS
  <2>2. ASSUME NEW k \in 0..z - 1 PROVE ~is_zero(Quotients(x)[k])
    <3>1. k \in 0..n /\ k < z
      BY <2>1
    <3>2. k \notin Z
      BY <1>3, <3>1
    <3>. QED
      BY <3>1, <3>2
  <2>. QED
    BY <2>1, <2>2
<1>. HIDE DEF Z
<1>5. \E c \in 0..bit_len(x) : is_zero(Quotients(x)[c]) /\ \A k \in 0..c - 1 : ~is_zero(Quotients(x)[k])
  BY <1>1, <1>4
<1>6. /\ DigitCount(x) \in 0..bit_len(x) /\ is_zero(Quotients(x)[DigitCount(x)])
      /\ \A k \in 0..DigitCount(x) - 1 : ~is_zero(Quotients(x)[k])
  BY <1>5 DEF DigitCount
<1>. QED
  BY <1>1, <1>6

\* The digits are digits.
LEMMA DigitsTyped ==
  ASSUME NEW x \in Bigs
  PROVE  Digits(x) \in Text /\ Len(Digits(x)) = DigitCount(x)
<1>1. PICK n \in Nat : n = DigitCount(x) /\ n \in 0..bit_len(x)
  BY DigitCountIs
<1>2. ASSUME NEW i \in 1..n
      PROVE  divmod_u32(Quotients(x)[n - i], Radix)[2] \in 0..Radix - 1
  <2>1. n - i \in 0..bit_len(x)
    BY <1>1, BitLenOf
  <2>2. Quotients(x)[n - i] \in Bigs /\ Radix \in Limb \ {0}
    BY <2>1, QuotientsAre, TextIs
  <2>. QED
    BY <2>2, DivU32Big
<1>3. Digits(x) = [i \in 1..n |-> divmod_u32(Quotients(x)[n - i], Radix)[2]]
  BY <1>1 DEF Digits
<1>4. Digits(x) \in Seq(0..Radix - 1) /\ Len(Digits(x)) = n
  <2>1. \A S, s : s \in [1..n -> S] => s \in Seq(S) /\ Len(s) = n
    OBVIOUS
  <2>2. Digits(x) \in [1..n -> 0..Radix - 1]
    BY <1>2, <1>3
  <2>. QED
    BY <2>1, <2>2
<1>. QED
  BY <1>1, <1>4 DEF Text

\* Texts joined, padded and cut are texts.
LEMMA TextOps ==
  /\ <<>> \in Text /\ <<0>> \in Text
  /\ \A s, t \in Text : s \o t \in Text /\ Len(s \o t) = Len(s) + Len(t)
  /\ \A n \in Int : Zeros(n) \in Text /\ (n >= 0 => Len(Zeros(n)) = n)
  /\ \A s \in Text : \A m, n \in Int : 1 <= m /\ n <= Len(s) => SubSeq(s, m, n) \in Text
<1>1. 0 \in 0..Radix - 1
  BY TextIs
<1>2. <<>> \in Text /\ <<0>> \in Text
  BY <1>1 DEF Text
<1>3. \A s, t \in Text : s \o t \in Text /\ Len(s \o t) = Len(s) + Len(t)
  BY ConcatProperties DEF Text
<1>4. ASSUME NEW n \in Int PROVE Zeros(n) \in Text /\ (n >= 0 => Len(Zeros(n)) = n)
  <2>1. \A S, s : \A m \in Nat : s \in [1..m -> S] => s \in Seq(S) /\ Len(s) = m
    OBVIOUS
  <2>2. CASE n >= 0
    <3>1. Zeros(n) \in [1..n -> 0..Radix - 1] /\ n \in Nat
      BY <1>1, <2>2 DEF Zeros
    <3>. QED
      BY <2>1, <3>1 DEF Text
  <2>3. CASE ~(n >= 0)
    <3>1. 1..n = 1..0
      BY <2>3
    <3>2. Zeros(n) \in [1..0 -> 0..Radix - 1] /\ 0 \in Nat
      BY <1>1, <3>1 DEF Zeros
    <3>3. Zeros(n) \in Text
      BY <2>1, <3>2 DEF Text
    <3>. QED
      BY <2>3, <3>3
  <2>. QED
    BY <2>2, <2>3
<1>5. ASSUME NEW s \in Text, NEW m \in Int, NEW n \in Int, 1 <= m, n <= Len(s) PROVE SubSeq(s, m, n) \in Text
  <2>1. \A i \in m..n : s[i] \in 0..Radix - 1
    <3>1. \A i \in m..n : i \in 1..Len(s)
      BY <1>5, TextIs
    <3>. QED
      BY <3>1, TextIs
  <2>. QED
    BY <2>1, SubSeqProperties DEF Text
<1>. QED
  BY <1>2, <1>3, <1>4, <1>5

-----------------------------------------------------------------------------
(* The words on texts.                                                     *)

\* What the tag of a value says of the rest.
LEMMA ValueIs ==
  ASSUME NEW v \in Values
  PROVE  /\ v = <<v[1], v[2]>>
         /\ v[1] = "int" => v[2] \in Machine
         /\ v[1] = "big" => v[2] \in Bigs
         /\ v[1] = "float" => v[2] \in Floats
         /\ v[1] = "dc" => v[2] \in Decs
         /\ v[1] = "cx" => v[2] \in Machine \X Machine
         /\ v[1] = "width" => v[2] \in Widths
         /\ v[1] = "str" => v[2] \in Strs
         /\ v[1] = "vec" => v[2] \in Vecs
         /\ v[1] \in {"int", "big", "float", "dc", "cx", "width", "str", "vec"}
<1>1. \A A, B, C, D, E, F, G, H :
        v \in ({"int"} \X A) \cup ({"big"} \X B) \cup ({"float"} \X C) \cup ({"dc"} \X D) \cup ({"cx"} \X E)
               \cup ({"width"} \X F) \cup ({"str"} \X G) \cup ({"vec"} \X H) =>
         /\ v = <<v[1], v[2]>>
         /\ v[1] = "int" => v[2] \in A
         /\ v[1] = "big" => v[2] \in B
         /\ v[1] = "float" => v[2] \in C
         /\ v[1] = "dc" => v[2] \in D
         /\ v[1] = "cx" => v[2] \in E
         /\ v[1] = "width" => v[2] \in F
         /\ v[1] = "str" => v[2] \in G
         /\ v[1] = "vec" => v[2] \in H
         /\ v[1] \in {"int", "big", "float", "dc", "cx", "width", "str", "vec"}
  OBVIOUS
<1>. QED
  BY <1>1 DEF Values

\* The numbers among the values.
LEMMA NumValue ==
  ASSUME NEW v \in Values, is_num(v)
  PROVE  v \in Nums
<1>1. v[1] \in {"int", "float", "big"}
  BY DEF is_num
<1>2. v = <<v[1], v[2]>>
  BY ValueIs
<1>3. CASE v[1] = "int"
  <2>1. v[2] \in Machine
    BY <1>3, ValueIs
  <2>. QED
    BY <1>2, <1>3, <2>1 DEF Nums
<1>4. CASE v[1] = "big"
  <2>1. v[2] \in Bigs
    BY <1>4, ValueIs
  <2>. QED
    BY <1>2, <1>4, <2>1 DEF Nums
<1>5. CASE v[1] = "float"
  <2>1. v[2] \in Floats
    BY <1>5, ValueIs
  <2>. QED
    BY <1>2, <1>5, <2>1 DEF Nums
<1>. QED
  BY <1>1, <1>3, <1>4, <1>5

\* The integer of a number, if it has one (value.rs to_bigint).
LEMMA BigOfNum ==
  ASSUME NEW v \in Nums
  PROVE  /\ to_bigint(v) \in Bigs \/ to_bigint(v) = None
         /\ v[1] \in {"int", "big"} => to_bigint(v) \in Bigs /\ ExactInt(v)
<1>1. CASE v[1] = "int" /\ v[2] \in Machine
  <2>1. from_i64(v[2]) \in Bigs
    BY <1>1, FromMachine DEF Machine
  <2>2. to_bigint(v) = from_i64(v[2])
    BY <1>1 DEF to_bigint
  <2>3. ExactInt(v)
    BY <1>1 DEF ExactInt
  <2>. QED
    BY <2>1, <2>2, <2>3
<1>2. CASE v[1] = "big" /\ v[2] \in Bigs
  <2>1. to_bigint(v) = v[2]
    BY <1>2 DEF to_bigint
  <2>2. ExactInt(v)
    BY <1>2 DEF ExactInt
  <2>. QED
    BY <1>2, <2>1, <2>2
<1>3. CASE v[1] = "float" /\ v[2] \in Floats
  <2>1. to_bigint(v) = from_f64_exact(v[2])
    BY <1>3 DEF to_bigint
  <2>2. from_f64_exact(v[2]) = None \/ from_f64_exact(v[2]) \in Bigs
    BY <1>3, FromExactTyped
  <2>. QED
    BY <1>3, <2>1, <2>2
<1>. QED
  BY <1>1, <1>2, <1>3, NumIs

LEMMA StrIs ==
  ASSUME NEW t \in Strs
  PROVE  t.neg \in BOOLEAN /\ t.whole \in Text /\ t.point \in BOOLEAN /\ t.frac \in Text
BY DEF Strs

\* A text without a point is an integer (bigint.rs parse_dec).
LEMMA ReadIntIs ==
  ASSUME NEW t \in Strs
  PROVE  ReadInt(t) = None \/ ReadInt(t) \in Bigs
<1>1. t.neg \in BOOLEAN /\ t.whole \in Text
  BY StrIs
<1>2. Len(t.whole) \in 0..Len(t.whole)
  BY <1>1, TextIs
<1>3. Read(t.whole)[Len(t.whole)] \in Bigs
  BY <1>1, <1>2, ReadsAre, NatIs
<1>4. parse_dec(t.neg, t.whole) \in Bigs
  BY <1>1, <1>3, SignedIs DEF parse_dec
<1>. QED
  BY <1>4 DEF ReadInt

LEMMA ToNumFine ==
  ASSUME NEW a \in Values
  PROVE  Fine(b_to_num(a))
<1>1. CASE is_num(a)
  <2>1. b_to_num(a) = a
    BY <1>1 DEF b_to_num, is_num
  <2>. QED
    BY <2>1 DEF Fine
<1>2. CASE ~is_num(a) /\ a[1] = "str"
  <2>1. PICK t \in Strs : t = a[2]
    BY <1>2, ValueIs
  <2>2. CASE ~t.point
    <3>1. b_to_num(a) = IF ReadInt(t) = None THEN Fault("TYPE_MISMATCH") ELSE fit_int(ReadInt(t))
      BY <1>2, <2>1, <2>2 DEF b_to_num
    <3>2. ReadInt(t) # None => Fine(fit_int(ReadInt(t)))
      BY ReadIntIs, FitFine
    <3>. QED
      BY <3>1, <3>2, MadeValue
  <2>3. CASE t.point
    <3>1. PICK d \in Text, p \in Nat \ {0}, neg \in BOOLEAN :
             d = t.whole \o t.frac /\ p = pow10(Len(t.frac)) /\ neg = t.neg
      <4>1. t.whole \o t.frac \in Text
        BY StrIs, TextOps
      <4>2. Len(t.frac) \in Nat
        BY StrIs, TextIs
      <4>3. pow10(Len(t.frac)) \in Nat \ {0}
        BY <4>2, Tens
      <4>. QED
        BY <4>1, <4>3, StrIs
    <3>2. PICK n \in Nat : n = DigitsValue(d) * One
      <4>1. DigitsValue(d) \in Nat
        <5>1. PICK f : DigitsValue(d) = f[Len(d)] /\ \A k \in 0..Len(d) : f[k] \in Nat
          BY DigitsAre
        <5>2. Len(d) \in 0..Len(d)
          BY TextIs
        <5>. QED
          BY <5>1, <5>2
      <4>2. DigitsValue(d) * One \in Nat
        BY <4>1, OneUnit
      <4>. QED
        BY <4>2
    <3>3. Nearest(neg, n, p) \in Floats
      BY NearestIs
    <3>4. Fine(Float(Nearest(neg, n, p)))
      BY <3>3, MadeValue DEF Fine
    <3>5. b_to_num(a) \in {Fault("TYPE_MISMATCH"), Float(Nearest(neg, n, p))}
      BY <1>2, <2>1, <2>3, <3>1, <3>2 DEF b_to_num
    <3>. QED
      BY <3>4, <3>5, MadeValue
  <2>. QED
    BY <2>2, <2>3, StrIs
<1>3. CASE ~is_num(a) /\ a[1] # "str"
  <2>1. b_to_num(a) = Fault("TYPE_MISMATCH")
    BY <1>3 DEF b_to_num
  <2>. QED
    BY <2>1, MadeValue
<1>. QED
  BY <1>1, <1>2, <1>3

LEMMA BigWordFine ==
  ASSUME NEW a \in Values
  PROVE  Fine(b_big(a))
<1> DEFINE x == IF a[1] = "str" THEN ReadInt(a[2]) ELSE to_bigint(a)
<1>1. CASE ~is_num(a) /\ a[1] # "str"
  BY <1>1, MadeValue DEF b_big
<1>2. CASE is_num(a) \/ a[1] = "str"
  <2>1. x = None \/ x \in Bigs
    <3>1. CASE a[1] = "str"
      <4>1. a[2] \in Strs
        BY <3>1, ValueIs
      <4>. QED
        BY <3>1, <4>1, ReadIntIs
    <3>2. CASE a[1] # "str"
      <4>1. a \in Nums
        BY <1>2, <3>2, NumValue
      <4>. QED
        BY <3>2, <4>1, BigOfNum
    <3>. QED
      BY <3>1, <3>2
  <2>2. b_big(a) = IF x = None THEN Fault("TYPE_MISMATCH") ELSE BigV(x)
    BY <1>2 DEF b_big
  <2>. HIDE DEF x
  <2>. QED
    BY <2>1, <2>2, MadeValue DEF Fine
<1>. QED
  BY <1>1, <1>2

\* A decimal from a text, an int or a big that fits (exact.rs parse_dec; lib.rs b_dc).
LEMMA DecWordFine ==
  ASSUME NEW v \in Values
  PROVE  Fine(b_dc(v))
<1>0. 0 \in 0..ScaleMax /\ ScaleMax \in Nat
  BY ScalesAre
<1>1. CASE v[1] = "str"
  <2>1. PICK t \in Strs : t = v[2]
    BY <1>1, ValueIs
  <2>2. b_dc(v) = parse_decimal(t)
    BY <1>1, <2>1 DEF b_dc
  <2>3. PICK l \in Nat : l = Len(t.frac)
    BY StrIs, TextIs
  <2>4. PICK c \in Int : c = (IF t.neg THEN -1 ELSE 1) * DigitsValue(t.whole \o t.frac)
    <3>1. PICK d \in Text : d = t.whole \o t.frac
      BY StrIs, TextOps
    <3>2. DigitsValue(d) \in Nat
      <4>1. PICK f : DigitsValue(d) = f[Len(d)] /\ \A k \in 0..Len(d) : f[k] \in Nat
        BY DigitsAre
      <4>2. Len(d) \in 0..Len(d)
        BY TextIs
      <4>. QED
        BY <4>1, <4>2
    <3>3. (IF t.neg THEN -1 ELSE 1) * DigitsValue(d) \in Int
      BY <3>2
    <3>. QED
      BY <3>1, <3>3
  <2>5. parse_decimal(t) \in {Fault("TYPE_MISMATCH"), Fault("OVERFLOW")}
        \/ (parse_decimal(t) = DecV(c, l) /\ fit(c) /\ ~(l > ScaleMax))
    BY <2>3, <2>4 DEF parse_decimal
  <2>6. fit(c) /\ ~(l > ScaleMax) => DecV(c, l) \in Values
    <3>1. ~(l > ScaleMax) => l \in 0..ScaleMax
      BY <1>0
    <3>. QED
      BY <3>1, FitMachine, MadeValue
  <2>. QED
    BY <2>2, <2>5, <2>6, MadeValue DEF Fine
<1>2. CASE v[1] = "int"
  <2>1. v[2] \in Machine /\ b_dc(v) = DecV(v[2], 0)
    BY <1>2, ValueIs DEF b_dc
  <2>. QED
    BY <1>0, <2>1, MadeValue DEF Fine
<1>3. CASE v[1] = "big"
  <2>1. v[2] \in Bigs
    BY <1>3, ValueIs
  <2>2. b_dc(v) = IF to_i64(v[2]) = None THEN Fault("OVERFLOW") ELSE DecV(to_i64(v[2]), 0)
    BY <1>3 DEF b_dc
  <2>3. to_i64(v[2]) # None => to_i64(v[2]) \in Machine
    BY <2>1, ToI64Is, IntOfIs, FitMachine
  <2>4. to_i64(v[2]) # None => DecV(to_i64(v[2]), 0) \in Values
    BY <1>0, <2>3, MadeValue
  <2>. QED
    BY <2>2, <2>4, MadeValue DEF Fine
<1>4. CASE v[1] \notin {"str", "int", "big"}
  <2>1. b_dc(v) = Fault("TYPE_MISMATCH")
    BY <1>4 DEF b_dc
  <2>. QED
    BY <2>1, MadeValue
<1>. QED
  BY <1>1, <1>2, <1>3, <1>4

\* The text of an exact number (Display; exact.rs dec_text).
LEMMA ToStrFine ==
  ASSUME NEW a \in Values, a[1] \in {"int", "big", "dc"}
  PROVE  Fine(b_to_str(a))
<1>1. CASE a[1] \in {"int", "big"}
  <2>1. a \in Nums
    BY <1>1, NumValue DEF is_num
  <2>2. PICK x \in Bigs : x = to_bigint(a)
    BY <1>1, <2>1, BigOfNum
  <2>3. PICK w \in Text : w = IF is_zero(x) THEN <<0>> ELSE Digits(x)
    BY DigitsTyped, TextOps
  <2>4. b_to_str(a) = Str(x.neg, w, FALSE, <<>>)
    BY <1>1, <2>2, <2>3 DEF b_to_str
  <2>5. x.neg \in BOOLEAN /\ <<>> \in Text /\ FALSE \in BOOLEAN
    BY BigIs, TextOps
  <2>. QED
    BY <2>4, <2>5, MadeValue DEF Fine
<1>2. CASE a[1] = "dc"
  <2>1. PICK c \in Machine, s \in 0..ScaleMax : c = a[2][1] /\ s = a[2][2] /\ s \in Nat
    <3>1. a[2] \in Decs
      BY <1>2, ValueIs
    <3>. QED
      BY <3>1, DecIsPair
  <2>2. PICK x \in Bigs : x = from_i64(c)
    BY FromMachine DEF Machine
  <2>3. PICK short \in Text : short = IF is_zero(x) THEN <<0>> ELSE Digits(x)
    BY DigitsTyped, TextOps
  <2>4. PICK digits \in Text : /\ digits = IF s = 0 THEN short ELSE Padded(short, s)
                               /\ Len(digits) \in Nat /\ Len(digits) >= s
    <3>1. CASE s = 0
      BY <3>1, TextIs
    <3>2. CASE s # 0
      <4>1. PICK l \in Nat : l = Len(short)
        BY TextIs
      <4>2. PICK z \in Text : z = Zeros(s + 1 - l) /\ (s + 1 - l >= 0 => Len(z) = s + 1 - l) /\ Len(z) \in Nat
        <5>1. s + 1 - l \in Int
          OBVIOUS
        <5>. QED
          BY <4>1, <5>1, TextOps, TextIs
      <4>3. z \o short \in Text /\ Len(z \o short) = Len(z) + l
        BY <4>1, TextOps
      <4>4. Len(z \o short) >= s
        BY <2>1, <4>1, <4>2, <4>3
      <4>5. Padded(short, s) = IF l <= s THEN z \o short ELSE short
        BY <4>1, <4>2 DEF Padded
      <4>6. PICK y \in Text : y = z \o short /\ Len(y) \in Nat /\ Len(y) >= s
        <5>1. Len(z) + l \in Nat
          BY <4>2
        <5>2. Len(z \o short) \in Nat /\ z \o short \in Text
          BY <4>3, <5>1
        <5>. QED
          BY <4>4, <5>2
      <4>7. CASE l <= s
        BY <3>2, <4>5, <4>6, <4>7
      <4>8. CASE ~(l <= s)
        <5>1. Padded(short, s) = short /\ Len(short) \in Nat /\ Len(short) >= s
          BY <2>1, <4>1, <4>5, <4>8
        <5>. QED
          BY <3>2, <5>1
      <4>. QED
        BY <4>7, <4>8
    <3>. QED
      BY <3>1, <3>2
  <2>5. PICK cut \in Nat : cut = Len(digits) - s /\ cut <= Len(digits) /\ cut + 1 \in Nat /\ 1 <= cut + 1
    BY <2>1, <2>4
  <2>6. SubSeq(digits, 1, cut) \in Text
    <3>1. 1 \in Int /\ cut \in Int /\ 1 <= 1 /\ cut <= Len(digits)
      BY <2>5
    <3>. QED
      BY <3>1, TextOps
  <2>7. SubSeq(digits, cut + 1, Len(digits)) \in Text
    <3>1. cut + 1 \in Int /\ Len(digits) \in Int /\ 1 <= cut + 1 /\ Len(digits) <= Len(digits)
      BY <2>4, <2>5
    <3>. QED
      BY <3>1, TextOps
  <2>8. PICK point \in BOOLEAN : point = (s > 0)
    <3>1. (s > 0) \in BOOLEAN
      OBVIOUS
    <3>. QED
      BY <3>1, Zenon
  <2>9. b_to_str(a) = Str(x.neg, SubSeq(digits, 1, cut), point, SubSeq(digits, cut + 1, Len(digits)))
    BY <1>2, <2>1, <2>2, <2>3, <2>4, <2>5, <2>8 DEF b_to_str
  <2>10. x.neg \in BOOLEAN
    BY BigIs
  <2>. QED
    BY <2>6, <2>7, <2>9, <2>10, MadeValue DEF Fine
<1>. QED
  BY <1>1, <1>2

-----------------------------------------------------------------------------
(* Widths.                                                                 *)

\* The two powers that bound a width.
LEMMA WidthPowers ==
  ASSUME NEW bits \in Nat \ {0}
  PROVE  /\ bits - 1 \in Nat /\ Power(2, bits) \in Nat \ {0} /\ Power(2, bits - 1) \in Nat \ {0}
         /\ Power(2, bits) = 2 * Power(2, bits - 1)
<1>1. bits - 1 \in Nat /\ bits - 1 + 1 = bits /\ 2 \in Int
  OBVIOUS
<1>2. Power(2, bits - 1 + 1) = 2 * Power(2, bits - 1)
  BY <1>1, PowerNext
<1>. QED
  BY <1>1, <1>2, HalfOf

\* Wrapping keeps the number modulo the width, and brings it into range.
LEMMA WrapRange ==
  ASSUME NEW n \in Int, NEW signed \in BOOLEAN, NEW bits \in Nat \ {0}
  PROVE  /\ wrap_i128(n, signed, bits) \in Int /\ InWidth(wrap_i128(n, signed, bits), signed, bits)
         /\ (wrap_i128(n, signed, bits) - n) % Power(2, bits) = 0
<1>1. PICK h \in Nat \ {0}, p \in Nat \ {0} : h = Power(2, bits - 1) /\ p = Power(2, bits) /\ p = 2 * h
  BY WidthPowers
<1>2. PICK q \in Int, m \in 0..p - 1 : q = n \div p /\ m = n % p /\ n = p * q + m
  <2>1. n \div p \in Int /\ n % p \in 0..p - 1 /\ n = p * (n \div p) + (n % p)
    BY DivMod
  <2>. QED
    BY <2>1
<1>3. PICK r \in Int : r = wrap_i128(n, signed, bits) /\ r = IF signed /\ m >= h THEN m - p ELSE m
  BY <1>1, <1>2 DEF wrap_i128
<1>4. InWidth(r, signed, bits)
  <2>1. IF signed THEN r \in -h..h - 1 ELSE r \in 0..p - 1
    <3>1. CASE signed
      BY <1>1, <1>3, <3>1
    <3>2. CASE ~signed
      BY <1>1, <1>3, <3>2
    <3>. QED
      BY <3>1, <3>2
  <2>. QED
    BY <1>1, <2>1 DEF InWidth
<1>5. (r - n) % p = 0
  <2>1. \E c \in Int : r - n = p * c + 0
    <3>1. p * (-q) = -(p * q) /\ p * (-q - 1) = -(p * q) - p /\ p * q \in Int /\ -q \in Int /\ -q - 1 \in Int
      OBVIOUS
    <3>2. CASE r = m
      <4>1. r - n = p * (-q) + 0
        BY <1>2, <3>1, <3>2
      <4>. QED
        BY <3>1, <4>1
    <3>3. CASE r = m - p
      <4>1. r - n = p * (-q - 1) + 0
        BY <1>2, <3>1, <3>3
      <4>. QED
        BY <3>1, <4>1
    <3>. QED
      BY <1>3, <3>2, <3>3
  <2>2. PICK c \in Int : r - n = p * c + 0
    BY <2>1
  <2>3. 0 \in 0..p - 1 /\ r - n \in Int
    OBVIOUS
  <2>. QED
    BY <2>2, <2>3, DivIs
<1>. QED
  BY <1>1, <1>3, <1>4, <1>5

\* Wrapping on limbs is wrapping on integers (bigint.rs wrap_width).
LEMMA WrapIs ==
  ASSUME NEW x \in Bigs, NEW signed \in BOOLEAN, NEW bits \in Nat \ {0}
  PROVE  /\ wrap_width(x, signed, bits) \in Bigs
         /\ IntOf(wrap_width(x, signed, bits)) = wrap_i128(IntOf(x), signed, bits)
<1>1. PICK h \in Nat \ {0}, p \in Nat \ {0} : h = Power(2, bits - 1) /\ p = Power(2, bits) /\ p = 2 * h
  BY WidthPowers
<1>2. PICK n \in Int : n = IntOf(x)
  BY IntOfIs
<1>3. PICK a \in Bigs, b \in Bigs : a = shl(one, bits) /\ b = shl(one, bits - 1) /\ IntOf(a) = p /\ IntOf(b) = h
  <2>1. bits \in Nat /\ bits - 1 \in Nat /\ one \in Bigs /\ IntOf(one) = 1
    BY WidthPowers, OneIs
  <2>2. shl(one, bits) \in Bigs /\ IntOf(shl(one, bits)) = 1 * p /\ shl(one, bits - 1) \in Bigs /\ IntOf(shl(one, bits - 1)) = 1 * h
    BY <1>1, <2>1, ShlIs
  <2>. QED
    BY <2>2
<1>4. PICK r \in Bigs : r = divmod_floor(x, a)[2] /\ IntOf(r) = n % p /\ IntOf(r) \in Int
  <2>1. IntOf(a) # 0 /\ IntOf(a) > 0
    BY <1>3
  <2>2. divmod_floor(x, a) \in Bigs \X Bigs
    BY DivModFloorIs
  <2>3. IntOf(divmod_floor(x, a)[2]) = n - p * (n \div p)
    BY <1>2, <1>3, <2>1, FloorIs
  <2>4. n - p * (n \div p) = n % p
    <3>1. PICK q \in Int, m \in Int : q = n \div p /\ m = n % p /\ n = p * q + m
      <4>1. n \div p \in Int /\ n % p \in 0..p - 1 /\ n = p * (n \div p) + (n % p)
        BY DivMod
      <4>. QED
        BY <4>1
    <3>2. p * q \in Int
      OBVIOUS
    <3>. QED
      BY <3>1, <3>2
  <2>5. divmod_floor(x, a)[2] \in Bigs
    BY <2>2
  <2>. QED
    BY <2>3, <2>4, <2>5, IntOfIs
<1>5. cmp(r, b) >= 0 <=> n % p >= h
  <2>1. cmp(r, b) = Cmp(IntOf(r), h)
    BY <1>3, CmpBigs
  <2>2. PICK m \in Int, k \in Int : m = IntOf(r) /\ k = h
    BY <1>4
  <2>3. Cmp(m, k) >= 0 <=> m >= k
    BY CmpIs
  <2>. QED
    BY <1>4, <2>1, <2>2, <2>3
<1>6. wrap_width(x, signed, bits) = IF signed /\ cmp(r, b) >= 0 THEN sub(r, a) ELSE r
  BY <1>3, <1>4 DEF wrap_width, Wrapped, UpperHalf
<1>7. sub(r, a) \in Bigs /\ IntOf(sub(r, a)) = (n % p) - p
  BY <1>3, <1>4, SubIs
<1>8. wrap_i128(n, signed, bits) = IF signed /\ n % p >= h THEN (n % p) - p ELSE n % p
  BY <1>1 DEF wrap_i128
<1>9. CASE signed /\ cmp(r, b) >= 0
  BY <1>2, <1>5, <1>6, <1>7, <1>8, <1>9
<1>10. CASE ~(signed /\ cmp(r, b) >= 0)
  BY <1>2, <1>4, <1>5, <1>6, <1>8, <1>10
<1>. QED
  BY <1>9, <1>10

\* The ends of a width, as numbers.
Lowest(signed, bits) == IF signed THEN -Power(2, bits - 1) ELSE 0
Highest(signed, bits) == (IF signed THEN Power(2, bits - 1) ELSE Power(2, bits)) - 1

LEMMA EndsAre ==
  ASSUME NEW signed \in BOOLEAN, NEW bits \in Nat \ {0}
  PROVE  /\ Lowest(signed, bits) \in Int /\ Highest(signed, bits) \in Int
         /\ Lowest(signed, bits) <= 0 /\ 0 <= Highest(signed, bits)
         /\ \A n \in Int : InWidth(n, signed, bits) <=> Lowest(signed, bits) <= n /\ n <= Highest(signed, bits)
<1>1. PICK h \in Nat \ {0}, p \in Nat \ {0} : h = Power(2, bits - 1) /\ p = Power(2, bits)
  BY WidthPowers
<1>. QED
  BY <1>1 DEF Lowest, Highest, InWidth

\* lo and hi give them (lib.rs).
LEMMA LoHiAre ==
  ASSUME NEW w \in [signed : BOOLEAN, bits : Nat \ {0}]
  PROVE  /\ lo(w) \in Bigs /\ IntOf(lo(w)) = Lowest(w.signed, w.bits)
         /\ hi(w) \in Bigs /\ IntOf(hi(w)) = Highest(w.signed, w.bits)
<1>1. PICK signed \in BOOLEAN, bits \in Nat \ {0} : signed = w.signed /\ bits = w.bits
  OBVIOUS
<1>2. PICK h \in Nat \ {0}, p \in Nat \ {0} : h = Power(2, bits - 1) /\ p = Power(2, bits)
  BY WidthPowers
<1>3. PICK a \in Bigs, b \in Bigs : a = shl(one, bits) /\ b = shl(one, bits - 1) /\ IntOf(a) = p /\ IntOf(b) = h
  <2>1. bits \in Nat /\ bits - 1 \in Nat /\ one \in Bigs /\ IntOf(one) = 1
    BY WidthPowers, OneIs
  <2>2. shl(one, bits) \in Bigs /\ IntOf(shl(one, bits)) = 1 * p /\ shl(one, bits - 1) \in Bigs /\ IntOf(shl(one, bits - 1)) = 1 * h
    BY <1>2, <2>1, ShlIs
  <2>. QED
    BY <2>2
<1>4. lo(w) = IF signed THEN neg_(b) ELSE zero
  BY <1>1, <1>3 DEF lo
<1>5. hi(w) = sub(IF signed THEN b ELSE a, one)
  <2>1. hi(w) = sub(shl(one, IF signed THEN bits - 1 ELSE bits), one)
    BY <1>1 DEF hi
  <2>2. CASE signed
    BY <1>3, <2>1, <2>2
  <2>3. CASE ~signed
    BY <1>3, <2>1, <2>3
  <2>. QED
    BY <2>2, <2>3
<1>6. neg_(b) \in Bigs /\ IntOf(neg_(b)) = -h /\ zero \in Bigs /\ IntOf(zero) = 0
  BY <1>3, NegIs, ZeroIs
<1>7. PICK e \in Bigs : e = IF signed THEN b ELSE a
  OBVIOUS
<1>8. sub(e, one) \in Bigs /\ IntOf(sub(e, one)) = IntOf(e) - 1
  BY OneIs, SubIs
<1>9. lo(w) \in Bigs /\ IntOf(lo(w)) = IF signed THEN -h ELSE 0
  BY <1>4, <1>6
<1>10. hi(w) \in Bigs /\ IntOf(hi(w)) = (IF signed THEN h ELSE p) - 1
  BY <1>3, <1>5, <1>7, <1>8
<1>. QED
  BY <1>1, <1>2, <1>9, <1>10 DEF Lowest, Highest

\* A width whose ends fit the checked int is one of up to its bits.
LEMMA FitsIntIs ==
  ASSUME NEW w \in [signed : BOOLEAN, bits : Nat \ {0}]
  PROVE  /\ fits_int(w) <=> w.bits < IntBits \/ (w.signed /\ w.bits = IntBits)
         /\ fits_int(w) => \A n \in Int : InWidth(n, w.signed, w.bits) => fit(n) /\ n \in Machine
<1>1. PICK signed \in BOOLEAN, bits \in Nat \ {0} : signed = w.signed /\ bits = w.bits
  OBVIOUS
<1>2. PICK h \in Nat \ {0}, p \in Nat \ {0} : h = Power(2, bits - 1) /\ p = Power(2, bits) /\ p = 2 * h
  BY WidthPowers
<1>3. PICK I \in Nat \ {0}, g \in Nat \ {0} : I = IntBits /\ g = Power(2, I - 1) /\ I - 1 \in Nat
  <2>1. IntBits \in Nat \ {0}
    BY IntSize
  <2>. QED
    BY <2>1, IntSize
<1>4. MinInt = -g /\ MaxInt = g - 1
  BY <1>3 DEF MinInt, MaxInt
<1>5. PICK l \in Int, k \in Int : l = Lowest(signed, bits) /\ k = Highest(signed, bits)
  BY EndsAre
<1>6. l = (IF signed THEN -h ELSE 0) /\ k = (IF signed THEN h ELSE p) - 1
  BY <1>2, <1>5 DEF Lowest, Highest
<1>7. fits_int(w) <=> -g <= l /\ k <= g - 1
  <2>1. /\ from_i64(MinInt) \in Bigs /\ IntOf(from_i64(MinInt)) = -g
        /\ from_i64(MaxInt) \in Bigs /\ IntOf(from_i64(MaxInt)) = g - 1
    <3>1. MinInt \in MinInt..MaxInt /\ MaxInt \in MinInt..MaxInt
      BY <1>4
    <3>. QED
      BY <1>4, <3>1, FromMachine
  <2>2. cmp(lo(w), from_i64(MinInt)) = Cmp(l, -g) /\ cmp(hi(w), from_i64(MaxInt)) = Cmp(k, g - 1)
    BY <1>1, <1>5, <2>1, LoHiAre, CmpBigs
  <2>3. -g \in Int /\ g - 1 \in Int
    OBVIOUS
  <2>4. Cmp(l, -g) \in -1..1 /\ Cmp(k, g - 1) \in -1..1 /\ (Cmp(l, -g) < 0 <=> l < -g) /\ (Cmp(k, g - 1) > 0 <=> k > g - 1)
    BY <2>3, CmpIs
  <2>5. (Cmp(l, -g) >= 0 <=> -g <= l) /\ (Cmp(k, g - 1) <= 0 <=> k <= g - 1)
    BY <2>4
  <2>. QED
    BY <2>2, <2>5 DEF fits_int
<1>8. bits <= I - 1 => p <= g
  <2>1. bits \in Nat
    OBVIOUS
  <2>. QED
    BY <1>2, <1>3, <2>1, PowerMono
<1>9. I <= bits => g <= h
  <2>1. bits - 1 \in Nat /\ (I <= bits => I - 1 <= bits - 1)
    OBVIOUS
  <2>. QED
    BY <1>2, <1>3, <2>1, PowerMono
<1>10. bits = I => h = g
  BY <1>2, <1>3
<1>11. bits > I => 2 * g <= h
  <2>1. SUFFICES ASSUME bits > I PROVE 2 * g <= h
    OBVIOUS
  <2>2. I \in Nat /\ bits - 1 \in Nat /\ I <= bits - 1
    BY <2>1
  <2>3. Power(2, I) <= h
    BY <1>2, <2>2, PowerMono
  <2>4. Power(2, I) = 2 * g
    BY <1>3, IntSize
  <2>. QED
    BY <2>3, <2>4
<1>12. fits_int(w) <=> bits < I \/ (signed /\ bits = I)
  BY <1>2, <1>6, <1>7, <1>8, <1>9, <1>10, <1>11
<1>13. fits_int(w) => \A n \in Int : InWidth(n, signed, bits) => fit(n)
  <2>1. SUFFICES ASSUME fits_int(w), NEW n \in Int, InWidth(n, signed, bits) PROVE fit(n)
    OBVIOUS
  <2>2. l <= n /\ n <= k
    BY <1>5, <2>1, EndsAre
  <2>. QED
    BY <1>4, <1>7, <2>1, <2>2 DEF fit
<1>. QED
  BY <1>1, <1>3, <1>12, <1>13, FitMachine

-----------------------------------------------------------------------------
(* The policies of a width.                                                *)

\* The words of a width.
LEMMA WidthIs ==
  ASSUME NEW w \in Widths
  PROVE  w \in [signed : BOOLEAN, bits : Nat \ {0}] /\ w.signed \in BOOLEAN /\ w.bits \in Nat \ {0}
<1>1. w.signed \in BOOLEAN /\ w.bits \in WidthBits /\ w = [signed |-> w.signed, bits |-> w.bits]
  BY DEF Widths
<1>2. w.bits \in Nat \ {0}
  BY <1>1, ValueAssumption
<1>. QED
  BY <1>1, <1>2

\* The type of what a policy word leaves: an int when the width fits one.
KindOf(w) == IF w.bits < IntBits \/ (w.signed /\ w.bits = IntBits) THEN "int" ELSE "big"

\* A number of the width, as a value of its type (lib.rs typed).
LEMMA TypedIs ==
  ASSUME NEW w \in Widths, NEW x \in Bigs, InWidth(IntOf(x), w.signed, w.bits)
  PROVE  Given(typed(w, x)) = <<KindOf(w), IntOf(x)>> /\ typed(w, x) \in Values
<1>1. PICK n \in Int : n = IntOf(x)
  BY IntOfIs
<1>2. w \in [signed : BOOLEAN, bits : Nat \ {0}]
  BY WidthIs
<1>3. fits_int(w) <=> KindOf(w) = "int"
  BY <1>2, FitsIntIs DEF KindOf
<1>4. CASE fits_int(w)
  <2>1. fit(n) /\ n \in Machine
    BY <1>1, <1>2, <1>4, FitsIntIs
  <2>2. typed(w, x) = <<"int", n>>
    <3>1. to_i64(x) = n
      BY <1>1, <2>1, ToI64Is
    <3>. QED
      BY <1>4, <3>1 DEF typed, Int_
  <2>3. typed(w, x) \in Values
    BY <2>1, <2>2, MadeValue DEF Int_
  <2>4. Given(<<"int", n>>) = <<"int", n>>
    BY DEF Given, is_big
  <2>. QED
    BY <1>1, <1>3, <1>4, <2>2, <2>3, <2>4
<1>5. CASE ~fits_int(w)
  <2>1. typed(w, x) = <<"big", x>>
    BY <1>5 DEF typed, BigV
  <2>2. typed(w, x) \in Values
    BY <2>1, MadeValue DEF BigV
  <2>3. Given(<<"big", x>>) = <<"big", n>>
    BY <1>1 DEF Given, is_big
  <2>4. KindOf(w) = "big"
    BY <1>3, <1>5 DEF KindOf
  <2>. QED
    BY <1>1, <2>1, <2>2, <2>3, <2>4
<1>. QED
  BY <1>4, <1>5

\* The nearest number of the width (lib.rs b_policy).
Nearby(n, l, k) == IF n < l THEN l ELSE IF n > k THEN k ELSE n

LEMMA SaturatedIs ==
  ASSUME NEW w \in Widths, NEW x \in Bigs
  PROVE  /\ Saturated(x, w) \in Bigs
         /\ IntOf(Saturated(x, w)) = Nearby(IntOf(x), Lowest(w.signed, w.bits), Highest(w.signed, w.bits))
<1>1. PICK l \in Int, k \in Int : l = Lowest(w.signed, w.bits) /\ k = Highest(w.signed, w.bits)
  BY WidthIs, EndsAre
<1>2. PICK a \in Bigs, b \in Bigs : a = lo(w) /\ b = hi(w) /\ IntOf(a) = l /\ IntOf(b) = k
  BY <1>1, WidthIs, LoHiAre
<1>3. PICK n \in Int : n = IntOf(x)
  BY IntOfIs
<1>4. (cmp(x, a) < 0 <=> n < l) /\ (cmp(x, b) > 0 <=> n > k)
  <2>1. cmp(x, a) = Cmp(n, l) /\ cmp(x, b) = Cmp(n, k)
    BY <1>2, <1>3, CmpBigs
  <2>. QED
    BY <2>1, CmpIs
<1>5. Saturated(x, w) = IF cmp(x, a) < 0 THEN a ELSE IF cmp(x, b) > 0 THEN b ELSE x
  BY <1>2 DEF Saturated
<1>. QED
  BY <1>1, <1>2, <1>3, <1>4, <1>5 DEF Nearby

\* A big of a number or of nothing is told from None.
LEMMA PolicyCases ==
  ASSUME NEW x \in Bigs, NEW w \in Widths, NEW v, pop_intish(v) = x, NEW op \in {"wr", "st", "ck"}
  PROVE  LET inside == InWidth(IntOf(x), w.signed, w.bits)
             r == b_policy(op, v, <<"width", w>>)
         IN  /\ r \in Values \cup {Fault("OVERFLOW")}
             /\ op = "wr" => Given(r) = <<KindOf(w), wrap_i128(IntOf(x), w.signed, w.bits)>>
             /\ op = "st" => Given(r) = <<KindOf(w), Nearby(IntOf(x), Lowest(w.signed, w.bits), Highest(w.signed, w.bits))>>
             /\ op = "ck" => Given(r) = IF inside THEN <<KindOf(w), IntOf(x)>> ELSE Fault("OVERFLOW")
<1>1. PICK signed \in BOOLEAN, bits \in Nat \ {0} : signed = w.signed /\ bits = w.bits
  BY WidthIs
<1>2. PICK n \in Int : n = IntOf(x)
  BY IntOfIs
<1>3. PICK l \in Int, k \in Int : l = Lowest(signed, bits) /\ k = Highest(signed, bits) /\ l <= k
  BY EndsAre
<1>4. \A m \in Int : InWidth(m, signed, bits) <=> l <= m /\ m <= k
  BY <1>3, EndsAre
<1>5. x # None
  BY ValueAssumption
<1> DEFINE r == b_policy(op, v, <<"width", w>>)
<1>6. r = CASE op = "wr" -> typed(w, wrap_width(x, signed, bits))
            [] op = "st" -> typed(w, Saturated(x, w))
            [] op = "ck" -> IF cmp(x, lo(w)) >= 0 /\ cmp(x, hi(w)) <= 0 THEN typed(w, x) ELSE Fault("OVERFLOW")
  BY <1>1, <1>5 DEF b_policy
<1>. HIDE DEF r
<1>7. CASE op = "wr"
  <2>1. PICK y \in Bigs : y = wrap_width(x, signed, bits) /\ IntOf(y) = wrap_i128(n, signed, bits)
    BY <1>2, WrapIs
  <2>2. InWidth(IntOf(y), signed, bits)
    BY <2>1, WrapRange
  <2>3. Given(typed(w, y)) = <<KindOf(w), IntOf(y)>> /\ typed(w, y) \in Values
    BY <1>1, <2>2, TypedIs
  <2>4. r = typed(w, y)
    BY <1>6, <1>7, <2>1
  <2>. QED
    BY <1>1, <1>2, <1>7, <2>1, <2>3, <2>4 DEF r
<1>8. CASE op = "st"
  <2>1. PICK y \in Bigs : y = Saturated(x, w) /\ IntOf(y) = Nearby(n, l, k)
    BY <1>1, <1>2, <1>3, SaturatedIs
  <2>2. Nearby(n, l, k) \in Int /\ l <= Nearby(n, l, k) /\ Nearby(n, l, k) <= k
    BY <1>3 DEF Nearby
  <2>3. InWidth(IntOf(y), signed, bits)
    BY <1>4, <2>1, <2>2
  <2>4. Given(typed(w, y)) = <<KindOf(w), IntOf(y)>> /\ typed(w, y) \in Values
    BY <1>1, <2>3, TypedIs
  <2>5. r = typed(w, y)
    BY <1>6, <1>8, <2>1
  <2>. QED
    BY <1>1, <1>2, <1>3, <1>8, <2>1, <2>4, <2>5 DEF r
<1>9. CASE op = "ck"
  <2>1. PICK a \in Bigs, b \in Bigs : a = lo(w) /\ b = hi(w) /\ IntOf(a) = l /\ IntOf(b) = k
    BY <1>1, <1>3, WidthIs, LoHiAre
  <2>2. cmp(x, a) >= 0 /\ cmp(x, b) <= 0 <=> l <= n /\ n <= k
    <3>1. cmp(x, a) = Cmp(n, l) /\ cmp(x, b) = Cmp(n, k)
      BY <1>2, <2>1, CmpBigs
    <3>2. Cmp(n, l) \in -1..1 /\ Cmp(n, k) \in -1..1 /\ (Cmp(n, l) < 0 <=> n < l) /\ (Cmp(n, k) > 0 <=> n > k)
      BY CmpIs
    <3>. QED
      BY <3>1, <3>2
  <2>3. r = IF InWidth(n, signed, bits) THEN typed(w, x) ELSE Fault("OVERFLOW")
    BY <1>4, <1>6, <1>9, <2>1, <2>2
  <2>4. InWidth(n, signed, bits) => Given(typed(w, x)) = <<KindOf(w), n>> /\ typed(w, x) \in Values
    BY <1>1, <1>2, TypedIs
  <2>5. Given(Fault("OVERFLOW")) = Fault("OVERFLOW")
    BY DEF Given, is_big, Fault
  <2>6. CASE InWidth(n, signed, bits)
    BY <1>1, <1>2, <1>9, <2>3, <2>4, <2>6 DEF r
  <2>7. CASE ~InWidth(n, signed, bits)
    BY <1>1, <1>2, <1>9, <2>3, <2>5, <2>7 DEF r
  <2>. QED
    BY <2>6, <2>7
<1>. QED
  BY <1>7, <1>8, <1>9

\* What is popped as an integer: a big, or nothing (lib.rs pop_intish).
LEMMA IntishIs ==
  ASSUME NEW v \in Values
  PROVE  pop_intish(v) = None \/ pop_intish(v) \in Bigs
<1>1. CASE is_num(v)
  BY <1>1, NumValue, BigOfNum DEF pop_intish
<1>2. CASE ~is_num(v)
  BY <1>2 DEF pop_intish
<1>. QED
  BY <1>1, <1>2

\* A policy word leaves a value or faults.
LEMMA PolicyFine ==
  ASSUME NEW v \in Values, NEW wv \in Values, NEW op \in {"wr", "st", "ck"}
  PROVE  Fine(b_policy(op, v, wv))
<1>1. CASE wv[1] # "width" \/ pop_intish(v) = None
  <2>1. b_policy(op, v, wv) = Fault("TYPE_MISMATCH")
    BY <1>1 DEF b_policy
  <2>. QED
    BY <2>1, MadeValue
<1>2. CASE wv[1] = "width" /\ pop_intish(v) # None
  <2>1. PICK x \in Bigs : pop_intish(v) = x
    BY <1>2, IntishIs
  <2>2. PICK w \in Widths : wv = <<"width", w>>
    BY <1>2, ValueIs
  <2>3. b_policy(op, v, wv) \in Values \cup {Fault("OVERFLOW")}
    BY <2>1, <2>2, PolicyCases
  <2>. QED
    BY <2>3, MadeValue DEF Fine
<1>. QED
  BY <1>1, <1>2

-----------------------------------------------------------------------------
(* Lane vectors.                                                           *)

\* What a lane of a kind holds.
LaneSet(k) == IF k.is_float THEN Floats ELSE Machine

\* An integer lane wraps into the checked int.
LEMMA LaneFits ==
  ASSUME NEW name \in DOMAIN VecKinds
  PROVE  LET k == VecKinds[name]
         IN  /\ k.count \in Nat /\ k.is_float \in BOOLEAN /\ k.signed \in BOOLEAN /\ k.bits \in Nat \ {0}
             /\ \A n \in Int : /\ wrap_i128(n, k.signed, k.bits) \in Machine /\ fit(wrap_i128(n, k.signed, k.bits))
                               /\ InWidth(wrap_i128(n, k.signed, k.bits), k.signed, k.bits)
<1> DEFINE k == VecKinds[name]
<1>1. /\ k.count \in Nat /\ k.is_float \in BOOLEAN /\ k.signed \in BOOLEAN
      /\ k.bits \in 1..IntBits /\ (k.signed \/ k.bits < IntBits)
  BY ValueAssumption
<1>. HIDE DEF k
<1>2. PICK I \in Nat : I = IntBits
  BY IntSize
<1>3. k.bits \in Nat \ {0} /\ (k.bits < IntBits \/ (k.signed /\ k.bits = IntBits))
  BY <1>1, <1>2
<1>4. PICK w \in [signed : BOOLEAN, bits : Nat \ {0}] : w.signed = k.signed /\ w.bits = k.bits
  <2>1. [signed |-> k.signed, bits |-> k.bits] \in [signed : BOOLEAN, bits : Nat \ {0}]
    BY <1>1, <1>3
  <2>. QED
    BY <2>1
<1>5. \A n \in Int : InWidth(n, k.signed, k.bits) => fit(n) /\ n \in Machine
  <2>1. fits_int(w)
    BY <1>3, <1>4, FitsIntIs
  <2>. QED
    BY <1>4, <2>1, FitsIntIs
<1>6. \A n \in Int : /\ wrap_i128(n, k.signed, k.bits) \in Int
                     /\ InWidth(wrap_i128(n, k.signed, k.bits), k.signed, k.bits)
  BY <1>1, <1>3, WrapRange
<1>. QED
  BY <1>1, <1>3, <1>5, <1>6 DEF k

\* A vector and its lanes.
LEMMA VecIs ==
  ASSUME NEW v \in Vecs
  PROVE  /\ v.name \in DOMAIN VecKinds
         /\ v.lanes \in [1..VecKinds[v.name].count -> LaneSet(VecKinds[v.name])]
         /\ v.lanes \in Seq(LaneSet(VecKinds[v.name]))
         /\ Len(v.lanes) = VecKinds[v.name].count /\ DOMAIN v.lanes = 1..Len(v.lanes)
<1>1. PICK n \in DOMAIN VecKinds : v \in [name : {n}, lanes : Lanes(VecKinds[n])]
  BY DEF Vecs
<1>2. v.name = n /\ v.lanes \in Lanes(VecKinds[n])
  BY <1>1
<1>3. VecKinds[n].count \in Nat
  BY LaneFits
<1>4. v.lanes \in [1..VecKinds[n].count -> LaneSet(VecKinds[n])]
  BY <1>2 DEF Lanes, LaneSet
<1>5. \A S : \A c \in Nat : \A s \in [1..c -> S] : s \in Seq(S) /\ Len(s) = c /\ DOMAIN s = 1..Len(s)
  OBVIOUS
<1>. QED
  BY <1>2, <1>3, <1>4, <1>5

\* A value as a lane, or a fault (lib.rs coerce_lane).
LEMMA CoerceIs ==
  ASSUME NEW v \in Values, NEW name \in DOMAIN VecKinds
  PROVE  LET r == coerce_lane(VecKinds[name], v)
         IN  r[1] = "fault" \/ r[2] \in LaneSet(VecKinds[name])
<1> DEFINE k == VecKinds[name]
           r == coerce_lane(k, v)
<1>. HIDE DEF k
<1>0. /\ k.is_float \in BOOLEAN /\ k.signed \in BOOLEAN /\ k.bits \in Nat \ {0}
      /\ \A n \in Int : /\ wrap_i128(n, k.signed, k.bits) \in Machine /\ fit(wrap_i128(n, k.signed, k.bits))
  BY LaneFits DEF k
<1>1. CASE ~is_num(v)
  <2>1. r = Fault("TYPE_MISMATCH")
    BY <1>1 DEF coerce_lane
  <2>. QED
    BY <2>1 DEF Fault, k
<1>2. CASE is_num(v) /\ k.is_float
  <2>1. r = to_float(v)
    BY <1>2 DEF coerce_lane
  <2>2. v \in Nums
    BY <1>2, NumValue
  <2>3. to_float(v)[1] = "fault" \/ to_float(v)[2] \in Floats
    BY <2>2, ToFloatIs DEF Faulted
  <2>4. LaneSet(k) = Floats
    BY <1>2 DEF LaneSet
  <2>. QED
    BY <2>1, <2>3, <2>4 DEF k
<1>3. CASE is_num(v) /\ ~k.is_float
  <2>1. r = IF to_bigint(v) = None THEN Fault("TYPE_MISMATCH")
            ELSE Int_(to_i64(wrap_width(to_bigint(v), k.signed, k.bits)))
    BY <1>3 DEF coerce_lane
  <2>2. CASE to_bigint(v) = None
    BY <2>1, <2>2 DEF Fault, k
  <2>3. CASE to_bigint(v) # None
    <3>1. PICK x \in Bigs : x = to_bigint(v)
      BY <1>3, <2>3, NumValue, BigOfNum
    <3>2. PICK y \in Bigs : y = wrap_width(x, k.signed, k.bits) /\ IntOf(y) = wrap_i128(IntOf(x), k.signed, k.bits)
      BY <1>0, WrapIs
    <3>3. fit(IntOf(y)) /\ IntOf(y) \in Machine
      BY <1>0, <3>2, IntOfIs
    <3>4. to_i64(y) = IntOf(y)
      BY <3>3, ToI64Is
    <3>5. r = Int_(IntOf(y))
      BY <2>1, <2>3, <3>1, <3>2, <3>4
    <3>6. LaneSet(k) = Machine
      BY <1>3 DEF LaneSet
    <3>. QED
      BY <3>3, <3>5, <3>6 DEF Int_, k
  <2>. QED
    BY <2>2, <2>3
<1>. QED
  BY <1>0, <1>1, <1>2, <1>3

\* A vector of lanes of its kind is a value.
LEMMA VecMade ==
  ASSUME NEW name \in DOMAIN VecKinds, NEW l \in [1..VecKinds[name].count -> LaneSet(VecKinds[name])]
  PROVE  VecV(name, l) \in Values
<1>1. l \in Lanes(VecKinds[name])
  BY DEF Lanes, LaneSet
<1>. QED
  BY <1>1, MadeValue

\* vf .. vu: what the block left, lane by lane (lib.rs build_vec).
LEMMA BuildFine ==
  ASSUME NEW name \in DOMAIN VecKinds, NEW produced \in Seq(Values)
  PROVE  Fine(build_vec(name, produced))
<1> DEFINE k == VecKinds[name]
           n == Len(produced)
           lane == [i \in 1..n |-> coerce_lane(k, produced[i])]
           bad == {i \in 1..n : Faulted(lane[i])}
<1>1. n \in Nat /\ \A i \in 1..n : produced[i] \in Values
  OBVIOUS
<1>2. build_vec(name, produced) = IF n # k.count THEN Fault("BOUNDS")
                                  ELSE IF bad # {} THEN lane[Min(bad)]
                                  ELSE VecV(name, [i \in 1..k.count |-> lane[i][2]])
  BY DEF build_vec
<1>3. \A i \in 1..n : Faulted(lane[i]) \/ lane[i][2] \in LaneSet(k)
  BY <1>1, CoerceIs DEF Faulted
<1>. HIDE DEF k, lane
<1>4. CASE n # k.count
  BY <1>2, <1>4, MadeValue
<1>5. CASE n = k.count /\ bad # {}
  <2>1. Min(bad) \in bad
    <3>1. bad \in SUBSET Nat
      BY <1>1
    <3>. HIDE DEF bad
    <3>2. PICK i \in bad : \A j \in bad : i <= j
      BY <1>5, <3>1, LeastElement
    <3>3. \E z \in bad : \A j \in bad : j >= z
      BY <3>1, <3>2
    <3>. QED
      BY <3>3 DEF Min
  <2>2. Faulted(lane[Min(bad)])
    BY <2>1
  <2>3. build_vec(name, produced) = lane[Min(bad)]
    BY <1>2, <1>5
  <2>. QED
    BY <2>2, <2>3 DEF Fine, Faulted
<1>6. CASE n = k.count /\ bad = {}
  <2>1. \A i \in 1..k.count : lane[i][2] \in LaneSet(k)
    BY <1>3, <1>6
  <2>2. [i \in 1..k.count |-> lane[i][2]] \in [1..k.count -> LaneSet(k)]
    BY <2>1
  <2>3. VecV(name, [i \in 1..k.count |-> lane[i][2]]) \in Values
    BY <2>2, VecMade DEF k
  <2>. QED
    BY <1>2, <1>6, <2>3 DEF Fine
<1>. QED
  BY <1>4, <1>5, <1>6

\* One lane of va, vs and vm.
LaneOf(op, k, x, y) ==
  IF k.is_float THEN LaneFloat(op, x, y) ELSE wrap_i128(LaneInt(op, x, y), k.signed, k.bits)

LEMMA LaneOps ==
  ASSUME NEW op \in {"va", "vs", "vm"}, NEW name \in DOMAIN VecKinds,
         NEW x \in LaneSet(VecKinds[name]), NEW y \in LaneSet(VecKinds[name])
  PROVE  /\ LaneOf(op, VecKinds[name], x, y) \in LaneSet(VecKinds[name])
         /\ ~VecKinds[name].is_float => LaneInt(op, x, y) \in Int
<1> DEFINE k == VecKinds[name]
<1>0. \A n \in Int : wrap_i128(n, k.signed, k.bits) \in Machine
  BY LaneFits
<1>. HIDE DEF k
<1>1. CASE k.is_float
  <2>1. x \in Floats /\ y \in Floats
    BY <1>1 DEF LaneSet, k
  <2>2. FAdd(x, y) \in Floats /\ FMul(x, y) \in Floats /\ FAdd(x, FNeg(y)) \in Floats
    BY <2>1, FAddIs, FMulIs, FNegIs
  <2>3. LaneFloat(op, x, y) \in Floats
    BY <2>2 DEF LaneFloat
  <2>. QED
    BY <1>1, <2>3 DEF LaneOf, LaneSet, k
<1>2. CASE ~k.is_float
  <2>1. x \in Machine /\ y \in Machine
    BY <1>2 DEF LaneSet, k
  <2>2. x \in Int /\ y \in Int
    BY <2>1, MachineIs DEF Machine
  <2>3. LaneInt(op, x, y) \in Int
    <3>1. x + y \in Int /\ x - y \in Int /\ x * y \in Int
      BY <2>2
    <3>. QED
      BY <3>1 DEF LaneInt
  <2>. QED
    BY <1>0, <1>2, <2>3 DEF LaneOf, LaneSet, k
<1>. QED
  BY <1>1, <1>2

\* va, vs and vm give a vector of the same kind (lib.rs b_vbinop).
LEMMA VbinopIs ==
  ASSUME NEW op \in {"va", "vs", "vm"}, NEW a \in Values, NEW b \in Values
  PROVE  /\ Fine(b_vbinop(op, a, b))
         /\ ~Faulted(b_vbinop(op, a, b)) =>
               /\ a[1] = "vec" /\ b[1] = "vec" /\ a[2].name = b[2].name
               /\ b_vbinop(op, a, b) =
                     VecV(a[2].name, [i \in DOMAIN a[2].lanes |->
                                        LaneOf(op, VecKinds[a[2].name], a[2].lanes[i], b[2].lanes[i])])
<1>1. CASE a[1] # "vec" \/ b[1] # "vec" \/ a[2].name # b[2].name
  <2>1. b_vbinop(op, a, b) = Fault("TYPE_MISMATCH")
    BY <1>1 DEF b_vbinop
  <2>. QED
    BY <2>1, MadeValue DEF Faulted, Fault
<1>2. CASE a[1] = "vec" /\ b[1] = "vec" /\ a[2].name = b[2].name
  <2>1. a[2] \in Vecs /\ b[2] \in Vecs
    BY <1>2, ValueIs
  <2>2. PICK name \in DOMAIN VecKinds : name = a[2].name
    BY <2>1, VecIs
  <2> DEFINE c == VecKinds[name].count
             S == LaneSet(VecKinds[name])
             l == [i \in DOMAIN a[2].lanes |-> LaneOf(op, VecKinds[name], a[2].lanes[i], b[2].lanes[i])]
  <2>3. a[2].lanes \in [1..c -> S] /\ b[2].lanes \in [1..c -> S]
    BY <1>2, <2>1, <2>2, VecIs
  <2>4. b_vbinop(op, a, b) = VecV(name, l)
    BY <1>2, <2>2 DEF b_vbinop, LaneOf
  <2>5. \A i \in 1..c : LaneOf(op, VecKinds[name], a[2].lanes[i], b[2].lanes[i]) \in S
    BY <2>3, LaneOps
  <2>6. DOMAIN a[2].lanes = 1..c
    BY <2>3
  <2>7. l \in [1..c -> S]
    BY <2>5, <2>6
  <2>. HIDE DEF l
  <2>8. VecV(name, l) \in Values
    BY <2>7, VecMade
  <2>. QED
    BY <1>2, <2>2, <2>4, <2>8 DEF Fine, l
<1>. QED
  BY <1>1, <1>2

NextFloat(d, k, s) == FAdd(s, d[k])
FloatAt(u, d, k) == IF k = 0 THEN signed_zero(FALSE) ELSE NextFloat(d, k, u[k - 1])
NextSum(d, k, s) == add(s, from_i64(d[k]))
SumAt(u, d, k) == IF k = 0 THEN zero ELSE NextSum(d, k, u[k - 1])

\* The sum of float lanes, from the first on.
LEMMA FloatSumIs ==
  ASSUME NEW d \in Seq(Floats)
  PROVE  \E f : /\ FloatSum(d) = f[Len(d)] /\ f[0] = signed_zero(FALSE)
                /\ \A k \in 1..Len(d) : f[k] = NextFloat(d, k, f[k - 1])
                /\ \A k \in 0..Len(d) : f[k] \in Floats
<1> DEFINE n == Len(d)
           E == [z \in (1..n) \X Floats |-> NextFloat(d, z[1], z[2])]
           Fits(u) == u = [k \in 0..n |-> FloatAt(u, d, k)]
           chosen == CHOOSE u : Fits(u)
<1>0. n \in Nat /\ signed_zero(FALSE) \in Floats
  <2>1. Len(d) \in Nat
    OBVIOUS
  <2>2. FALSE \in BOOLEAN
    OBVIOUS
  <2>. QED
    BY <2>1, <2>2, MadeFloat
<1>1. \A k \in 1..n, s \in Floats : NextFloat(d, k, s) \in Floats
  <2>1. \A k \in 1..Len(d) : d[k] \in Floats
    OBVIOUS
  <2>. QED
    BY <2>1, FAddIs DEF NextFloat
<1>. HIDE DEF n
<1>2. E \in [(1..n) \X Floats -> Floats] /\ \A k \in 1..n, s \in Floats : E[<<k, s>>] = NextFloat(d, k, s)
  <2>1. \A z \in (1..n) \X Floats : z[1] \in 1..n /\ z[2] \in Floats
    OBVIOUS
  <2>2. \A k \in 1..n, s \in Floats : <<k, s>> \in (1..n) \X Floats /\ <<k, s>>[1] = k /\ <<k, s>>[2] = s
    OBVIOUS
  <2>3. E \in [(1..n) \X Floats -> Floats]
    BY <1>1, <2>1
  <2>4. \A k \in 1..n, s \in Floats : E[<<k, s>>] = NextFloat(d, k, s)
    BY <2>2
  <2>. QED
    BY <2>3, <2>4
<1>3. \E u : Fits(u)
  <2>. HIDE DEF E
  <2>1. PICK f : Loops(f, Floats, signed_zero(FALSE), E, n)
    BY <1>0, <1>2, LoopExists
  <2>2. f \in [0..n -> Floats] /\ f[0] = signed_zero(FALSE) /\ \A k \in 1..n : f[k] = E[<<k, f[k - 1]>>]
    BY <2>1 DEF Loops
  <2>3. \A k \in 1..n : f[k - 1] \in Floats
    <3>1. \A k \in 1..n : k - 1 \in 0..n
      BY <1>0
    <3>. QED
      BY <2>2, <3>1
  <2>4. \A k \in 1..n : f[k] = NextFloat(d, k, f[k - 1])
    BY <1>2, <2>2, <2>3
  <2>5. \A k \in 0..n : f[k] = FloatAt(f, d, k)
    <3> SUFFICES ASSUME NEW k \in 0..n PROVE f[k] = FloatAt(f, d, k)
      OBVIOUS
    <3>1. CASE k = 0
      BY <2>2, <3>1 DEF FloatAt, NextFloat
    <3>2. CASE k # 0
      <4>1. k \in 1..n
        BY <1>0, <3>2
      <4>. QED
        BY <2>4, <3>2, <4>1 DEF FloatAt, NextFloat
    <3>. QED
      BY <3>1, <3>2
  <2>. QED
    BY <2>2, <2>5
<1>4. Fits(chosen)
  BY <1>3
<1>5. FloatSum(d) = chosen[n]
  BY DEF FloatSum, FloatAt, NextFloat, n
<1>. HIDE DEF chosen
<1>6. chosen[0] = signed_zero(FALSE) /\ \A k \in 1..n : chosen[k] = NextFloat(d, k, chosen[k - 1])
  <2>1. 0 \in 0..n /\ \A k \in 1..n : k \in 0..n /\ k # 0
    BY <1>0
  <2>2. \A k \in 0..n : chosen[k] = FloatAt(chosen, d, k)
    BY <1>4
  <2>3. chosen[0] = signed_zero(FALSE)
    BY <2>1, <2>2 DEF FloatAt, NextFloat
  <2>4. ASSUME NEW k \in 1..n PROVE chosen[k] = NextFloat(d, k, chosen[k - 1])
    BY <2>1, <2>2 DEF FloatAt, NextFloat
  <2>. QED
    BY <2>3, <2>4
<1>7. \A k \in 0..n : chosen[k] \in Floats
  <2>1. \A k \in 1..n : chosen[k - 1] \in Floats => chosen[k] \in Floats
    BY <1>1, <1>6
  <2>. QED
    BY <1>0, <1>6, <2>1, LoopTyped
<1>. QED
  BY <1>5, <1>6, <1>7 DEF n

\* The sum of integer lanes.
LEMMA BigSumIs ==
  ASSUME NEW d \in Seq(Machine)
  PROVE  \E f : /\ BigSum(d) = f[Len(d)] /\ f[0] = zero
                /\ \A k \in 1..Len(d) : f[k] = NextSum(d, k, f[k - 1])
                /\ \A k \in 0..Len(d) : f[k] \in Bigs
<1> DEFINE n == Len(d)
           E == [z \in (1..n) \X Bigs |-> NextSum(d, z[1], z[2])]
           Fits(u) == u = [k \in 0..n |-> SumAt(u, d, k)]
           chosen == CHOOSE u : Fits(u)
<1>0. n \in Nat /\ zero \in Bigs
  <2>1. Len(d) \in Nat
    OBVIOUS
  <2>. QED
    BY <2>1, ZeroIs
<1>1. \A k \in 1..n, s \in Bigs : NextSum(d, k, s) \in Bigs
  <2>1. \A k \in 1..Len(d) : d[k] \in MinInt..MaxInt
    <3>1. \A S : \A s \in Seq(S) : \A k \in 1..Len(s) : s[k] \in S
      OBVIOUS
    <3>2. \A k \in 1..Len(d) : d[k] \in Machine
      BY <3>1
    <3>. QED
      BY <3>2 DEF Machine
  <2>. QED
    BY <2>1, FromMachine, AddIs DEF NextSum
<1>. HIDE DEF n
<1>2. E \in [(1..n) \X Bigs -> Bigs] /\ \A k \in 1..n, s \in Bigs : E[<<k, s>>] = NextSum(d, k, s)
  <2>1. \A z \in (1..n) \X Bigs : z[1] \in 1..n /\ z[2] \in Bigs
    OBVIOUS
  <2>2. \A k \in 1..n, s \in Bigs : <<k, s>> \in (1..n) \X Bigs /\ <<k, s>>[1] = k /\ <<k, s>>[2] = s
    OBVIOUS
  <2>3. E \in [(1..n) \X Bigs -> Bigs]
    BY <1>1, <2>1
  <2>4. \A k \in 1..n, s \in Bigs : E[<<k, s>>] = NextSum(d, k, s)
    BY <2>2
  <2>. QED
    BY <2>3, <2>4
<1>3. \E u : Fits(u)
  <2>. HIDE DEF E
  <2>1. PICK f : Loops(f, Bigs, zero, E, n)
    BY <1>0, <1>2, LoopExists
  <2>2. f \in [0..n -> Bigs] /\ f[0] = zero /\ \A k \in 1..n : f[k] = E[<<k, f[k - 1]>>]
    BY <2>1 DEF Loops
  <2>3. \A k \in 1..n : f[k - 1] \in Bigs
    <3>1. \A k \in 1..n : k - 1 \in 0..n
      BY <1>0
    <3>. QED
      BY <2>2, <3>1
  <2>4. \A k \in 1..n : f[k] = NextSum(d, k, f[k - 1])
    BY <1>2, <2>2, <2>3
  <2>5. \A k \in 0..n : f[k] = SumAt(f, d, k)
    <3> SUFFICES ASSUME NEW k \in 0..n PROVE f[k] = SumAt(f, d, k)
      OBVIOUS
    <3>1. CASE k = 0
      BY <2>2, <3>1 DEF SumAt, NextSum
    <3>2. CASE k # 0
      <4>1. k \in 1..n
        BY <1>0, <3>2
      <4>. QED
        BY <2>4, <3>2, <4>1 DEF SumAt, NextSum
    <3>. QED
      BY <3>1, <3>2
  <2>. QED
    BY <2>2, <2>5
<1>4. Fits(chosen)
  BY <1>3
<1>5. BigSum(d) = chosen[n]
  BY DEF BigSum, SumAt, NextSum, n
<1>. HIDE DEF chosen
<1>6. chosen[0] = zero /\ \A k \in 1..n : chosen[k] = NextSum(d, k, chosen[k - 1])
  <2>1. 0 \in 0..n /\ \A k \in 1..n : k \in 0..n /\ k # 0
    BY <1>0
  <2>2. \A k \in 0..n : chosen[k] = SumAt(chosen, d, k)
    BY <1>4
  <2>3. chosen[0] = zero
    BY <2>1, <2>2 DEF SumAt, NextSum
  <2>4. ASSUME NEW k \in 1..n PROVE chosen[k] = NextSum(d, k, chosen[k - 1])
    BY <2>1, <2>2 DEF SumAt, NextSum
  <2>. QED
    BY <2>3, <2>4
<1>7. \A k \in 0..n : chosen[k] \in Bigs
  <2>1. \A k \in 1..n : chosen[k - 1] \in Bigs => chosen[k] \in Bigs
    BY <1>1, <1>6
  <2>. QED
    BY <1>0, <1>6, <2>1, LoopTyped
<1>. QED
  BY <1>5, <1>6, <1>7 DEF n

\* vh gives a value, or faults (lib.rs b_vsum).
LEMMA VsumFine ==
  ASSUME NEW a \in Values
  PROVE  Fine(b_vsum(a))
<1>1. CASE a[1] # "vec"
  <2>1. b_vsum(a) = Fault("TYPE_MISMATCH")
    BY <1>1 DEF b_vsum
  <2>. QED
    BY <2>1, MadeValue
<1>2. CASE a[1] = "vec"
  <2>1. PICK d \in Seq(LaneSet(VecKinds[a[2].name])) : d = a[2].lanes
    BY <1>2, ValueIs, VecIs
  <2>2. Len(d) \in Nat /\ Len(d) \in 0..Len(d)
    OBVIOUS
  <2>3. CASE VecKinds[a[2].name].is_float
    <3>1. d \in Seq(Floats)
      BY <2>3 DEF LaneSet
    <3>2. FloatSum(d) \in Floats
      <4>1. PICK f : FloatSum(d) = f[Len(d)] /\ \A k \in 0..Len(d) : f[k] \in Floats
        BY <3>1, FloatSumIs
      <4>. QED
        BY <2>2, <4>1
    <3>3. b_vsum(a) = num_result(FloatSum(d))
      BY <1>2, <2>1, <2>3 DEF b_vsum
    <3>. QED
      BY <3>2, <3>3, NumResultIs DEF Fine
  <2>4. CASE ~VecKinds[a[2].name].is_float
    <3>1. d \in Seq(Machine)
      BY <2>4 DEF LaneSet
    <3>2. PICK t \in Bigs : t = BigSum(d)
      <4>1. PICK f : BigSum(d) = f[Len(d)] /\ \A k \in 0..Len(d) : f[k] \in Bigs
        BY <3>1, BigSumIs
      <4>. QED
        BY <2>2, <4>1
    <3>3. b_vsum(a) = IF to_i64(t) = None THEN BigV(t) ELSE Int_(to_i64(t))
      BY <1>2, <2>1, <2>4, <3>2 DEF b_vsum
    <3>4. to_i64(t) # None => to_i64(t) \in Machine
      BY ToI64Is, IntOfIs, FitMachine
    <3>. QED
      BY <3>3, <3>4, MadeValue DEF Fine
  <2>. QED
    BY <2>3, <2>4
<1>. QED
  BY <1>1, <1>2

\* at gives a lane, or faults (lib.rs b_vat).
LEMMA VatFine ==
  ASSUME NEW a \in Values, NEW idx \in Values
  PROVE  Fine(b_vat(a, idx))
<1>1. CASE pop_intish(idx) = None \/ a[1] # "vec"
  <2>1. b_vat(a, idx) = Fault("TYPE_MISMATCH")
    BY <1>1 DEF b_vat
  <2>. QED
    BY <2>1, MadeValue
<1>2. CASE pop_intish(idx) # None /\ a[1] = "vec"
  <2>1. PICK x \in Bigs : x = pop_intish(idx)
    BY <1>2, IntishIs
  <2>2. PICK d \in Seq(LaneSet(VecKinds[a[2].name])) : d = a[2].lanes
    BY <1>2, ValueIs, VecIs
  <2>3. CASE to_i64(x) = None
    <3>1. b_vat(a, idx) = Fault("BOUNDS")
      BY <1>2, <2>1, <2>3 DEF b_vat
    <3>. QED
      BY <3>1, MadeValue
  <2>4. CASE to_i64(x) # None
    <3>1. PICK i \in Int : i = to_i64(x)
      BY <2>4, ToI64Is, IntOfIs
    <3>2. b_vat(a, idx) = IF i < 0 \/ i >= Len(d) THEN Fault("BOUNDS")
                          ELSE IF VecKinds[a[2].name].is_float THEN Float(d[i + 1]) ELSE Int_(d[i + 1])
      BY <1>2, <2>1, <2>2, <2>4, <3>1 DEF b_vat
    <3>3. ~(i < 0 \/ i >= Len(d)) => d[i + 1] \in LaneSet(VecKinds[a[2].name])
      OBVIOUS
    <3>4. CASE i < 0 \/ i >= Len(d)
      BY <3>2, <3>4, MadeValue
    <3>5. CASE ~(i < 0 \/ i >= Len(d)) /\ VecKinds[a[2].name].is_float
      <4>1. d[i + 1] \in Floats
        BY <3>3, <3>5 DEF LaneSet
      <4>. QED
        BY <3>2, <3>5, <4>1, MadeValue DEF Fine
    <3>6. CASE ~(i < 0 \/ i >= Len(d)) /\ ~VecKinds[a[2].name].is_float
      <4>1. d[i + 1] \in Machine
        BY <3>3, <3>6 DEF LaneSet
      <4>. QED
        BY <3>2, <3>6, <4>1, MadeValue DEF Fine
    <3>. QED
      BY <3>4, <3>5, <3>6
  <2>. QED
    BY <2>3, <2>4
<1>. QED
  BY <1>1, <1>2

-----------------------------------------------------------------------------
(* Arithmetic words leave a value, or fault.                               *)

\* The words on Gaussian ints and the sign of a decimal (exact.rs).
LEMMA CxFine ==
  ASSUME NEW x \in Machine \X Machine, NEW y \in Machine \X Machine
  PROVE  /\ \A sign \in {1, -1} : Fine(cx_add(x, y, sign))
         /\ Fine(cx_mul(x, y)) /\ Fine(cx_neg(x))
<1>1. \A m, n \in Int : Fine(CxFit(m, n))
  <2> SUFFICES ASSUME NEW m \in Int, NEW n \in Int PROVE Fine(CxFit(m, n))
    OBVIOUS
  <2>1. CASE fit(m) /\ fit(n)
    <3>1. CxV(m, n) \in Values
      BY <2>1, FitMachine, MadeValue
    <3>. QED
      BY <2>1, <3>1 DEF CxFit, Fine
  <2>2. CASE ~(fit(m) /\ fit(n))
    BY <2>2, MadeValue DEF CxFit
  <2>. QED
    BY <2>1, <2>2
<1>2. x[1] \in Int /\ x[2] \in Int /\ y[1] \in Int /\ y[2] \in Int
  BY MachineIs DEF Machine
<1>3. PICK p \in Int, q \in Int, r \in Int, s \in Int : p = x[1] /\ q = x[2] /\ r = y[1] /\ s = y[2]
  BY <1>2
<1>4. p * r \in Int /\ q * s \in Int /\ p * s \in Int /\ q * r \in Int
  OBVIOUS
<1>5. p * r - q * s \in Int /\ p * s + q * r \in Int /\ -p \in Int /\ -q \in Int
  BY <1>4
<1>6. \A sign \in {1, -1} : p + sign * r \in Int /\ q + sign * s \in Int
  OBVIOUS
<1>. QED
  BY <1>1, <1>3, <1>5, <1>6 DEF cx_add, cx_mul, cx_neg

LEMMA DecNegFine ==
  ASSUME NEW x \in Decs
  PROVE  Fine(dec_neg(x))
<1>1. PICK m \in Int, s \in 0..ScaleMax : m = x[1] /\ s = x[2]
  BY DecIsPair
<1>2. dec_neg(x) = IF fit(-m) THEN DecV(-m, s) ELSE Fault("OVERFLOW")
  BY <1>1 DEF dec_neg
<1>3. fit(-m) => DecV(-m, s) \in Values
  BY FitMachine, MadeValue
<1>. QED
  BY <1>2, <1>3, MadeValue DEF Fine

\* cx of two ints.
LEMMA CxWordFine ==
  ASSUME NEW a \in Values, NEW b \in Values
  PROVE  Fine(b_cx(a, b))
<1>1. a[1] = "int" /\ b[1] = "int" => CxV(a[2], b[2]) \in Values
  BY ValueIs, MadeValue
<1>. QED
  BY <1>1, MadeValue DEF b_cx, Fine

\* A number that is not a float is an exact integer.
LEMMA ExactNum ==
  ASSUME NEW v \in Values, is_num(v), ~is_float(v)
  PROVE  ExactInt(v)
<1>1. v[1] \in {"int", "big"}
  BY DEF is_num, is_float
<1>. QED
  BY <1>1, ValueIs DEF ExactInt

\* The result of integer arithmetic is a value, or does not fit (lib.rs exact_result).
LEMMA ExactFine ==
  ASSUME NEW x \in Bigs, NEW big \in BOOLEAN
  PROVE  Fine(exact_result(big, x))
BY FitFine, MadeValue DEF exact_result, Fine

\* The float of a number, or the fault, and what the float words make of two.
LEMMA FloatOperand ==
  ASSUME NEW v \in Values, is_num(v)
  PROVE  \/ Faulted(to_float(v)) /\ Fine(to_float(v))
         \/ ~Faulted(to_float(v)) /\ to_float(v)[2] \in Floats
            /\ (~num_is_zero(v) => ~IsZero(to_float(v)[2]))
<1>1. v \in Nums
  BY NumValue
<1>. QED
  BY <1>1, ToFloatIs DEF Fine, Faulted

LEMMA FloatBinop ==
  ASSUME NEW a \in Values, NEW b \in Values, is_num(a), is_num(b), is_float(a) \/ is_float(b),
         NEW which \in {"Add", "Sub", "Mul"}
  PROVE  Fine(num_binop(a, b, which))
<1> DEFINE x == to_float(a)
           y == to_float(b)
           f == CASE which = "Add" -> FAdd(x[2], y[2])
                  [] which = "Sub" -> FAdd(x[2], FNeg(y[2]))
                  [] which = "Mul" -> FMul(x[2], y[2])
<1>1. num_binop(a, b, which) = IF Faulted(x) THEN x ELSE IF Faulted(y) THEN y ELSE Float(f)
  BY DEF num_binop, OnFloats, Both
<1>. HIDE DEF x, y
<1>2. CASE Faulted(x)
  BY <1>1, <1>2, FloatOperand DEF x
<1>3. CASE ~Faulted(x) /\ Faulted(y)
  BY <1>1, <1>3, FloatOperand DEF y
<1>4. CASE ~Faulted(x) /\ ~Faulted(y)
  <2>1. PICK u \in Floats, w \in Floats : u = x[2] /\ w = y[2]
    BY <1>4, FloatOperand DEF x, y
  <2>2. FAdd(u, w) \in Floats /\ FAdd(u, FNeg(w)) \in Floats /\ FMul(u, w) \in Floats
    BY FAddIs, FMulIs, FNegIs
  <2>3. f \in Floats
    BY <2>1, <2>2
  <2>. HIDE DEF f
  <2>. QED
    BY <1>1, <1>4, <2>3, MadeValue DEF Fine
<1>. QED
  BY <1>2, <1>3, <1>4

LEMMA BinopFine ==
  ASSUME NEW a \in Values, NEW b \in Values
  PROVE  Fine(op_add(a, b)) /\ Fine(op_sub(a, b)) /\ Fine(op_mul(a, b))
<1>0. None \notin Int
  BY ValueAssumption
<1>1. CASE ~pop_arith(a, b)
  <2>1. /\ op_add(a, b) = Fault("TYPE_MISMATCH") /\ op_sub(a, b) = Fault("TYPE_MISMATCH")
        /\ op_mul(a, b) = Fault("TYPE_MISMATCH")
    <3>1. (a[1] = "dc" /\ b[1] = "dc") \/ (a[1] = "cx" /\ b[1] = "cx") \/ (is_num(a) /\ is_num(b)) => pop_arith(a, b)
      BY DEF pop_arith, is_exact
    <3>. QED
      BY <1>1, <3>1 DEF op_add, op_sub, op_mul
  <2>. QED
    BY <2>1, MadeValue
<1>2. CASE a[1] = "dc" /\ b[1] = "dc"
  <2>1. a[2] \in Decs /\ b[2] \in Decs
    BY <1>2, ValueIs
  <2>2. pop_arith(a, b) /\ ~is_num(a)
    BY <1>2 DEF pop_arith, is_exact, is_num
  <2>3. /\ op_add(a, b) = dec_add(a[2], b[2], 1) /\ op_sub(a, b) = dec_add(a[2], b[2], -1)
        /\ op_mul(a, b) = dec_mul(a[2], b[2])
    BY <1>2, <2>2 DEF op_add, op_sub, op_mul
  <2>4. 1 \in {1, -1} /\ -1 \in {1, -1}
    OBVIOUS
  <2>5. \A d \in Decs : \A r : r = Fault("OVERFLOW") \/ (r = DecV(d[1], d[2])) => Fine(r)
    <3> SUFFICES ASSUME NEW d \in Decs PROVE \A r : r = Fault("OVERFLOW") \/ (r = DecV(d[1], d[2])) => Fine(r)
      OBVIOUS
    <3>1. DecV(d[1], d[2]) \in Values
      BY DecIsPair, MadeValue
    <3>. QED
      BY <3>1, MadeValue DEF Fine
  <2>6. \A s \in {1, -1} : Fine(dec_add(a[2], b[2], s))
    <3> SUFFICES ASSUME NEW s \in {1, -1} PROVE Fine(dec_add(a[2], b[2], s))
      OBVIOUS
    <3> DEFINE r == dec_add(a[2], b[2], s)
    <3>1. r = Fault("OVERFLOW") \/ \E c, k : r = DecV(c, k)
      BY DEF dec_add
    <3>2. r = Fault("OVERFLOW") \/ r[2] \in Decs
      BY <2>1, DecAddIs
    <3>. HIDE DEF r
    <3>3. ASSUME NEW c, NEW k, r = DecV(c, k), r # Fault("OVERFLOW") PROVE Fine(r)
      <4>1. <<c, k>> \in Decs
        BY <3>2, <3>3 DEF DecV
      <4>. QED
        BY <2>5, <3>3, <4>1
    <3>. QED
      BY <3>1, <3>3, MadeValue DEF r
  <2>7. Fine(dec_mul(a[2], b[2]))
    <3> DEFINE r == dec_mul(a[2], b[2])
    <3>1. r = Fault("OVERFLOW") \/ \E c, k : r = DecV(c, k)
      BY DEF dec_mul
    <3>2. r = Fault("OVERFLOW") \/ r[2] \in Decs
      BY <2>1, DecMulIs
    <3>. HIDE DEF r
    <3>3. ASSUME NEW c, NEW k, r = DecV(c, k), r # Fault("OVERFLOW") PROVE Fine(r)
      <4>1. <<c, k>> \in Decs
        BY <3>2, <3>3 DEF DecV
      <4>. QED
        BY <2>5, <3>3, <4>1
    <3>. QED
      BY <3>1, <3>3, MadeValue DEF r
  <2>. QED
    BY <2>3, <2>4, <2>6, <2>7
<1>3. CASE a[1] = "cx" /\ b[1] = "cx"
  <2>1. a[2] \in Machine \X Machine /\ b[2] \in Machine \X Machine
    BY <1>3, ValueIs
  <2>2. pop_arith(a, b) /\ ~is_num(a)
    BY <1>3 DEF pop_arith, is_exact, is_num
  <2>3. /\ op_add(a, b) = cx_add(a[2], b[2], 1) /\ op_sub(a, b) = cx_add(a[2], b[2], -1)
        /\ op_mul(a, b) = cx_mul(a[2], b[2])
    BY <1>3, <2>2 DEF op_add, op_sub, op_mul
  <2>4. 1 \in {1, -1} /\ -1 \in {1, -1}
    OBVIOUS
  <2>. QED
    BY <2>1, <2>3, <2>4, CxFine
<1>4. CASE is_num(a) /\ is_num(b)
  <2>1. pop_arith(a, b) /\ a[1] # "dc" /\ a[1] # "cx"
    BY <1>4 DEF pop_arith, is_num
  <2>2. /\ op_add(a, b) = num_binop(a, b, "Add") /\ op_sub(a, b) = num_binop(a, b, "Sub")
        /\ op_mul(a, b) = num_binop(a, b, "Mul")
    BY <1>4, <2>1 DEF op_add, op_sub, op_mul
  <2>3. CASE is_float(a) \/ is_float(b)
    BY <1>4, <2>2, <2>3, FloatBinop
  <2>4. CASE ~is_float(a) /\ ~is_float(b)
    <3>1. ExactInt(a) /\ ExactInt(b)
      BY <1>4, <2>4, ExactNum
    <3>2. to_bigint(a) \in Bigs /\ to_bigint(b) \in Bigs /\ Kind(a, b) \in BOOLEAN
      BY <3>1, ToBigintIs DEF Kind, is_big
    <3>3. /\ add(to_bigint(a), to_bigint(b)) \in Bigs /\ sub(to_bigint(a), to_bigint(b)) \in Bigs
          /\ mul(to_bigint(a), to_bigint(b)) \in Bigs
      BY <3>2, AddIs, SubIs, MulIs
    <3>. QED
      BY <1>0, <3>1, <3>2, <3>3, BinopIs, ExactFine
  <2>. QED
    BY <2>3, <2>4
<1>5. pop_arith(a, b) => \/ a[1] = "dc" /\ b[1] = "dc"
                         \/ a[1] = "cx" /\ b[1] = "cx"
                         \/ is_num(a) /\ is_num(b)
  BY DEF pop_arith, is_exact
<1>. QED
  BY <1>1, <1>2, <1>3, <1>4, <1>5

-----------------------------------------------------------------------------
(* Division, roots and powers leave a value, or fault.                     *)

LEMMA DividesFine ==
  ASSUME NEW a, NEW b, NEW other, is_num(a) /\ is_num(b) /\ ~num_is_zero(b) => Fine(other)
  PROVE  Fine(Divides(a, b, other))
<1>1. CASE ~is_num(a) \/ ~is_num(b)
  <2>1. Divides(a, b, other) = Fault("TYPE_MISMATCH")
    BY <1>1 DEF Divides
  <2>. QED
    BY <2>1, MadeValue
<1>2. CASE is_num(a) /\ is_num(b) /\ num_is_zero(b)
  <2>1. Divides(a, b, other) = Fault("DIV_ZERO")
    BY <1>2 DEF Divides
  <2>. QED
    BY <2>1, MadeValue
<1>3. CASE is_num(a) /\ is_num(b) /\ ~num_is_zero(b)
  <2>1. Divides(a, b, other) = other
    BY <1>3 DEF Divides
  <2>. QED
    BY <1>3, <2>1
<1>. QED
  BY <1>1, <1>2, <1>3

LEMMA DivFine ==
  ASSUME NEW a \in Values, NEW b \in Values
  PROVE  Fine(op_div(a, b))
<1> DEFINE x == to_float(a)
           y == to_float(b)
           qr == divmod_floor(to_bigint(a), to_bigint(b))
           f == true_div_f64(to_bigint(a), to_bigint(b))
           big == is_big(a) \/ is_big(b)
           floats == IF Faulted(x) THEN x ELSE IF Faulted(y) THEN y ELSE num_result(FDiv(x[2], y[2]))
           exact == IF is_zero(qr[2]) THEN exact_result(big, qr[1])
                    ELSE IF f = None THEN Fault("OVERFLOW") ELSE Float(f)
           other == IF is_float(a) \/ is_float(b) THEN floats ELSE exact
<1>1. op_div(a, b) = Divides(a, b, other)
  BY DEF op_div, OnFloats, Both
<1>2. ASSUME is_num(a), is_num(b), ~num_is_zero(b) PROVE Fine(other)
  <2>1. CASE is_float(a) \/ is_float(b)
    <3>1. CASE Faulted(x)
      BY <1>2, <2>1, <3>1, FloatOperand
    <3>2. CASE ~Faulted(x) /\ Faulted(y)
      BY <1>2, <2>1, <3>2, FloatOperand
    <3>3. CASE ~Faulted(x) /\ ~Faulted(y)
      <4>1. x[2] \in Floats /\ y[2] \in Floats /\ ~IsZero(y[2])
        BY <1>2, <3>3, FloatOperand
      <4>2. FDiv(x[2], y[2]) \in Floats
        BY <4>1, FDivIs
      <4>. QED
        BY <2>1, <3>3, <4>2, NumResultIs DEF Fine
    <3>. QED
      BY <3>1, <3>2, <3>3
  <2>2. CASE ~is_float(a) /\ ~is_float(b)
    <3>1. to_bigint(a) \in Bigs /\ to_bigint(b) \in Bigs /\ big \in BOOLEAN
      BY <1>2, <2>2, ExactNum, ToBigintIs DEF is_big
    <3>2. qr \in Bigs \X Bigs /\ f \in Floats \cup {None}
      BY <3>1, DivModFloorIs, TrueDivIs DEF Maybe
    <3>3. qr[1] \in Bigs /\ (f # None => Float(f) \in Values)
      BY <3>2, MadeValue
    <3>4. Fine(exact_result(big, qr[1]))
      BY <3>1, <3>3, ExactFine
    <3>. HIDE DEF qr, f, big
    <3>5. Fine(exact)
      BY <3>3, <3>4, MadeValue DEF Fine
    <3>. QED
      BY <2>2, <3>5
  <2>. QED
    BY <2>1, <2>2
<1>. HIDE DEF other
<1>. QED
  BY <1>1, <1>2, DividesFine

LEMMA ModFine ==
  ASSUME NEW a \in Values, NEW b \in Values
  PROVE  Fine(op_mod(a, b))
<1> DEFINE x == to_float(a)
           y == to_float(b)
           r == divmod_floor(to_bigint(a), to_bigint(b))[2]
           big == is_big(a) \/ is_big(b)
           floats == IF Faulted(x) THEN x ELSE IF Faulted(y) THEN y ELSE Float(py_mod_f64(x[2], y[2]))
           other == IF is_float(a) \/ is_float(b) THEN floats ELSE exact_result(big, r)
<1>1. op_mod(a, b) = Divides(a, b, other)
  BY DEF op_mod, OnFloats, Both
<1>2. ASSUME is_num(a), is_num(b), ~num_is_zero(b) PROVE Fine(other)
  <2>1. CASE is_float(a) \/ is_float(b)
    <3>1. CASE Faulted(x)
      BY <1>2, <2>1, <3>1, FloatOperand
    <3>2. CASE ~Faulted(x) /\ Faulted(y)
      BY <1>2, <2>1, <3>2, FloatOperand
    <3>3. CASE ~Faulted(x) /\ ~Faulted(y)
      <4>1. x[2] \in Floats /\ y[2] \in Floats /\ ~IsZero(y[2])
        BY <1>2, <3>3, FloatOperand
      <4>2. py_mod_f64(x[2], y[2]) \in Floats
        BY <4>1, PyModIs
      <4>. QED
        BY <2>1, <3>3, <4>2, MadeValue DEF Fine
    <3>. QED
      BY <3>1, <3>2, <3>3
  <2>2. CASE ~is_float(a) /\ ~is_float(b)
    <3>1. to_bigint(a) \in Bigs /\ to_bigint(b) \in Bigs /\ big \in BOOLEAN
      BY <1>2, <2>2, ExactNum, ToBigintIs DEF is_big
    <3>2. divmod_floor(to_bigint(a), to_bigint(b)) \in Bigs \X Bigs
      BY <3>1, DivModFloorIs
    <3>3. r \in Bigs
      BY <3>2
    <3>4. Fine(exact_result(big, r))
      BY <3>1, <3>3, ExactFine
    <3>. QED
      BY <2>2, <3>4
  <2>. QED
    BY <2>1, <2>2
<1>. HIDE DEF other
<1>. QED
  BY <1>1, <1>2, DividesFine

\* _ and ab on any value.
LEMMA SignFine ==
  ASSUME NEW a \in Values
  PROVE  Fine(op_neg(a)) /\ Fine(b_abs(a))
<1>1. CASE a[1] = "dc"
  <2>1. a[2] \in Decs /\ op_neg(a) = dec_neg(a[2]) /\ b_abs(a) = Fault("TYPE_MISMATCH")
    BY <1>1, ValueIs DEF op_neg, b_abs
  <2>. QED
    BY <2>1, DecNegFine, MadeValue
<1>2. CASE a[1] = "cx"
  <2>1. a[2] \in Machine \X Machine /\ op_neg(a) = cx_neg(a[2]) /\ b_abs(a) = Fault("TYPE_MISMATCH")
    BY <1>2, ValueIs DEF op_neg, b_abs
  <2>. QED
    BY <2>1, CxFine, MadeValue
<1>3. CASE a[1] = "big"
  <2>1. a[2] \in Bigs /\ op_neg(a) = BigV(neg_(a[2])) /\ b_abs(a) = BigV(abs(a[2]))
    BY <1>3, ValueIs DEF op_neg, b_abs
  <2>2. neg_(a[2]) \in Bigs /\ abs(a[2]) \in Bigs
    BY <2>1, NegIs, AbsNat, NatIs
  <2>. QED
    BY <2>1, <2>2, MadeValue DEF Fine
<1>4. CASE a[1] = "float"
  <2>1. a[2] \in Floats /\ op_neg(a) = Float(FNeg(a[2])) /\ b_abs(a) = Float([a[2] EXCEPT !.neg = FALSE])
    BY <1>4, ValueIs DEF op_neg, b_abs
  <2>2. FNeg(a[2]) \in Floats /\ [a[2] EXCEPT !.neg = FALSE] \in Floats
    BY <2>1, FNegIs
  <2>. QED
    BY <2>1, <2>2, MadeValue DEF Fine
<1>5. CASE a[1] = "int"
  <2>1. a[2] \in Machine /\ op_neg(a) = fit_int(neg_(from_i64(a[2]))) /\ b_abs(a) = fit_int(abs(from_i64(a[2])))
    BY <1>5, ValueIs DEF op_neg, b_abs
  <2>2. from_i64(a[2]) \in Bigs
    BY <2>1, FromMachine DEF Machine
  <2>3. neg_(from_i64(a[2])) \in Bigs /\ abs(from_i64(a[2])) \in Bigs
    BY <2>2, NegIs, AbsNat, NatIs
  <2>. QED
    BY <2>1, <2>3, FitFine
<1>6. CASE a[1] \notin {"dc", "cx", "big", "float", "int"}
  <2>1. op_neg(a) = Fault("TYPE_MISMATCH") /\ b_abs(a) = Fault("TYPE_MISMATCH")
    BY <1>6 DEF op_neg, b_abs
  <2>. QED
    BY <2>1, MadeValue
<1>. QED
  BY <1>1, <1>2, <1>3, <1>4, <1>5, <1>6

\* A conversion to a float keeps the sign it is given.
LEMMA SignKept ==
  ASSUME NEW q, NEW scale, NEW sticky, NEW neg \in BOOLEAN
  PROVE  f64_from_scaled(q, scale, sticky, neg) = None \/ f64_from_scaled(q, scale, sticky, neg).neg = neg
<1>1. \A m, e : Finite(neg, m, e).neg = neg
  BY DEF Finite
<1>2. signed_zero(neg).neg = neg
  BY <1>1 DEF signed_zero
<1>3. \A mant, exp, lost : Packed(neg, mant, exp, lost) = None \/ Packed(neg, mant, exp, lost).neg = neg
  <2> SUFFICES ASSUME NEW mant, NEW exp, NEW lost
               PROVE  Packed(neg, mant, exp, lost) = None \/ Packed(neg, mant, exp, lost).neg = neg
    OBVIOUS
  <2>1. \/ Packed(neg, mant, exp, lost) = None
        \/ Packed(neg, mant, exp, lost) = signed_zero(neg)
        \/ \E m, e : Packed(neg, mant, exp, lost) = Finite(neg, m, e)
    <3>1. CASE exp > EMax
      BY <3>1, Zenon DEF Packed
    <3>2. CASE ~(exp > EMax) /\ exp < MinExp
      BY <3>2, Zenon DEF Packed
    <3>3. CASE ~(exp > EMax) /\ ~(exp < MinExp) /\ exp >= EMin
      <4>1. Packed(neg, mant, exp, lost) = Finite(neg, mant, exp - (Prec - 1))
        BY <3>3, Zenon DEF Packed
      <4>. QED
        BY <4>1, Zenon
    <3>4. CASE ~(exp > EMax) /\ ~(exp < MinExp) /\ ~(exp >= EMin)
      <4>1. \E m, e : Packed(neg, mant, exp, lost) = Finite(neg, m, e)
        BY <3>4, Zenon DEF Packed
      <4>. QED
        BY <4>1, Zenon
    <3>. QED
      BY <3>1, <3>2, <3>3, <3>4, Zenon
  <2>. QED
    BY <1>1, <1>2, <2>1, Zenon
<1>4. \A mant, exp, bit1, st : Rounded(neg, mant, exp, bit1, st) = None \/ Rounded(neg, mant, exp, bit1, st).neg = neg
  BY <1>3, Zenon DEF Rounded
<1>5. \A top : ScaledFrom(q, top, scale, sticky, neg) = None \/ ScaledFrom(q, top, scale, sticky, neg).neg = neg
  BY <1>4 DEF ScaledFrom
<1>. QED
  BY <1>2, <1>5 DEF f64_from_scaled

LEMMA FloatSign ==
  ASSUME NEW x \in Bigs
  PROVE  to_f64(x) = None \/ to_f64(x).neg = x.neg
<1>1. x.neg \in BOOLEAN /\ one.neg = FALSE
  <2>1. ~one.neg /\ one.neg \in BOOLEAN
    BY OneIs, IntOfIs, BigIs
  <2>. QED
    BY <2>1, BigIs
<1>2. PICK neg \in BOOLEAN : neg = (x.neg # one.neg)
  OBVIOUS
<1>3. neg = x.neg
  BY <1>1, <1>2
<1>4. signed_zero(neg).neg = neg
  BY DEF signed_zero, Finite
<1>5. \A qr, s : OfQuotient(qr, s, neg) = None \/ OfQuotient(qr, s, neg).neg = neg
  BY SignKept DEF OfQuotient
<1>6. \A a, b, s : DivScaled(a, b, s, neg) = None \/ DivScaled(a, b, s, neg).neg = neg
  BY <1>5 DEF DivScaled
<1>7. \A a, b, e : DivAbs(a, b, e, neg) = None \/ DivAbs(a, b, e, neg).neg = neg
  BY <1>4, <1>6, Zenon DEF DivAbs
<1>. QED
  BY <1>2, <1>3, <1>7 DEF to_f64, true_div_f64

\* sq of any value (lib.rs b_sqrt).
LEMMA SqrtFine ==
  ASSUME NEW a \in Values
  PROVE  Fine(b_sqrt(a))
<1>1. CASE ~is_num(a)
  <2>1. b_sqrt(a) = Fault("TYPE_MISMATCH")
    BY <1>1 DEF b_sqrt, is_num
  <2>. QED
    BY <2>1, MadeValue
<1>2. CASE a[1] = "big"
  <2>1. PICK n \in Bigs : n = a[2]
    BY <1>2, ValueIs
  <2>2. is_num(a)
    BY <1>2 DEF is_num
  <2> DEFINE r == isqrt(n)
             f == to_float(a)
  <2>3. b_sqrt(a) = IF n.neg THEN Fault("UB_TRAP") ELSE IF mul(r, r) = n THEN BigV(r)
                    ELSE IF Faulted(f) THEN f ELSE num_result(FSqrt(f[2]))
    BY <1>2, <2>1, <2>2 DEF b_sqrt
  <2>4. CASE n.neg
    BY <2>3, <2>4, MadeValue
  <2>5. CASE ~n.neg
    <3>1. r \in Bigs
      BY <2>5, IsqrtTyped, NatIs DEF Nats
    <3>2. f = FloatOr(to_f64(n), "OVERFLOW")
      BY <1>2, <2>1 DEF to_float
    <3>3. Faulted(f) \/ (~Faulted(f) /\ f[2] \in Floats /\ ~Below0(f[2]))
      <4>1. CASE to_f64(n) = None
        BY <3>2, <4>1 DEF FloatOr, Faulted, Fault
      <4>2. CASE to_f64(n) # None
        <5>1. f = Float(to_f64(n)) /\ to_f64(n) \in Floats /\ to_f64(n).neg = n.neg
          BY <3>2, <4>2, FloatSign, ToF64Is DEF FloatOr, Maybe
        <5>2. f[1] = "float" /\ f[2] = to_f64(n)
          BY <5>1 DEF Float
        <5>3. ~Below0(f[2])
          BY <2>5, <5>1, <5>2 DEF Below0
        <5>. QED
          BY <5>1, <5>2, <5>3 DEF Faulted
      <4>. QED
        BY <4>1, <4>2
    <3>4. ~Faulted(f) => num_result(FSqrt(f[2])) \in Values
      BY <3>3, FSqrtIs, NumResultIs
    <3>. HIDE DEF r, f
    <3>5. CASE mul(r, r) = n
      BY <2>3, <2>5, <3>1, <3>5, MadeValue DEF Fine
    <3>6. CASE mul(r, r) # n /\ Faulted(f)
      BY <2>3, <2>5, <3>6 DEF Fine, Faulted
    <3>7. CASE mul(r, r) # n /\ ~Faulted(f)
      BY <2>3, <2>5, <3>4, <3>7 DEF Fine
    <3>. QED
      BY <3>5, <3>6, <3>7
  <2>. QED
    BY <2>4, <2>5
<1>3. CASE a[1] \in {"int", "float"}
  <2>1. is_num(a) /\ a[1] # "big"
    BY <1>3 DEF is_num
  <2>2. b_sqrt(a) = IF Below0(to_float(a)[2]) THEN Fault("UB_TRAP") ELSE num_result(FSqrt(to_float(a)[2]))
    BY <1>3, <2>1 DEF b_sqrt
  <2>3. to_float(a)[2] \in Floats
    <3>1. CASE a[1] = "int"
      <4>1. a[2] \in Int
        BY <3>1, ValueIs, MachineIs DEF Machine
      <4>2. to_float(a) = Float(IntToFloat(a[2]))
        BY <3>1 DEF to_float
      <4>. QED
        BY <4>1, <4>2, IntToFloatIs DEF Float
    <3>2. CASE a[1] = "float"
      BY <3>2, ValueIs DEF to_float
    <3>. QED
      BY <1>3, <3>1, <3>2
  <2>4. ~Below0(to_float(a)[2]) => num_result(FSqrt(to_float(a)[2])) \in Values
    BY <2>3, FSqrtIs, NumResultIs
  <2>. QED
    BY <2>2, <2>4, MadeValue DEF Fine
<1>4. is_num(a) => a[1] \in {"big", "int", "float"}
  BY DEF is_num
<1>. QED
  BY <1>1, <1>2, <1>3, <1>4

\* What the machine's powf may give is a float.
LEMMA AllFloatsAre == AllFloats \subseteq Floats
<1>1. \A neg \in BOOLEAN, s \in Mags : FromMag(neg, s) \in Floats
  BY MagsAre, FromMagIs
<1>2. NaN \in Floats
  BY MadeFloat
<1>. QED
  BY <1>1, <1>2 DEF AllFloats

\* The exponent of an exact power, when it fits half an int.
LEMMA ToU32Typed ==
  ASSUME NEW x \in Bigs
  PROVE  to_u32(x) = None \/ to_u32(x) \in Nat
<1>1. 1 \in Nat \ {0}
  OBVIOUS
<1>2. limb(x, 1) \in Limb
  BY <1>1, LimbIs
<1>. QED
  BY <1>2, BaseIs DEF to_u32, Limb

LEMMA PowBigFine ==
  ASSUME NEW base \in Bigs, NEW ev \in Bigs
  PROVE  Fine(pow_big(base, ev))
<1>1. one \in Bigs /\ zero \in Bigs
  BY OneIs, ZeroIs
<1>2. BigV(one) \in Values /\ BigV(zero) \in Values /\ BigV(base) \in Values
  BY <1>1, MadeValue
<1>3. CASE is_zero(ev) \/ base = one
  BY <1>2, <1>3 DEF pow_big, Fine
<1>4. CASE ~(is_zero(ev) \/ base = one) /\ is_zero(base)
  <2>1. pow_big(base, ev) = BigV(zero)
    <3>1. base # from_i64(-1)
      <4>1. IntOf(base) = 0
        BY <1>4, IntOfIs
      <4>2. IntOf(from_i64(-1)) = -1
        BY MinusOne
      <4>. QED
        BY <4>1, <4>2
    <3>. QED
      BY <1>4, <3>1 DEF pow_big
  <2>. QED
    BY <1>2, <2>1 DEF Fine
<1>5. CASE ~(is_zero(ev) \/ base = one) /\ ~is_zero(base) /\ base = from_i64(-1)
  <2>1. pow_big(base, ev) = BigV(IF exp_is_odd(ev) THEN base ELSE one)
    BY <1>5 DEF pow_big
  <2>. QED
    BY <1>2, <2>1 DEF Fine
<1>6. CASE ~(is_zero(ev) \/ base = one) /\ ~is_zero(base) /\ base # from_i64(-1)
  <2>1. pow_big(base, ev) = IF to_u32(ev) = None THEN Fault("OVERFLOW") ELSE BigV(pow_u32(base, to_u32(ev)))
    BY <1>6 DEF pow_big
  <2>2. to_u32(ev) # None => BigV(pow_u32(base, to_u32(ev))) \in Values
    BY ToU32Typed, PowU32Is, MadeValue
  <2>. QED
    BY <2>1, <2>2, MadeValue DEF Fine
<1>. QED
  BY <1>3, <1>4, <1>5, <1>6

-----------------------------------------------------------------------------
(* Powers and comparisons leave a value, or fault.                         *)

\* pw of floats: what powf may give, as a number (lib.rs b_pow).
LEMMA PowFloatFine ==
  ASSUME NEW a \in Values, NEW e \in Values, is_num(a), is_num(e), NEW r \in pow_float(a, e)
  PROVE  Fine(r)
<1> DEFINE fa == to_float(a)
           fe == to_float(e)
           some == {num_result(f) : f \in powf(fa[2], fe[2])}
<1>1. pow_float(a, e) = IF Faulted(fa) THEN {fa} ELSE IF Faulted(fe) THEN {fe}
                        ELSE IF Below0(fa[2]) /\ ~IsWhole(fe[2]) THEN {Fault("UB_TRAP")}
                        ELSE IF IsZero(fa[2]) /\ Below0(fe[2]) THEN {Fault("DIV_ZERO")} ELSE some
  BY DEF pow_float
<1>2. \A s \in some : Fine(s)
  BY AllFloatsAre, NumResultIs DEF powf, Fine
<1>. HIDE DEF fa, fe, some
<1>3. r \in some \/ r = Fault("UB_TRAP") \/ r = Fault("DIV_ZERO") \/ (r = fa /\ Faulted(fa)) \/ (r = fe /\ Faulted(fe))
  BY <1>1
<1>. QED
  BY <1>2, <1>3, MadeValue DEF Fine, Faulted

\* pw with a negative exponent.
LEMMA PowNegFine ==
  ASSUME NEW a \in Values, is_num(a), NEW ev, NEW r \in pow_neg_exp(a, ev)
  PROVE  Fine(r)
<1> DEFINE fa == to_float(a)
           sign == Below0(fa[2]) /\ exp_is_odd(ev)
           some == {num_result(IF sign THEN FNeg(f) ELSE f) : f \in {g \in powf(fa[2], to_f64(ev)) : ~g.neg}}
<1>1. pow_neg_exp(a, ev) = IF is_zero(to_bigint(a)) THEN {Fault("DIV_ZERO")}
                           ELSE IF Faulted(fa) THEN {fa}
                           ELSE IF to_f64(ev) = None THEN {Float(signed_zero(sign))} ELSE some
  BY DEF pow_neg_exp
<1>2. \A s \in some : Fine(s)
  <2> SUFFICES ASSUME NEW f \in AllFloats PROVE Fine(num_result(IF sign THEN FNeg(f) ELSE f))
    BY DEF powf
  <2>1. f \in Floats /\ FNeg(f) \in Floats
    BY AllFloatsAre, FNegIs
  <2>. QED
    BY <2>1, NumResultIs DEF Fine
<1>3. Fine(Float(signed_zero(sign)))
  <2>1. sign \in BOOLEAN
    OBVIOUS
  <2>2. signed_zero(sign) \in Floats
    BY <2>1, MadeFloat
  <2>. QED
    BY <2>2, MadeValue DEF Fine
<1>. HIDE DEF fa, some, sign
<1>4. r \in some \/ r = Fault("DIV_ZERO") \/ (r = fa /\ Faulted(fa)) \/ r = Float(signed_zero(sign))
  BY <1>1
<1>. QED
  BY <1>2, <1>3, <1>4, MadeValue DEF Fine, Faulted

LEMMA PowDueTyped == \A m \in Int, n \in Nat : PowDue(m, n) \in Int
BY PowerNext DEF PowDue

\* The three kinds of powers.
LEMMA PowKinds ==
  ASSUME NEW a, NEW e
  PROVE  /\ ~is_num(a) \/ ~is_num(e) => b_pow(a, e) = {Fault("TYPE_MISMATCH")}
         /\ is_num(a) /\ is_num(e) /\ (is_float(a) \/ is_float(e)) => b_pow(a, e) = pow_float(a, e)
         /\ is_num(a) /\ is_num(e) /\ ~is_float(a) /\ ~is_float(e) =>
               b_pow(a, e) = IF to_bigint(e).neg THEN pow_neg_exp(a, to_bigint(e))
                             ELSE IF is_big(a) \/ is_big(e) THEN {pow_big(to_bigint(a), to_bigint(e))}
                             ELSE {pow_int(a[2], e[2])}
BY DEF b_pow

LEMMA PowFine ==
  ASSUME NEW a \in Values, NEW e \in Values, NEW r \in b_pow(a, e)
  PROVE  Fine(r)
<1>1. CASE ~is_num(a) \/ ~is_num(e)
  <2>1. b_pow(a, e) = {Fault("TYPE_MISMATCH")}
    <3>1. (is_float(a) => is_num(a)) /\ (is_float(e) => is_num(e))
      BY DEF is_float, is_num
    <3>. QED
      BY <1>1, <3>1, PowKinds
  <2>. QED
    BY <2>1, MadeValue
<1>2. CASE is_num(a) /\ is_num(e) /\ (is_float(a) \/ is_float(e))
  <2>1. b_pow(a, e) = pow_float(a, e)
    BY <1>2, PowKinds
  <2>. QED
    BY <1>2, <2>1, PowFloatFine
<1>3. CASE is_num(a) /\ is_num(e) /\ ~is_float(a) /\ ~is_float(e)
  <2>0. None \notin Int
    BY ValueAssumption
  <2>1. ExactInt(a) /\ ExactInt(e)
    BY <1>3, ExactNum
  <2>2. PICK x \in Bigs, ev \in Bigs : x = to_bigint(a) /\ ev = to_bigint(e) /\ IntOf(ev) = Value(e)
    BY <2>1, ToBigintIs
  <2>3. b_pow(a, e) = IF ev.neg THEN pow_neg_exp(a, ev)
                      ELSE IF is_big(a) \/ is_big(e) THEN {pow_big(x, ev)} ELSE {pow_int(a[2], e[2])}
    BY <1>3, <2>2, PowKinds
  <2>4. CASE ev.neg
    BY <1>3, <2>3, <2>4, PowNegFine
  <2>5. CASE ~ev.neg /\ (is_big(a) \/ is_big(e))
    BY <2>3, <2>5, PowBigFine
  <2>6. CASE ~ev.neg /\ ~is_big(a) /\ ~is_big(e)
    <3>1. a[2] \in Machine /\ e[2] \in Machine /\ Value(e) = e[2]
      BY <2>1, <2>6 DEF ExactInt, is_big, Value
    <3>2. e[2] \in Nat
      <4>1. PICK n \in Int : n = e[2] /\ IntOf(ev) = n
        BY <2>2, <3>1, IntOfIs
      <4>2. ~(n < 0)
        BY <2>6, <4>1, IntOfIs
      <4>. QED
        BY <4>1, <4>2
    <3>3. r = Due(FALSE, PowDue(a[2], e[2]))
      BY <2>0, <2>3, <2>6, <3>1, <3>2, PowIntIs
    <3>4. PowDue(a[2], e[2]) \in Int
      <4>1. a[2] \in Int
        BY <3>1, MachineIs DEF Machine
      <4>. QED
        BY <3>2, <4>1, PowDueTyped
    <3>5. fit(PowDue(a[2], e[2])) => <<"int", PowDue(a[2], e[2])>> \in Values
      BY <3>4, FitMachine, MadeValue DEF Int_
    <3>. QED
      BY <3>3, <3>5, MadeValue DEF Due, Fine
  <2>. QED
    BY <2>4, <2>5, <2>6
<1>. QED
  BY <1>1, <1>2, <1>3

\* A comparison gives 0 or 1.
LEMMA TruthFine == \A t : Fine(Truth(t))
<1>1. 0 \in Machine /\ 1 \in Machine
  <2>1. 0 \in Int /\ 1 \in Int
    OBVIOUS
  <2>. QED
    BY <2>1, SmallInts, FitMachine
<1>2. Int_(0) \in Values /\ Int_(1) \in Values
  BY <1>1, MadeValue
<1>. QED
  BY <1>2 DEF Truth, Fine

LEMMA RelFine == \A op, a, b : Fine(rel_bool(op, a, b))
BY TruthFine, MadeValue DEF rel_bool

-----------------------------------------------------------------------------
(* Every stack of the specification holds values.                          *)

\* The words on one operand.
LEMMA UnaryFine ==
  ASSUME NEW op \in UnaryWords, NEW a \in Values, op = "s" => a[1] \in {"int", "big", "dc"}
  PROVE  Fine(Unary(op, a))
<1>1. CASE op \in {"_", "ab", "sq"}
  <2>1. Unary(op, a) \in {op_neg(a), b_abs(a), b_sqrt(a)}
    BY <1>1 DEF Unary
  <2>. QED
    BY <2>1, SignFine, SqrtFine
<1>2. CASE op \in {"fl", "ce", "rd"}
  <2>1. Unary(op, a) = b_roundish(op, a)
    BY <1>2 DEF Unary
  <2>. QED
    BY <1>2, <2>1, RoundishFine
<1>3. CASE op \in {"n", "b", "dc", "vh"}
  <2>1. Unary(op, a) \in {b_to_num(a), b_big(a), b_dc(a), b_vsum(a)}
    BY <1>3 DEF Unary
  <2>. QED
    BY <2>1, ToNumFine, BigWordFine, DecWordFine, VsumFine
<1>4. CASE op = "!"
  <2>1. Unary(op, a) = Truth(~truthy(a))
    BY <1>4 DEF Unary
  <2>. QED
    BY <2>1, TruthFine
<1>5. CASE op = "s"
  <2>1. Unary(op, a) = b_to_str(a)
    BY <1>5 DEF Unary
  <2>. QED
    BY <1>5, <2>1, ToStrFine
<1>. QED
  BY <1>1, <1>2, <1>3, <1>4, <1>5 DEF UnaryWords

\* The words on two.
LEMMA BinaryFine ==
  ASSUME NEW op \in BinaryWords, NEW a \in Values, NEW b \in Values, NEW r \in Binary(op, a, b)
  PROVE  Fine(r)
<1>1. CASE op \in {"+", "-", "*"}
  <2>1. r \in {op_add(a, b), op_sub(a, b), op_mul(a, b)}
    BY <1>1 DEF Binary, Rels
  <2>. QED
    BY <2>1, BinopFine
<1>2. CASE op \in {"/", "%"}
  <2>1. r \in {op_div(a, b), op_mod(a, b)}
    BY <1>2 DEF Binary, Rels
  <2>. QED
    BY <2>1, DivFine, ModFine
<1>3. CASE op = "pw"
  <2>1. r \in b_pow(a, b)
    BY <1>3 DEF Binary, Rels
  <2>. QED
    BY <2>1, PowFine
<1>4. CASE op \in Rels
  <2>1. op \notin {"+", "-", "*", "/", "%", "pw", "&&", "||", "wr", "st", "ck", "cx", "va", "vs", "vm", "at"}
    BY <1>4 DEF Rels
  <2>2. r = rel_bool(op, a, b)
    BY <1>4, <2>1 DEF Binary
  <2>. QED
    BY <2>2, RelFine
<1>5. CASE op \in {"&&", "||"}
  <2>1. r \in {Truth(truthy(a) /\ truthy(b)), Truth(truthy(a) \/ truthy(b))}
    BY <1>5 DEF Binary, Rels
  <2>. QED
    BY <2>1, TruthFine
<1>6. CASE op \in {"wr", "st", "ck"}
  <2>1. r = b_policy(op, a, b)
    BY <1>6 DEF Binary, Rels
  <2>. QED
    BY <1>6, <2>1, PolicyFine
<1>7. CASE op \in {"cx", "at"}
  <2>1. r \in {b_cx(a, b), b_vat(a, b)}
    BY <1>7 DEF Binary, Rels
  <2>. QED
    BY <2>1, CxWordFine, VatFine
<1>8. CASE op \in {"va", "vs", "vm"}
  <2>1. r = b_vbinop(op, a, b)
    BY <1>8 DEF Binary, Rels
  <2>. QED
    BY <1>8, <2>1, VbinopIs
<1>. QED
  BY <1>1, <1>2, <1>3, <1>4, <1>5, <1>6, <1>7, <1>8 DEF BinaryWords

\* A value is pushed, or the program ends.
LEMMA OutcomeTyped ==
  ASSUME NEW rest \in Seq(Values), NEW r, Fine(r), Outcome(rest, r)
  PROVE  stack' \in Seq(Values)
<1>1. CASE Faulted(r)
  <2>1. stack' = <<>>
    BY <1>1 DEF Outcome
  <2>2. <<>> \in Seq(Values)
    OBVIOUS
  <2>. QED
    BY <2>1, <2>2
<1>2. CASE ~Faulted(r)
  <2>1. stack' = Append(rest, r) /\ r \in Values
    BY <1>2 DEF Outcome, Fine, Faulted
  <2>2. \A S : \A s \in Seq(S), v \in S : Append(s, v) \in Seq(S)
    OBVIOUS
  <2>. QED
    BY <2>1, <2>2
<1>. QED
  BY <1>1, <1>2

\* Every value on the stack is one the words are about, and stays one: each word
\* gives a value or faults, whatever the widths of the instance (lib.rs, value.rs,
\* exact.rs, bigint.rs of zown-vm).
THEOREM TypeCorrect == Spec => []TypeOK
<1>1. Init => TypeOK
  <2>1. <<>> \in Seq(Values)
    OBVIOUS
  <2>. QED
    BY <2>1 DEF Init, TypeOK
<1>2. TypeOK /\ [Next]_vars => TypeOK'
  <2> SUFFICES ASSUME stack \in Seq(Values), [Next]_vars PROVE stack' \in Seq(Values)
    BY DEF TypeOK
  <2>0. \A S : \A s \in Seq(S), v \in S : Append(s, v) \in Seq(S)
    OBVIOUS
  <2>1. CASE Push
    <3>1. PICK v \in Literals : stack' = Append(stack, v)
      BY <2>1 DEF Push
    <3>2. v \in Values
      BY ValueAssumption
    <3>. QED
      BY <2>0, <3>1, <3>2
  <2>2. CASE b_width
    <3>1. PICK signed \in BOOLEAN, bits \in WidthBits : stack' = Append(stack, Width(signed, bits))
      BY <2>2 DEF b_width
    <3>2. Width(signed, bits) \in Values
      BY MadeValue
    <3>. QED
      BY <2>0, <3>1, <3>2
  <2>3. CASE b_vec
    <3>1. PICK name \in DOMAIN VecKinds, produced \in Blocks : Outcome(stack, build_vec(name, produced))
      BY <2>3 DEF b_vec
    <3>2. produced \in Seq(Values)
      BY ValueAssumption
    <3>3. Fine(build_vec(name, produced))
      BY <3>2, BuildFine
    <3>. QED
      BY <3>1, <3>3, OutcomeTyped
  <2>4. CASE Word1
    <3>1. PICK op \in UnaryWords : /\ op = "s" => Last(stack)[1] \in {"int", "big", "dc"}
                                   /\ Outcome(Front(stack), Unary(op, Last(stack)))
      BY <2>4 DEF Word1
    <3>2. stack # <<>>
      BY <2>4 DEF Word1
    <3>3. \A S : \A s \in Seq(S) : s # <<>> => s[Len(s)] \in S /\ SubSeq(s, 1, Len(s) - 1) \in Seq(S)
      OBVIOUS
    <3>4. Last(stack) \in Values /\ Front(stack) \in Seq(Values)
      BY <3>2, <3>3 DEF Last, Front
    <3>5. Fine(Unary(op, Last(stack)))
      BY <3>1, <3>4, UnaryFine
    <3>. QED
      BY <3>1, <3>4, <3>5, OutcomeTyped
  <2>5. CASE Word2
    <3>1. PICK op \in BinaryWords : \E r \in Binary(op, stack[1], stack[2]) : Outcome(<<>>, r)
      BY <2>5 DEF Word2
    <3>2. PICK r \in Binary(op, stack[1], stack[2]) : Outcome(<<>>, r)
      BY <3>1
    <3>3. Len(stack) = 2
      BY <2>5 DEF Word2
    <3>4. stack[1] \in Values /\ stack[2] \in Values
      BY <3>3
    <3>5. Fine(r)
      BY <3>4, BinaryFine
    <3>6. <<>> \in Seq(Values)
      OBVIOUS
    <3>. QED
      BY <3>2, <3>5, <3>6, OutcomeTyped
  <2>6. CASE UNCHANGED vars
    BY <2>6 DEF vars
  <2>. QED
    BY <2>1, <2>2, <2>3, <2>4, <2>5, <2>6 DEF Next
<1>. QED
  BY <1>1, <1>2, PTL DEF Spec

-----------------------------------------------------------------------------
\* No number has two representations.
LEMMA BigCanonical == \A x \in Bigs : Canonical(x)
  BY DEF Canonical, Bigs, Last

\* The two operands of a full stack.
LEMMA Operands ==
  ASSUME stack \in Seq(Values)
  PROVE  /\ \A v \in Range(stack) : v \in Values
         /\ Len(stack) = 2 => stack[1] \in Values /\ stack[2] \in Values
  BY DEF Range

LEMMA ExactOperand ==
  ASSUME NEW v \in Values, IsExactInt(v)
  PROVE  ExactInt(v)
  BY ValueIs DEF IsExactInt, ExactInt

\* Integer arithmetic on limbs is integer arithmetic at every width of limb, int,
\* significand and decimal: + - * / % pw give the exact result, of the type the
\* operands decide, or OVERFLOW when a checked int cannot hold it (lib.rs
\* num_binop, op_div, op_mod, b_pow; exact.rs; bigint.rs).
THEOREM ExactArithmeticTheorem == Spec => []ExactArithmetic
<1>1. TypeOK => ExactArithmetic
  <2> SUFFICES ASSUME stack \in Seq(Values) PROVE ExactArithmetic
    BY DEF TypeOK
  <2>0. None \notin Int
    BY ValueAssumption
  <2>1. \A v \in Range(stack) : is_big(v) => Canonical(v[2])
    <3> SUFFICES ASSUME NEW v \in Values, is_big(v) PROVE Canonical(v[2])
      BY Operands
    <3>1. v[2] \in Bigs
      BY ValueIs DEF is_big
    <3>. QED
      BY <3>1, BigCanonical
  <2>2. ASSUME Len(stack) = 2
        PROVE  LET a == stack[1]
                   b == stack[2]
                   big == is_big(a) \/ is_big(b)
                   m == Value(a)
                   n == Value(b)
                   q == FloorDiv(m, n)
               IN  /\ IsExactInt(a) /\ IsExactInt(b) =>
                       /\ Given(op_add(a, b)) = Due(big, m + n)
                       /\ Given(op_sub(a, b)) = Due(big, m - n)
                       /\ Given(op_mul(a, b)) = Due(big, m * n)
                       /\ n # 0 => Given(op_mod(a, b)) = Due(big, m - n * q)
                       /\ n # 0 /\ m = n * q => Given(op_div(a, b)) = Due(big, q)
                       /\ n \in 0 .. Base - 1 =>
                            {Given(r) : r \in b_pow(a, b)} = {Due(big, IF n = 0 THEN 1 ELSE Power(m, n))}
                   /\ a[1] = "dc" /\ b[1] = "dc" =>
                       /\ DecIs(op_add(a, b), At(a[2]) + At(b[2]), 1)
                       /\ DecIs(op_sub(a, b), At(a[2]) - At(b[2]), 1)
                       /\ DecIs(op_mul(a, b), At(a[2]) * At(b[2]), pow10(2 * ScaleMax))
    <3>1. PICK a \in Values, b \in Values : a = stack[1] /\ b = stack[2]
      BY <2>2, Operands
    <3> DEFINE m == Value(a)
               n == Value(b)
               big == is_big(a) \/ is_big(b)
    <3>2. ASSUME IsExactInt(a), IsExactInt(b)
          PROVE  /\ Given(op_add(a, b)) = Due(big, m + n)
                 /\ Given(op_sub(a, b)) = Due(big, m - n)
                 /\ Given(op_mul(a, b)) = Due(big, m * n)
                 /\ n # 0 => Given(op_mod(a, b)) = Due(big, m - n * FloorDiv(m, n))
                 /\ n # 0 /\ m = n * FloorDiv(m, n) => Given(op_div(a, b)) = Due(big, FloorDiv(m, n))
                 /\ n \in 0 .. Base - 1 =>
                      {Given(r) : r \in b_pow(a, b)} = {Due(big, IF n = 0 THEN 1 ELSE Power(m, n))}
      <4>1. ExactInt(a) /\ ExactInt(b)
        BY <3>2, ExactOperand
      <4>2. big = Kind(a, b) /\ FloorDiv(m, n) = Quot(m, n) /\ PowDue(m, n) = IF n = 0 THEN 1 ELSE Power(m, n)
        BY DEF Kind, FloorDiv, Quot, PowDue
      <4>. HIDE DEF m, n, big
      <4>3. /\ Given(op_add(a, b)) = Due(big, m + n) /\ Given(op_sub(a, b)) = Due(big, m - n)
            /\ Given(op_mul(a, b)) = Due(big, m * n)
        BY <2>0, <4>1, <4>2, RingWords DEF m, n
      <4>4. /\ n # 0 => Given(op_mod(a, b)) = Due(big, m - n * Quot(m, n))
            /\ n # 0 /\ m = n * Quot(m, n) => Given(op_div(a, b)) = Due(big, Quot(m, n))
        BY <2>0, <4>1, <4>2, DivWords DEF m, n
      <4>5. n \in 0 .. Base - 1 => {Given(r) : r \in b_pow(a, b)} = {Due(big, PowDue(m, n))}
        BY <2>0, <4>1, <4>2, PowWord DEF m, n
      <4>. QED
        BY <4>2, <4>3, <4>4, <4>5
    <3>3. ASSUME a[1] = "dc", b[1] = "dc"
          PROVE  /\ DecIs(op_add(a, b), At(a[2]) + At(b[2]), 1)
                 /\ DecIs(op_sub(a, b), At(a[2]) - At(b[2]), 1)
                 /\ DecIs(op_mul(a, b), At(a[2]) * At(b[2]), pow10(2 * ScaleMax))
      BY <3>3, ValueIs, DecWords
    <3>. QED
      BY <3>1, <3>2, <3>3
  <2>. QED
    BY <2>1, <2>2, Zenon DEF ExactArithmetic
<1>. QED
  BY <1>1, TypeCorrect, PTL

-----------------------------------------------------------------------------
(* Widths hold.                                                            *)

\* The policy words on an integer and a width.
LEMMA PoliciesHold ==
  ASSUME NEW a \in Values, IsExactInt(a), NEW w \in Widths
  PROVE  LET n == Value(a)
             Got(op) == Given(b_policy(op, a, <<"width", w>>))
             inside == InWidth(n, w.signed, w.bits)
         IN  /\ Got("wr")[1] = KindOf(w) /\ InWidth(Got("wr")[2], w.signed, w.bits)
             /\ (Got("wr")[2] - n) % Power(2, w.bits) = 0
             /\ Got("st")[1] = KindOf(w) /\ InWidth(Got("st")[2], w.signed, w.bits)
             /\ inside => Got("st")[2] = n /\ Got("ck") = <<KindOf(w), n>>
             /\ ~inside => /\ Got("ck") = Fault("OVERFLOW")
                           /\ ~InWidth(Got("st")[2] + (IF n < 0 THEN -1 ELSE 1), w.signed, w.bits)
<1>1. ExactInt(a)
  BY ExactOperand
<1>2. PICK x \in Bigs, n \in Int : x = to_bigint(a) /\ n = Value(a) /\ IntOf(x) = n
  BY <1>1, ToBigintIs
<1>3. pop_intish(a) = x
  BY <1>1, <1>2, ToBigintIs DEF pop_intish
<1>4. PICK signed \in BOOLEAN, bits \in Nat \ {0} : signed = w.signed /\ bits = w.bits
  BY WidthIs
<1>5. PICK l \in Int, k \in Int : l = Lowest(signed, bits) /\ k = Highest(signed, bits) /\ l <= 0 /\ 0 <= k
  BY EndsAre
<1>6. \A m \in Int : InWidth(m, signed, bits) <=> l <= m /\ m <= k
  BY <1>5, EndsAre
<1> DEFINE Got(op) == Given(b_policy(op, a, <<"width", w>>))
<1>7. /\ Got("wr") = <<KindOf(w), wrap_i128(n, signed, bits)>>
      /\ Got("st") = <<KindOf(w), Nearby(n, l, k)>>
      /\ Got("ck") = IF InWidth(n, signed, bits) THEN <<KindOf(w), n>> ELSE Fault("OVERFLOW")
  <2>1. "wr" \in {"wr", "st", "ck"} /\ "st" \in {"wr", "st", "ck"} /\ "ck" \in {"wr", "st", "ck"}
    OBVIOUS
  <2>2. Got("wr") = <<KindOf(w), wrap_i128(IntOf(x), w.signed, w.bits)>>
    BY <1>3, <2>1, PolicyCases
  <2>3. Got("st") = <<KindOf(w), Nearby(IntOf(x), Lowest(w.signed, w.bits), Highest(w.signed, w.bits))>>
    BY <1>3, <2>1, PolicyCases
  <2>4. Got("ck") = IF InWidth(IntOf(x), w.signed, w.bits) THEN <<KindOf(w), IntOf(x)>> ELSE Fault("OVERFLOW")
    BY <1>3, <2>1, PolicyCases
  <2>. QED
    BY <1>2, <1>4, <1>5, <2>2, <2>3, <2>4
<1>. HIDE DEF Got
<1>8. /\ InWidth(wrap_i128(n, signed, bits), signed, bits)
      /\ (wrap_i128(n, signed, bits) - n) % Power(2, bits) = 0
  BY WrapRange
<1>9. PICK c \in Int : c = Nearby(n, l, k)
  BY <1>5 DEF Nearby
<1>10. PICK d \in Int : d = c + (IF n < 0 THEN -1 ELSE 1)
  OBVIOUS
<1>11. /\ l <= c /\ c <= k /\ (l <= n /\ n <= k => c = n)
       /\ ~(l <= n /\ n <= k) => ~(l <= d /\ d <= k)
  BY <1>5, <1>9, <1>10 DEF Nearby
<1>12. /\ InWidth(c, signed, bits) /\ (InWidth(n, signed, bits) => c = n)
       /\ ~InWidth(n, signed, bits) => ~InWidth(d, signed, bits)
  BY <1>6, <1>11
<1>13. Got("wr")[1] = KindOf(w) /\ Got("wr")[2] = wrap_i128(n, signed, bits) /\ Got("st")[1] = KindOf(w) /\ Got("st")[2] = c
  BY <1>7, <1>9
<1>14. /\ Got("wr")[1] = KindOf(w) /\ InWidth(Got("wr")[2], signed, bits)
       /\ (Got("wr")[2] - n) % Power(2, bits) = 0
       /\ Got("st")[1] = KindOf(w) /\ InWidth(Got("st")[2], signed, bits)
       /\ InWidth(n, signed, bits) => Got("st")[2] = n /\ Got("ck") = <<KindOf(w), n>>
       /\ ~InWidth(n, signed, bits) => /\ Got("ck") = Fault("OVERFLOW")
                                       /\ ~InWidth(Got("st")[2] + (IF n < 0 THEN -1 ELSE 1), signed, bits)
  BY <1>7, <1>8, <1>10, <1>12, <1>13
<1>. QED
  BY <1>2, <1>4, <1>14 DEF Got

\* The lane words on two vectors.
LEMMA LanesHold ==
  ASSUME NEW a \in Values, NEW b \in Values, a[1] = "vec", b[1] = "vec", NEW op \in {"va", "vs", "vm"}
  PROVE  LET r == b_vbinop(op, a, b)
             k == VecKinds[a[2].name]
         IN  ~Faulted(r) /\ ~k.is_float =>
               \A i \in DOMAIN r[2].lanes :
                   /\ InWidth(r[2].lanes[i], k.signed, k.bits)
                   /\ r[2].lanes[i] =
                        IntOf(wrap_width(LaneBig(op, from_i64(a[2].lanes[i]), from_i64(b[2].lanes[i])),
                                         k.signed, k.bits))
<1> DEFINE r == b_vbinop(op, a, b)
           k == VecKinds[a[2].name]
<1> SUFFICES ASSUME ~Faulted(r), ~k.is_float, NEW i \in DOMAIN r[2].lanes
             PROVE  /\ InWidth(r[2].lanes[i], k.signed, k.bits)
                    /\ r[2].lanes[i] =
                         IntOf(wrap_width(LaneBig(op, from_i64(a[2].lanes[i]), from_i64(b[2].lanes[i])),
                                          k.signed, k.bits))
  BY Zenon
<1> DEFINE l == [j \in DOMAIN a[2].lanes |-> LaneOf(op, k, a[2].lanes[j], b[2].lanes[j])]
<1>1. a[2].name = b[2].name /\ r = VecV(a[2].name, l)
  BY VbinopIs
<1>2. r[2].lanes = l
  BY <1>1 DEF VecV
<1>3. i \in DOMAIN a[2].lanes /\ r[2].lanes[i] = LaneOf(op, k, a[2].lanes[i], b[2].lanes[i])
  BY <1>2
<1>4. a[2] \in Vecs /\ b[2] \in Vecs
  BY ValueIs
<1>5. PICK name \in DOMAIN VecKinds : name = a[2].name /\ name = b[2].name
  BY <1>1, <1>4, VecIs
<1>6. a[2].lanes[i] \in LaneSet(k) /\ b[2].lanes[i] \in LaneSet(k)
  <2>1. /\ a[2].lanes \in [1..VecKinds[name].count -> LaneSet(VecKinds[name])]
        /\ b[2].lanes \in [1..VecKinds[name].count -> LaneSet(VecKinds[name])]
    BY <1>4, <1>5, VecIs
  <2>. QED
    BY <1>3, <1>5, <2>1
<1>. HIDE DEF r, k
<1>7. PICK x \in Machine, y \in Machine : x = a[2].lanes[i] /\ y = b[2].lanes[i]
  BY <1>6 DEF LaneSet
<1>8. x \in Int /\ y \in Int /\ x \in MinInt..MaxInt /\ y \in MinInt..MaxInt
  BY MachineIs DEF Machine
<1>9. k.signed \in BOOLEAN /\ k.bits \in Nat \ {0}
  BY <1>5, LaneFits DEF k
<1>10. PICK z \in Bigs : z = LaneBig(op, from_i64(x), from_i64(y)) /\ IntOf(z) = LaneInt(op, x, y)
  <2>1. PICK u \in Bigs, v \in Bigs : u = from_i64(x) /\ v = from_i64(y) /\ IntOf(u) = x /\ IntOf(v) = y
    BY <1>8, FromMachine
  <2>2. /\ add(u, v) \in Bigs /\ IntOf(add(u, v)) = x + y /\ sub(u, v) \in Bigs /\ IntOf(sub(u, v)) = x - y
        /\ mul(u, v) \in Bigs /\ IntOf(mul(u, v)) = x * y
    BY <2>1, AddIs, SubIs, MulIs
  <2>3. CASE op = "va"
    BY <2>1, <2>2, <2>3 DEF LaneBig, LaneInt
  <2>4. CASE op = "vs"
    BY <2>1, <2>2, <2>4 DEF LaneBig, LaneInt
  <2>5. CASE op = "vm"
    BY <2>1, <2>2, <2>5 DEF LaneBig, LaneInt
  <2>. QED
    BY <2>3, <2>4, <2>5
<1>11. IntOf(wrap_width(z, k.signed, k.bits)) = wrap_i128(LaneInt(op, x, y), k.signed, k.bits)
  BY <1>9, <1>10, WrapIs
<1>12. r[2].lanes[i] = wrap_i128(LaneInt(op, x, y), k.signed, k.bits)
  BY <1>3, <1>7 DEF LaneOf
<1>13. LaneInt(op, x, y) \in Int
  BY <1>10, IntOfIs
<1>14. InWidth(r[2].lanes[i], k.signed, k.bits)
  BY <1>9, <1>12, <1>13, WrapRange
<1>. QED
  BY <1>7, <1>10, <1>11, <1>12, <1>14

\* A policy word leaves a number of its width, congruent to the operand, the nearest
\* one or the operand itself, and integer lanes stay inside theirs and wrap as bigs
\* do, at every width (lib.rs b_policy, typed, b_vbinop; bigint.rs wrap_width).
THEOREM WidthsHoldTheorem == Spec => []WidthsHold
<1>1. TypeOK => WidthsHold
  <2> SUFFICES ASSUME stack \in Seq(Values), Len(stack) = 2 PROVE WidthsHold
    BY DEF TypeOK, WidthsHold
  <2>1. PICK a \in Values, b \in Values : a = stack[1] /\ b = stack[2]
    BY Operands
  <2>2. ASSUME IsExactInt(a), b[1] = "width"
        PROVE  PoliciesKeep(Given(b_policy("wr", a, b)), Given(b_policy("st", a, b)),
                            Given(b_policy("ck", a, b)), Value(a), b[2])
    <3>1. PICK w \in Widths : w = b[2] /\ b = <<"width", w>>
      BY <2>2, ValueIs
    <3>2. KindOf(w) = IF w.bits < IntBits \/ (w.signed /\ w.bits = IntBits) THEN "int" ELSE "big"
      BY DEF KindOf
    <3> DEFINE n == Value(a)
               wr == Given(b_policy("wr", a, b))
               st == Given(b_policy("st", a, b))
               ck == Given(b_policy("ck", a, b))
    <3>3. /\ wr = Given(b_policy("wr", a, <<"width", w>>)) /\ st = Given(b_policy("st", a, <<"width", w>>))
          /\ ck = Given(b_policy("ck", a, <<"width", w>>))
      BY <3>1
    <3>4. /\ wr[1] = KindOf(w) /\ InWidth(wr[2], w.signed, w.bits) /\ (wr[2] - n) % Power(2, w.bits) = 0
          /\ st[1] = KindOf(w) /\ InWidth(st[2], w.signed, w.bits)
          /\ InWidth(n, w.signed, w.bits) => st[2] = n /\ ck = <<KindOf(w), n>>
          /\ ~InWidth(n, w.signed, w.bits) => /\ ck = Fault("OVERFLOW")
                                              /\ ~InWidth(st[2] + (IF n < 0 THEN -1 ELSE 1), w.signed, w.bits)
      <4>. HIDE DEF wr, st, ck
      <4>. QED
        BY <2>2, <3>3, PoliciesHold
    <3>. HIDE DEF n, wr, st, ck
    <3>5. IF InWidth(n, w.signed, w.bits) THEN st[2] = n /\ ck = <<KindOf(w), n>>
          ELSE /\ ck = Fault("OVERFLOW")
               /\ ~InWidth(st[2] + (IF n < 0 THEN -1 ELSE 1), w.signed, w.bits)
      BY <3>4
    <3>6. PoliciesKeep(wr, st, ck, n, w)
      BY <3>2, <3>4, <3>5 DEF PoliciesKeep
    <3>. QED
      BY <3>1, <3>6 DEF n, wr, st, ck
  <2>3. ASSUME a[1] = "vec", b[1] = "vec"
        PROVE  \A op \in {"va", "vs", "vm"} :
                 LET r == b_vbinop(op, a, b)
                     k == VecKinds[a[2].name]
                 IN  ~Faulted(r) /\ ~k.is_float =>
                       \A i \in DOMAIN r[2].lanes :
                           /\ InWidth(r[2].lanes[i], k.signed, k.bits)
                           /\ r[2].lanes[i] =
                                IntOf(wrap_width(LaneBig(op, from_i64(a[2].lanes[i]), from_i64(b[2].lanes[i])),
                                                 k.signed, k.bits))
    BY <2>3, LanesHold, Zenon
  <2>. QED
    BY <2>1, <2>2, <2>3, Zenon DEF WidthsHold
<1>. QED
  BY <1>1, TypeCorrect, PTL

-----------------------------------------------------------------------------
(* The order of numbers.                                                   *)

LEMMA WeightOfExp ==
  ASSUME NEW f \in Floats
  PROVE  \E m \in Nat, e \in Int, r \in Nat \ {0} :
            /\ m = f.m /\ e = f.e /\ r = Power(2, e - MinExp) /\ Magnitude(Units(f)) = m * r
            /\ e >= 0 => Power(2, e) \in Nat \ {0} /\ r = Power(2, e) * One
            /\ e < 0 => Power(2, -e) \in Nat \ {0} /\ One = Power(2, -e) * r
<1>1. PICK m \in Nat, e \in Int : m = f.m /\ e = f.e /\ MinExp <= e /\ e - MinExp \in Nat
  <2>1. f.m \in Nat /\ f.e \in Int /\ f.e \in MinExp..EMax - (Prec - 1)
    BY FloatIs
  <2>2. MinExp <= f.e /\ f.e - MinExp \in Nat
    BY <2>1, ExponentsAre
  <2>. QED
    BY <2>1, <2>2
<1>2. PICK r \in Nat \ {0} : r = Power(2, e - MinExp)
  BY <1>1, HalfOf
<1>3. Magnitude(Units(f)) = m * r
  BY <1>1, <1>2, UnitsAre
<1>4. ASSUME e >= 0 PROVE Power(2, e) \in Nat \ {0} /\ r = Power(2, e) * One
  <2>1. e \in Nat /\ -MinExp \in Nat /\ e - MinExp = e + -MinExp /\ 2 \in Int
    BY <1>4, ExponentsAre
  <2>2. Power(2, e) \in Nat \ {0} /\ Power(2, e + -MinExp) = Power(2, e) * Power(2, -MinExp)
    BY <2>1, HalfOf, PowerAdd
  <2>. QED
    BY <1>2, <2>1, <2>2 DEF One
<1>5. ASSUME e < 0 PROVE Power(2, -e) \in Nat \ {0} /\ One = Power(2, -e) * r
  <2>1. PICK k \in Nat : k = -e /\ k <= -MinExp /\ -MinExp - k = e - MinExp
    BY <1>1, <1>5, ExponentsAre
  <2>2. Power(2, k) \in Nat \ {0} /\ One = Power(2, k) * Power(2, -MinExp - k)
    BY <2>1, OneSplits
  <2>. QED
    BY <1>2, <2>1, <2>2
<1>. QED
  BY <1>1, <1>2, <1>3, <1>4, <1>5

\* A whole float is the integer of its significand and exponent (bigint.rs from_f64_exact).
LEMMA FromExactIs ==
  ASSUME NEW f \in Floats, IsWhole(f)
  PROVE  /\ from_f64_exact(f) \in Bigs /\ IntOf(from_f64_exact(f)) \in Int
         /\ IntOf(from_f64_exact(f)) * One = Units(f)
<1>1. PICK m \in Nat, e \in Int, r \in Nat \ {0} :
        /\ m = f.m /\ e = f.e /\ r = Power(2, e - MinExp) /\ Magnitude(Units(f)) = m * r
        /\ e >= 0 => Power(2, e) \in Nat \ {0} /\ r = Power(2, e) * One
        /\ e < 0 => Power(2, -e) \in Nat \ {0} /\ One = Power(2, -e) * r
  BY WeightOfExp
<1>2. m < Base * Base
  <2>1. PICK P \in Nat : P = Power(2, Prec) /\ m \in 0..P - 1
    BY <1>1, FloatIs, OneUnit
  <2>2. Prec \in Nat /\ IntBits \in Nat /\ Prec <= IntBits
    BY WidthAssumption, IntSize
  <2>3. P <= Base * Base /\ Base * Base \in Nat
    BY <2>1, <2>2, PowerMono, IntSize
  <2>. QED
    BY <2>1, <2>3
<1>3. PICK b \in Bigs : b = from_u64(m) /\ IntOf(b) = m /\ ~b.neg
  BY <1>2, FromU64
<1>4. PICK w \in Nat \ {0} : w = One
  BY OneUnit
<1>5. \E y \in Bigs, n \in Nat : y = Moved(b, e) /\ Mag(y.d) = n /\ n * w = m * r
  <2>1. CASE e >= 0
    <3>1. PICK p \in Nat \ {0} : p = Power(2, e) /\ r = p * w
      BY <1>1, <1>4, <2>1
    <3>2. e \in Nat
      BY <2>1
    <3>3. PICK y \in Bigs : y = shl(b, e) /\ IntOf(y) = m * p /\ ~y.neg
      <4>1. shl(b, e) \in Bigs /\ IntOf(shl(b, e)) = IntOf(b) * Power(2, e) /\ shl(b, e).neg = b.neg
        BY <3>2, ShlIs
      <4>2. shl(b, e) \in Bigs /\ IntOf(shl(b, e)) = m * p /\ ~shl(b, e).neg
        BY <1>3, <3>1, <4>1
      <4>. QED
        BY <4>2
    <3>4. y = Moved(b, e) /\ Mag(y.d) = m * p
      BY <2>1, <3>3, IntOfIs DEF Moved, IntOf
    <3>5. m * p \in Nat /\ (m * p) * w = m * (p * w)
      OBVIOUS
    <3>. QED
      BY <3>1, <3>4, <3>5
  <2>2. CASE ~(e >= 0)
    <3>1. PICK k \in Nat : k = -e /\ e < 0
      BY <2>2
    <3>2. PICK p \in Nat \ {0} : p = Power(2, k) /\ w = p * r
      BY <1>1, <1>4, <3>1
    <3>3. m % p = 0
      BY <1>1, <2>2, <3>1, <3>2 DEF IsWhole
    <3>4. PICK n \in Nat : n = m \div p /\ m = p * n
      <4>1. m \div p \in Nat /\ m = p * (m \div p) + (m % p)
        BY QuotNat
      <4>2. p * (m \div p) \in Nat
        BY <4>1
      <4>. QED
        BY <3>3, <4>1, <4>2
    <3>5. b \in Nats
      BY <1>3, IsNat DEF Nats
    <3>6. PICK y \in Nats : y = shr(b, k) /\ IntOf(y) = n
      BY <1>3, <3>2, <3>4, <3>5, ShrIs
    <3>7. y \in Bigs /\ y = Moved(b, e) /\ Mag(y.d) = n
      <4>1. y \in Bigs /\ IntOf(y) = Mag(y.d)
        BY NatIs DEF Nats
      <4>2. y = Moved(b, e)
        BY <2>2, <3>1, <3>6 DEF Moved
      <4>. QED
        BY <3>6, <4>1, <4>2
    <3>8. n * (p * r) = (p * n) * r
      OBVIOUS
    <3>. QED
      BY <3>2, <3>4, <3>7, <3>8
  <2>. QED
    BY <2>1, <2>2
<1>6. PICK y \in Bigs, n \in Nat : y = Moved(b, e) /\ Mag(y.d) = n /\ n * w = m * r
  BY <1>5
<1>7. f.neg \in BOOLEAN
  BY FloatIs
<1>8. from_f64_exact(f) = Signed(f.neg, y)
  BY <1>1, <1>3, <1>6 DEF from_f64_exact
<1>9. from_f64_exact(f) \in Bigs /\ IntOf(from_f64_exact(f)) = IF f.neg THEN -n ELSE n
  BY <1>6, <1>7, <1>8, SignedIs
<1>10. Units(f) = IF f.neg THEN -(m * r) ELSE m * r
  BY <1>1, UnitsAre
<1>11. (-n) * w = -(n * w)
  OBVIOUS
<1>. QED
  BY <1>4, <1>6, <1>9, <1>10, <1>11

\* A float that is a whole number of ones is whole.
LEMMA UnitsWhole ==
  ASSUME NEW f \in Floats, f.kind = "finite", NEW q \in Int, Units(f) = q * One
  PROVE  IsWhole(f)
<1>1. PICK m \in Nat, e \in Int, r \in Nat \ {0} :
        /\ m = f.m /\ e = f.e /\ r = Power(2, e - MinExp) /\ Magnitude(Units(f)) = m * r
        /\ e >= 0 => Power(2, e) \in Nat \ {0} /\ r = Power(2, e) * One
        /\ e < 0 => Power(2, -e) \in Nat \ {0} /\ One = Power(2, -e) * r
  BY WeightOfExp
<1>2. CASE e >= 0
  BY <1>1, <1>2 DEF IsWhole
<1>3. CASE ~(e >= 0)
  <2>1. PICK p \in Nat \ {0} : p = Power(2, -e) /\ One = p * r
    BY <1>1, <1>3
  <2>2. PICK v \in Int : v = Units(f) /\ v = q * (p * r) /\ (v = m * r \/ v = -(m * r))
    <3>1. Units(f) \in Int /\ (Units(f) = Magnitude(Units(f)) \/ Units(f) = -Magnitude(Units(f)))
      BY UnitsAre
    <3>. QED
      BY <1>1, <2>1, <3>1
  <2>3. \E n \in Int : m * r = (p * n) * r
    <3>1. q * (p * r) = (p * q) * r /\ -(q * (p * r)) = (p * (-q)) * r /\ -q \in Int
      OBVIOUS
    <3>2. CASE v = m * r
      BY <2>2, <3>1, <3>2
    <3>3. CASE v = -(m * r)
      <4>1. m * r \in Int /\ m * r = -v
        BY <3>3
      <4>. QED
        BY <2>2, <3>1, <4>1
    <3>. QED
      BY <2>2, <3>2, <3>3
  <2>4. PICK n \in Int : m * r = (p * n) * r
    BY <2>3
  <2>5. PICK z \in Int : z = p * n
    OBVIOUS
  <2>6. m = z
    <3>1. r * m = m * r /\ z * r = r * z /\ m \in Int
      OBVIOUS
    <3>2. r * m = r * z
      BY <2>4, <2>5, <3>1
    <3>3. ~(m < z)
      <4>1. SUFFICES ASSUME m < z PROVE FALSE
        OBVIOUS
      <4>2. r * m + r <= r * z
        BY <3>1, <4>1, Less
      <4>3. r * z \in Int
        OBVIOUS
      <4>. QED
        BY <3>2, <4>2, <4>3
    <3>4. ~(z < m)
      <4>1. SUFFICES ASSUME z < m PROVE FALSE
        OBVIOUS
      <4>2. r * z + r <= r * m
        BY <3>1, <4>1, Less
      <4>3. r * z \in Int
        OBVIOUS
      <4>. QED
        BY <3>2, <4>2, <4>3
    <3>. QED
      BY <3>3, <3>4
  <2>7. m = p * n + 0 /\ 0 \in 0..p - 1 /\ m \in Int
    BY <2>5, <2>6
  <2>8. m % p = 0
    BY <2>7, DivIs
  <2>. QED
    BY <1>1, <2>1, <2>8 DEF IsWhole
<1>. QED
  BY <1>2, <1>3

\* The floor of a float that is not whole lies strictly below it, by less than one.
LEMMA FloorExact ==
  ASSUME NEW f \in Floats, f.kind = "finite", ~IsWhole(f)
  PROVE  \E q \in Int : /\ from_f64_exact(Floor(f)) \in Bigs /\ IntOf(from_f64_exact(Floor(f))) = q
                        /\ q * One < Units(f) /\ Units(f) < q * One + One
<1>1. PICK w \in Nat \ {0} : w = One
  BY OneUnit
<1>2. PICK v \in Int, u \in Nat : v = Units(f) /\ u = Magnitude(v) /\ v = (IF f.neg THEN -u ELSE u)
  BY UnitsAre
<1>3. PICK q \in Int, r \in 0..w - 1 : q = v \div w /\ v = w * q + r
  <2>1. v \div w \in Int /\ v % w \in 0..w - 1 /\ v = w * (v \div w) + (v % w)
    BY DivMod
  <2>. QED
    BY <2>1
<1>4. PICK a \in Int : a = w * q /\ a = q * w
  <2>1. w * q \in Int /\ w * q = q * w
    OBVIOUS
  <2>. QED
    BY <2>1
<1>5. r # 0
  <2>1. SUFFICES ASSUME r = 0 PROVE FALSE
    OBVIOUS
  <2>2. v = q * w
    BY <1>3, <1>4, <2>1
  <2>3. Units(f) = q * One
    BY <1>1, <1>2, <2>2
  <2>. QED
    BY <2>3, UnitsWhole
<1>6. a < v /\ v < a + w
  BY <1>3, <1>4, <1>5
<1>7. PICK n \in Nat : /\ n = Magnitude(q) /\ n * One < Over /\ Floor(f) = FromMag(f.neg, n * One)
                       /\ n <= Power(2, Prec - 1)
  BY <1>1, <1>2, <1>3, FloorMag
<1>8. n \in 0..Power(2, Prec) - 1
  <2>1. PICK h \in Nat \ {0, 1} : h = Power(2, Prec - 1) /\ Power(2, Prec) = 2 * h
    BY MantsAre
  <2>. QED
    BY <1>7, <2>1
<1>9. f.neg \in BOOLEAN /\ Floor(f) \in Floats /\ IsWhole(Floor(f))
  BY FloatIs, FloorWhole
<1>10. Units(Floor(f)) = IF f.neg THEN -(n * One) ELSE n * One
  BY <1>7, <1>8, <1>9, WholeUnits
<1>11. q = IF f.neg THEN -n ELSE n
  <2>1. (q < 0 => n = -q) /\ (q >= 0 => n = q)
    BY <1>7, MagnitudeIs
  <2>2. CASE f.neg
    <3>1. v <= 0
      BY <1>2, <2>2
    <3>2. a < 0
      BY <1>6, <3>1
    <3>3. q < 0
      <4>1. SUFFICES ASSUME q >= 0 PROVE FALSE
        OBVIOUS
      <4>2. w * q >= 0
        BY <4>1
      <4>. QED
        BY <1>4, <3>2, <4>2
    <3>. QED
      BY <2>1, <2>2, <3>3
  <2>3. CASE ~f.neg
    <3>0. v = u
      BY <1>2, <2>3, Zenon
    <3>1. v >= 0 /\ v < a + w
      BY <1>6, <3>0
    <3>2. q >= 0
      <4>1. SUFFICES ASSUME q < 0 PROVE FALSE
        OBVIOUS
      <4>2. w * q + w <= w * 0 /\ w * 0 = 0
        BY <4>1, Less
      <4>. QED
        BY <1>4, <3>1, <4>2
    <3>. QED
      BY <2>1, <2>3, <3>2
  <2>. QED
    BY <2>2, <2>3
<1>12. Units(Floor(f)) = a
  <2>1. -(n * w) = (-n) * w
    OBVIOUS
  <2>. QED
    BY <1>1, <1>4, <1>10, <1>11, <2>1
<1>13. PICK y \in Bigs, i \in Int : y = from_f64_exact(Floor(f)) /\ i = IntOf(y) /\ i * w = a
  BY <1>1, <1>9, <1>12, FromExactIs
<1>14. i = q
  <2>1. w * i = a /\ w * q = a
    <3>1. w * i = i * w
      OBVIOUS
    <3>. QED
      BY <1>4, <1>13, <3>1
  <2>2. ~(i < q)
    <3>1. SUFFICES ASSUME i < q PROVE FALSE
      OBVIOUS
    <3>2. w * i + w <= w * q
      BY <3>1, Less
    <3>. QED
      BY <2>1, <3>2
  <2>3. ~(q < i)
    <3>1. SUFFICES ASSUME q < i PROVE FALSE
      OBVIOUS
    <3>2. w * q + w <= w * i
      BY <3>1, Less
    <3>. QED
      BY <2>1, <3>2
  <2>. QED
    BY <2>2, <2>3
<1>. QED
  BY <1>1, <1>2, <1>4, <1>6, <1>13, <1>14

LEMMA CmpScaled ==
  ASSUME NEW w \in Nat \ {0}, NEW i \in Int, NEW n \in Int
  PROVE  Cmp(i, n) = Cmp(i * w, n * w)
<1>1. PICK a \in Int, b \in Int : a = w * i /\ b = w * n /\ a = i * w /\ b = n * w
  <2>1. w * i \in Int /\ w * n \in Int /\ w * i = i * w /\ w * n = n * w
    OBVIOUS
  <2>. QED
    BY <2>1
<1>2. i < n => a < b
  <2>1. SUFFICES ASSUME i < n PROVE a < b
    OBVIOUS
  <2>2. w * i + w <= w * n
    BY <2>1, Less
  <2>. QED
    BY <1>1, <2>2
<1>3. n < i => b < a
  <2>1. SUFFICES ASSUME n < i PROVE b < a
    OBVIOUS
  <2>2. w * n + w <= w * i
    BY <2>1, Less
  <2>. QED
    BY <1>1, <2>2
<1>4. Cmp(i, n) = Cmp(a, b)
  <2>1. CASE i < n
    BY <1>2, <2>1 DEF Cmp
  <2>2. CASE n < i
    BY <1>3, <2>2 DEF Cmp
  <2>3. CASE i = n
    BY <1>1, <2>3 DEF Cmp
  <2>. QED
    BY <2>1, <2>2, <2>3
<1>. QED
  BY <1>1, <1>4

\* A float against an integer is compared exactly (value.rs cmp_f64_num).
LEMMA CmpMixed ==
  ASSUME NEW f \in Floats, f.kind = "finite", NEW v \in Values, IsExactInt(v)
  PROVE  cmp_f64_num(f, v) = Cmp(Units(f), Value(v) * One)
<1>1. PICK y \in Bigs, n \in Int : y = to_bigint(v) /\ n = Value(v) /\ IntOf(y) = n
  BY ExactOperand, ToBigintIs
<1>2. PICK w \in Nat \ {0} : w = One
  BY OneUnit
<1>3. PICK u \in Int : u = Units(f)
  BY UnitsAre
<1>4. ~IsInf(f)
  BY DEF IsInf
<1>5. PICK b \in Int : b = w * n /\ b = n * w
  <2>1. w * n \in Int /\ w * n = n * w
    OBVIOUS
  <2>. QED
    BY <2>1
<1>6. CASE IsWhole(f)
  <2>1. PICK x \in Bigs, i \in Int : x = from_f64_exact(f) /\ IntOf(x) = i /\ i * w = u
    BY <1>2, <1>3, <1>6, FromExactIs
  <2>2. cmp_f64_num(f, v) = cmp(x, y)
    BY <1>1, <1>4, <1>6, <2>1 DEF cmp_f64_num
  <2>3. cmp(x, y) = Cmp(i, n)
    BY <1>1, <2>1, CmpBigs
  <2>4. Cmp(i, n) = Cmp(i * w, n * w)
    BY CmpScaled
  <2>. QED
    BY <1>1, <1>2, <1>3, <2>1, <2>2, <2>3, <2>4
<1>7. CASE ~IsWhole(f)
  <2>1. PICK q \in Int : /\ from_f64_exact(Floor(f)) \in Bigs /\ IntOf(from_f64_exact(Floor(f))) = q
                         /\ q * w < u /\ u < q * w + w
    BY <1>2, <1>3, <1>7, FloorExact
  <2>2. PICK x \in Bigs : x = from_f64_exact(Floor(f)) /\ IntOf(x) = q
    BY <2>1
  <2>3. cmp_f64_num(f, v) = IF cmp(x, y) < 0 THEN -1 ELSE 1
    BY <1>1, <1>4, <1>7, <2>2 DEF cmp_f64_num
  <2>4. cmp(x, y) = Cmp(q, n)
    BY <1>1, <2>2, CmpBigs
  <2>5. PICK a \in Int : a = w * q /\ a = q * w
    <3>1. w * q \in Int /\ w * q = q * w
      OBVIOUS
    <3>. QED
      BY <3>1
  <2>6. a < u /\ u < a + w
    BY <2>1, <2>5
  <2>7. CASE q < n
    <3>1. w * q + w <= w * n
      BY <2>7, Less
    <3>2. u < b
      BY <1>5, <2>5, <2>6, <3>1
    <3>3. Cmp(q, n) = -1 /\ Cmp(u, b) = -1
      BY <2>7, <3>2 DEF Cmp
    <3>. QED
      BY <1>1, <1>2, <1>3, <1>5, <2>3, <2>4, <3>3
  <2>8. CASE ~(q < n)
    <3>1. n <= q
      BY <2>8
    <3>2. w * n <= w * q
      BY <3>1, Less
    <3>3. b < u
      BY <1>5, <2>5, <2>6, <3>2
    <3>4. ~(Cmp(q, n) < 0) /\ Cmp(u, b) = 1
      BY <2>8, <3>3 DEF Cmp
    <3>. QED
      BY <1>1, <1>2, <1>3, <1>5, <2>3, <2>4, <3>4
  <2>. QED
    BY <2>7, <2>8
<1>. QED
  BY <1>6, <1>7

PlainNum(v) == IsExactInt(v) \/ (is_float(v) /\ v[2].kind = "finite")

LEMMA PlainIs ==
  ASSUME NEW v \in Values, PlainNum(v)
  PROVE  /\ is_num(v) /\ Exactly(v) \in Int /\ v[1] \notin {"dc", "cx", "vec", "width", "str"}
         /\ is_float(v) => v[2] \in Floats /\ v[2].kind = "finite" /\ ~IsNaN(v[2]) /\ ~IsInf(v[2])
                           /\ Exactly(v) = Units(v[2])
         /\ ~is_float(v) => IsExactInt(v) /\ Exactly(v) = Value(v) * One
<1>1. CASE is_float(v)
  <2>1. v[2] \in Floats /\ v[2].kind = "finite" /\ v[1] = "float"
    BY <1>1, ValueIs DEF PlainNum, is_float, IsExactInt
  <2>2. Units(v[2]) \in Int
    BY <2>1, UnitsAre
  <2>. QED
    BY <1>1, <2>1, <2>2 DEF Exactly, IsNaN, IsInf, is_num, is_float
<1>2. CASE ~is_float(v)
  <2>1. IsExactInt(v) /\ v[1] \in {"int", "big"}
    BY <1>2 DEF PlainNum, IsExactInt
  <2>2. PICK n \in Int : n = Value(v)
    BY <2>1, ExactOperand, ToBigintIs
  <2>3. PICK w \in Nat : w = One
    BY OneUnit
  <2>4. n * w \in Int
    OBVIOUS
  <2>. QED
    BY <1>2, <2>1, <2>2, <2>3, <2>4 DEF Exactly, is_num
<1>. QED
  BY <1>1, <1>2

\* Numbers compare as their exact values (value.rs num_partial_cmp).
LEMMA CmpPlain ==
  ASSUME NEW a \in Values, NEW b \in Values, PlainNum(a), PlainNum(b)
  PROVE  num_partial_cmp(a, b) = Cmp(Exactly(a), Exactly(b)) /\ num_partial_cmp(a, b) \in Int
<1>1. PICK x \in Int, y \in Int : x = Exactly(a) /\ y = Exactly(b)
  BY PlainIs
<1>2. Cmp(x, y) \in Int /\ -Cmp(y, x) = Cmp(x, y)
  BY DEF Cmp
<1>3. is_num(a) /\ is_num(b)
  BY PlainIs
<1>4. CASE is_float(a) /\ is_float(b)
  <2>1. /\ ~IsNaN(a[2]) /\ ~IsNaN(b[2]) /\ ~IsInf(a[2]) /\ ~IsInf(b[2])
        /\ Units(a[2]) = x /\ Units(b[2]) = y
    BY <1>1, <1>4, PlainIs
  <2>2. num_partial_cmp(a, b) = FCmp(a[2], b[2])
    BY <1>3, <1>4, <2>1 DEF num_partial_cmp
  <2>3. FCmp(a[2], b[2]) = Cmp(x, y)
    BY <2>1 DEF FCmp
  <2>. QED
    BY <1>1, <1>2, <2>2, <2>3
<1>5. CASE is_float(a) /\ ~is_float(b)
  <2>1. a[2] \in Floats /\ a[2].kind = "finite" /\ ~IsNaN(a[2]) /\ Units(a[2]) = x
    BY <1>1, <1>5, PlainIs
  <2>2. IsExactInt(b) /\ Value(b) * One = y
    BY <1>1, <1>5, PlainIs
  <2>3. num_partial_cmp(a, b) = cmp_f64_num(a[2], b)
    BY <1>3, <1>5, <2>1 DEF num_partial_cmp
  <2>4. cmp_f64_num(a[2], b) = Cmp(x, y)
    BY <2>1, <2>2, CmpMixed
  <2>. QED
    BY <1>1, <1>2, <2>3, <2>4
<1>6. CASE ~is_float(a) /\ is_float(b)
  <2>1. b[2] \in Floats /\ b[2].kind = "finite" /\ ~IsNaN(b[2]) /\ Units(b[2]) = y
    BY <1>1, <1>6, PlainIs
  <2>2. IsExactInt(a) /\ Value(a) * One = x
    BY <1>1, <1>6, PlainIs
  <2>3. num_partial_cmp(a, b) = -cmp_f64_num(b[2], a)
    BY <1>3, <1>6, <2>1 DEF num_partial_cmp
  <2>4. cmp_f64_num(b[2], a) = Cmp(y, x)
    BY <2>1, <2>2, CmpMixed
  <2>. QED
    BY <1>1, <1>2, <2>3, <2>4
<1>7. CASE ~is_float(a) /\ ~is_float(b)
  <2>1. IsExactInt(a) /\ IsExactInt(b) /\ Value(a) * One = x /\ Value(b) * One = y
    BY <1>1, <1>7, PlainIs
  <2>2. PICK p \in Bigs, m \in Int : p = to_bigint(a) /\ m = Value(a) /\ IntOf(p) = m
    BY <2>1, ExactOperand, ToBigintIs
  <2>3. PICK q \in Bigs, n \in Int : q = to_bigint(b) /\ n = Value(b) /\ IntOf(q) = n
    BY <2>1, ExactOperand, ToBigintIs
  <2>4. num_partial_cmp(a, b) = cmp(p, q)
    BY <1>3, <1>7, <2>2, <2>3 DEF num_partial_cmp
  <2>5. cmp(p, q) = Cmp(m, n)
    BY <2>2, <2>3, CmpBigs
  <2>6. Cmp(m, n) = Cmp(x, y)
    <3>1. PICK w \in Nat \ {0} : w = One
      BY OneUnit
    <3>2. Cmp(m, n) = Cmp(m * w, n * w)
      BY CmpScaled
    <3>. QED
      BY <2>1, <2>2, <2>3, <3>1, <3>2
  <2>. QED
    BY <1>1, <1>2, <2>4, <2>5, <2>6
<1>. QED
  BY <1>4, <1>5, <1>6, <1>7

\* The six relations on the order of two numbers.
LEMMA RelPlain ==
  ASSUME NEW a \in Values, NEW b \in Values, PlainNum(a), PlainNum(b), NEW op \in Rels
  PROVE  rel_bool(op, a, b) = Truth(Holds(op, Cmp(Exactly(a), Exactly(b))))
<1>1. PICK o \in Int : o = num_partial_cmp(a, b) /\ o = Cmp(Exactly(a), Exactly(b))
  BY CmpPlain
<1>2. o # None
  BY ValueAssumption
<1>3. a[1] \notin {"dc", "cx", "vec", "width", "str"}
  BY PlainIs
<1>4. zown_eq(a, b) <=> o = 0
  BY <1>1, <1>3 DEF zown_eq
<1>5. CASE op = "=="
  BY <1>1, <1>3, <1>4, <1>5 DEF rel_bool, Holds, Truth
<1>6. CASE op = "!="
  BY <1>1, <1>3, <1>4, <1>6 DEF rel_bool, Holds, Truth
<1>7. CASE op \notin {"==", "!="}
  BY <1>1, <1>2, <1>3, <1>7 DEF rel_bool
<1>. QED
  BY <1>5, <1>6, <1>7

\* A nan is unequal to everything and ordered with nothing.
LEMMA RelNan ==
  ASSUME NEW a \in Values, NEW b \in Values, is_num(a), is_num(b), NEW op \in Rels,
         \E v \in {a, b} : is_float(v) /\ IsNaN(v[2])
  PROVE  rel_bool(op, a, b) = Truth(op = "!=")
<1>1. num_partial_cmp(a, b) = None
  BY DEF num_partial_cmp
<1>2. None # 0
  BY ValueAssumption
<1>3. a[1] \notin {"dc", "cx", "vec", "width", "str"}
  BY DEF is_num
<1>4. ~zown_eq(a, b)
  BY <1>1, <1>2, <1>3 DEF zown_eq
<1>5. CASE op = "=="
  BY <1>3, <1>4, <1>5 DEF rel_bool, Truth
<1>6. CASE op = "!="
  BY <1>3, <1>4, <1>6 DEF rel_bool, Truth
<1>7. CASE op \notin {"==", "!="}
  <2>1. rel_bool(op, a, b) = Truth(FALSE)
    BY <1>1, <1>3, <1>7 DEF rel_bool
  <2>. QED
    BY <1>7, <2>1 DEF Truth
<1>. QED
  BY <1>5, <1>6, <1>7

\* Comparison is the order of the numbers at every width, whatever the two types, and
\* a nan is unordered (value.rs num_partial_cmp, cmp_f64_num; lib.rs rel_bool;
\* bigint.rs from_f64_exact, cmp).
THEOREM OrderIsExactTheorem == Spec => []OrderIsExact
<1>1. TypeOK => OrderIsExact
  <2> SUFFICES ASSUME stack \in Seq(Values), Len(stack) = 2 PROVE OrderIsExact
    BY DEF TypeOK, OrderIsExact
  <2>1. PICK a \in Values, b \in Values : a = stack[1] /\ b = stack[2]
    BY Operands
  <2> DEFINE nan == \E v \in {a, b} : is_float(v) /\ IsNaN(v[2])
             plain == PlainNum(a) /\ PlainNum(b)
             dec == a[1] = "dc" /\ b[1] = "dc"
             Right(op) == rel_bool(op, a, b) =
                            Truth(IF plain THEN Holds(op, Cmp(Exactly(a), Exactly(b)))
                                  ELSE IF dec THEN Holds(op, Cmp(At(a[2]), At(b[2])))
                                  ELSE op = "!=")
  <2>2. ASSUME NEW op \in Rels, plain PROVE Right(op)
    BY <2>2, RelPlain
  <2>3. ASSUME NEW op \in Rels, dec PROVE Right(op)
    <3>1. ~plain
      BY <2>3, PlainIs
    <3>2. a[2] \in Decs /\ b[2] \in Decs
      BY <2>3, ValueIs
    <3>3. dec_cmp(a[2], b[2]) = Cmp(At(a[2]), At(b[2]))
      BY <3>2, DecCmpIs
    <3>4. rel_bool(op, a, b) = Truth(Holds(op, dec_cmp(a[2], b[2])))
      BY <2>3 DEF rel_bool
    <3>. QED
      BY <2>3, <3>1, <3>3, <3>4
  <2>4. ASSUME NEW op \in Rels, is_num(a), is_num(b), nan PROVE Right(op)
    <3>1. ~plain
      BY <2>4, PlainIs
    <3>2. ~dec
      BY <2>4 DEF is_num
    <3>3. rel_bool(op, a, b) = Truth(op = "!=")
      BY <2>4, RelNan
    <3>. QED
      BY <3>1, <3>2, <3>3
  <2>5. ASSUME plain \/ dec \/ (is_num(a) /\ is_num(b) /\ nan), NEW op \in Rels PROVE Right(op)
    <3>. HIDE DEF Right, plain, dec, nan
    <3>. QED
      BY <2>2, <2>3, <2>4, <2>5
  <2>. QED
    BY <2>1, <2>5, Zenon DEF OrderIsExact, PlainNum
<1>. QED
  BY <1>1, TypeCorrect, PTL

-----------------------------------------------------------------------------
(* Texts read back.                                                        *)

\* Reading digits with limbs gives the number that they are (bigint.rs parse_dec).
LEMMA ReadValue ==
  ASSUME NEW d \in Text
  PROVE  /\ Read(d)[Len(d)] \in Nats /\ DigitsValue(d) \in Nat
         /\ IntOf(Read(d)[Len(d)]) = DigitsValue(d)
<1>1. PICK n \in Nat : n = Len(d)
  BY TextIs
<1>2. PICK f : /\ DigitsValue(d) = f[n] /\ f[0] = 0
               /\ \A k \in 1..n : f[k] = NextDigit(d, k, f[k - 1])
               /\ \A k \in 0..n : f[k] \in Nat
  BY <1>1, DigitsAre
<1>3. PICK g : /\ g = Read(d) /\ g[0] = zero
               /\ \A k \in 1..n : g[k] = NextRead(d, k, g[k - 1])
               /\ \A k \in 0..n : g[k] \in Nats
  BY <1>1, ReadsAre
<1> DEFINE P == {k \in 0..n : IntOf(g[k]) = f[k]}
<1>4. 0 \in P
  BY <1>2, <1>3, ZeroIs
<1>5. ASSUME NEW k \in 1..n, k - 1 \in P PROVE k \in P
  <2>1. k - 1 \in 0..n /\ k \in 0..n /\ IntOf(g[k - 1]) = f[k - 1]
    BY <1>5
  <2>2. PICK s \in Nats : s = g[k - 1]
    BY <1>3, <2>1
  <2>3. s \in Bigs /\ ~s.neg /\ IntOf(s) \in Nat /\ Radix \in Limb /\ Radix \in Nat
    BY NatIs, TextIs
  <2>4. mul_u32(s, Radix) \in Bigs /\ IntOf(mul_u32(s, Radix)) = IntOf(s) * Radix
    BY <2>3, MulU32Is
  <2>5. d[k] \in Nat /\ d[k] < Base * Base
    BY <1>1, TextIs
  <2>6. from_u64(d[k]) \in Bigs /\ IntOf(from_u64(d[k])) = d[k]
    BY <2>5, FromU64
  <2>7. IntOf(NextRead(d, k, s)) = IntOf(s) * Radix + d[k]
    BY <2>4, <2>6, AddIs DEF NextRead
  <2>8. IntOf(s) * Radix = Radix * IntOf(s)
    BY <2>3
  <2>9. IntOf(g[k]) = NextDigit(d, k, f[k - 1])
    BY <1>3, <2>1, <2>2, <2>7, <2>8 DEF NextDigit
  <2>. QED
    BY <1>2, <2>1, <2>9
<1>6. n \in P
  <2>. HIDE DEF P
  <2>1. 0..n \subseteq P
    BY <1>4, <1>5, UpInduction
  <2>. QED
    BY <2>1
<1>7. n \in 0..n
  OBVIOUS
<1>. QED
  BY <1>1, <1>2, <1>3, <1>6, <1>7

\* The digits that are written are those of the number (bigint.rs Display).
LEMMA DigitsValueIs ==
  ASSUME NEW x \in Bigs
  PROVE  DigitsValue(Digits(x)) = Mag(x.d)
<1>1. PICK n \in Nat : /\ n = DigitCount(x) /\ n \in 0..bit_len(x) /\ is_zero(Quotients(x)[n])
                       /\ bit_len(x) \in Nat
  BY DigitCountIs, BitLenOf
<1>2. PICK d \in Text : d = Digits(x) /\ Len(d) = n
  BY <1>1, DigitsTyped
<1>3. \A i \in 1..n : d[i] = divmod_u32(Quotients(x)[n - i], Radix)[2]
  BY <1>1, <1>2 DEF Digits
<1>4. PICK f : /\ DigitsValue(d) = f[n] /\ f[0] = 0
               /\ \A k \in 1..n : f[k] = NextDigit(d, k, f[k - 1])
  BY <1>2, DigitsAre
<1>5. PICK Q : /\ Q = Quotients(x) /\ Q[0] = x
               /\ \A k \in 1..bit_len(x) : Q[k] = NextQuot(Q[k - 1])
               /\ \A k \in 0..bit_len(x) : Q[k] \in Bigs
  BY QuotientsAre
<1> DEFINE P == {k \in 0..n : f[k] = Mag(Q[n - k].d)}
<1>6. 0 \in P
  <2>1. n - 0 = n /\ Q[n] \in Bigs /\ is_zero(Q[n])
    BY <1>1, <1>5
  <2>2. Mag(Q[n].d) = 0
    BY <2>1, MagZero
  <2>. QED
    BY <1>4, <2>1, <2>2
<1>7. ASSUME NEW k \in 1..n, k - 1 \in P PROVE k \in P
  <2>1. /\ k \in 0..n /\ k - 1 \in 0..n /\ n - k \in 0..bit_len(x) /\ n - (k - 1) = (n - k) + 1
        /\ (n - k) + 1 \in 1..bit_len(x) /\ ((n - k) + 1) - 1 = n - k
    BY <1>1
  <2>2. PICK a \in Bigs : a = Q[n - k] /\ Q[n - (k - 1)] = divmod_u32(a, Radix)[1]
    BY <1>5, <2>1 DEF NextQuot
  <2>3. d[k] = divmod_u32(a, Radix)[2]
    BY <1>3, <1>5, <2>2
  <2>4. Radix \in Limb \ {0}
    BY TextIs
  <2>5. PICK b \in Nats : b = divmod_u32(a, Radix)[1] /\ Mag(a.d) = Radix * IntOf(b) + d[k]
    BY <2>3, <2>4, DivU32Big
  <2>6. IntOf(b) = Mag(b.d)
    BY NatIs
  <2>7. f[k - 1] = Mag(b.d)
    BY <1>7, <2>2, <2>5
  <2>8. f[k] = Mag(a.d)
    BY <1>4, <2>5, <2>6, <2>7 DEF NextDigit
  <2>. QED
    BY <2>1, <2>2, <2>8
<1>8. n \in P
  <2>. HIDE DEF P
  <2>1. 0..n \subseteq P
    BY <1>6, <1>7, UpInduction
  <2>. QED
    BY <2>1
<1>9. f[n] = Mag(x.d)
  BY <1>5, <1>8
<1>. QED
  BY <1>2, <1>4, <1>9

InDigits(x) == IF is_zero(x) THEN <<0>> ELSE Digits(x)

LEMMA DigitsWritten ==
  ASSUME NEW x \in Bigs
  PROVE  /\ InDigits(x) \in Text /\ Len(InDigits(x)) \in Nat \ {0} /\ InDigits(x) # <<>>
         /\ DigitsValue(InDigits(x)) = Mag(x.d)
<1>1. CASE is_zero(x)
  <2>1. <<0>> \in Text /\ Len(<<0>>) = 1 /\ <<0>>[1] = 0
    BY TextOps
  <2>2. PICK f : DigitsValue(<<0>>) = f[1] /\ f[0] = 0 /\ f[1] = NextDigit(<<0>>, 1, f[0])
    <3>1. 1 \in 1..1 /\ 1 - 1 = 0
      OBVIOUS
    <3>. QED
      BY <2>1, <3>1, DigitsAre
  <2>3. Radix * 0 + 0 = 0
    BY TextIs
  <2>4. DigitsValue(<<0>>) = 0
    BY <2>1, <2>2, <2>3 DEF NextDigit
  <2>5. Mag(x.d) = 0
    BY <1>1, MagZero
  <2>. QED
    BY <1>1, <2>1, <2>4, <2>5 DEF InDigits
<1>2. CASE ~is_zero(x)
  <2>1. PICK n \in Nat : n = DigitCount(x) /\ is_zero(Quotients(x)[n])
    BY DigitCountIs
  <2>2. n # 0
    BY <1>2, <2>1, QuotientsAre
  <2>3. InDigits(x) = Digits(x)
    BY <1>2 DEF InDigits
  <2>4. Digits(x) \in Text /\ Len(Digits(x)) = n
    BY <2>1, DigitsTyped
  <2>5. Digits(x) # <<>>
    BY <2>2, <2>4
  <2>. QED
    BY <2>2, <2>3, <2>4, <2>5, DigitsValueIs
<1>. QED
  BY <1>1, <1>2

\* A big is read back as itself.
LEMMA ParseBack ==
  ASSUME NEW x \in Bigs
  PROVE  parse_dec(x.neg, InDigits(x)) = x
<1>1. PICK w \in Text : w = InDigits(x) /\ DigitsValue(w) = Mag(x.d)
  BY DigitsWritten
<1>2. PICK y \in Nats : y = Read(w)[Len(w)] /\ IntOf(y) = Mag(x.d)
  BY <1>1, ReadValue
<1>3. y \in Bigs /\ Mag(y.d) = Mag(x.d) /\ x.neg \in BOOLEAN
  BY <1>2, NatIs, BigIs
<1>4. PICK z \in Bigs : z = parse_dec(x.neg, w) /\ IntOf(z) = IF x.neg THEN -Mag(y.d) ELSE Mag(y.d)
  <2>1. parse_dec(x.neg, w) = Signed(x.neg, y)
    BY <1>2 DEF parse_dec
  <2>2. Signed(x.neg, y) \in Bigs /\ IntOf(Signed(x.neg, y)) = (IF x.neg THEN -Mag(y.d) ELSE Mag(y.d))
    BY <1>3, SignedIs
  <2>. QED
    BY <2>1, <2>2
<1>5. IntOf(z) = IntOf(x)
  BY <1>3, <1>4 DEF IntOf
<1>6. z = x
  BY <1>5, OneBig
<1>. QED
  BY <1>1, <1>4, <1>6

LEMMA ReadBack ==
  ASSUME NEW v \in Values, v[1] \in {"int", "big"}
  PROVE  /\ to_bigint(v) \in Bigs /\ ReadInt(b_to_str(v)[2]) = to_bigint(v)
         /\ b_to_str(v)[1] = "str" /\ b_to_str(v)[2].point = FALSE
<1>1. v \in Nums
  BY NumValue DEF is_num
<1>2. PICK x \in Bigs : x = to_bigint(v)
  BY <1>1, BigOfNum
<1>3. b_to_str(v) = Str(x.neg, InDigits(x), FALSE, <<>>)
  BY <1>2 DEF b_to_str, InDigits
<1>4. PICK t : t = b_to_str(v)[2] /\ t.neg = x.neg /\ t.whole = InDigits(x) /\ t.point = FALSE
  BY <1>3 DEF Str
<1>5. b_to_str(v)[1] = "str"
  BY <1>3 DEF Str
<1>6. ReadInt(t) = x
  BY <1>4, DigitsWritten, ParseBack DEF ReadInt
<1>. QED
  BY <1>2, <1>4, <1>5, <1>6

\* Leading zeros do not count.
LEMMA LeadingZeros ==
  ASSUME NEW z \in Text, NEW t \in Text, \A i \in 1..Len(z) : z[i] = 0
  PROVE  DigitsValue(z \o t) = DigitsValue(t)
<1>1. PICK m \in Nat, n \in Nat : m = Len(z) /\ n = Len(t)
  BY TextIs
<1>2. PICK d \in Text : d = z \o t /\ Len(d) = m + n
  BY <1>1, TextOps
<1>3. (\A i \in 1..m : d[i] = 0) /\ (\A i \in 1..n : d[m + i] = t[i])
  <2>1. z \in Seq(0..Radix - 1) /\ t \in Seq(0..Radix - 1)
    BY DEF Text
  <2>2. \A S : \A a \in Seq(S), b \in Seq(S) :
           /\ \A i \in 1..Len(a) : (a \o b)[i] = a[i]
           /\ \A i \in 1..Len(b) : (a \o b)[Len(a) + i] = b[i]
    OBVIOUS
  <2>. QED
    BY <1>1, <1>2, <2>1, <2>2
<1>4. PICK f : /\ DigitsValue(d) = f[m + n] /\ f[0] = 0
               /\ \A k \in 1..m + n : f[k] = NextDigit(d, k, f[k - 1])
  <2>1. PICK f : /\ DigitsValue(d) = f[Len(d)] /\ f[0] = 0
                 /\ \A k \in 1..Len(d) : f[k] = NextDigit(d, k, f[k - 1])
    BY DigitsAre
  <2>. QED
    BY <1>2, <2>1, Zenon
<1>5. PICK g : /\ DigitsValue(t) = g[n] /\ g[0] = 0
               /\ \A k \in 1..n : g[k] = NextDigit(t, k, g[k - 1])
  <2>1. PICK g : /\ DigitsValue(t) = g[Len(t)] /\ g[0] = 0
                 /\ \A k \in 1..Len(t) : g[k] = NextDigit(t, k, g[k - 1])
    BY DigitsAre
  <2>. QED
    BY <1>1, <2>1, Zenon
<1> DEFINE P == {k \in 0..m : f[k] = 0}
           R == {k \in 0..n : f[m + k] = g[k]}
<1>6. \A k \in 1..m : k - 1 \in P => k \in P
  <2> SUFFICES ASSUME NEW k \in 1..m, k - 1 \in P PROVE k \in P
    OBVIOUS
  <2>1. k \in 1..m + n /\ k \in 0..m /\ f[k - 1] = 0 /\ d[k] = 0
    BY <1>3
  <2>2. Radix * 0 + 0 = 0
    BY TextIs
  <2>3. f[k] = 0
    BY <1>4, <2>1, <2>2 DEF NextDigit
  <2>. QED
    BY <2>1, <2>3
<1>7. 0 \in P
  BY <1>4
<1>8. f[m] = 0
  <2>1. m \in P
    <3>. HIDE DEF P
    <3>1. 0..m \subseteq P
      BY <1>6, <1>7, UpInduction
    <3>. QED
      BY <3>1
  <2>. QED
    BY <2>1
<1>9. \A k \in 1..n : k - 1 \in R => k \in R
  <2> SUFFICES ASSUME NEW k \in 1..n, k - 1 \in R PROVE k \in R
    OBVIOUS
  <2>1. /\ k \in 0..n /\ f[m + (k - 1)] = g[k - 1] /\ m + k \in 1..m + n
        /\ (m + k) - 1 = m + (k - 1) /\ d[m + k] = t[k]
    BY <1>3
  <2>2. f[m + k] = Radix * g[k - 1] + t[k]
    BY <1>4, <2>1 DEF NextDigit
  <2>3. g[k] = Radix * g[k - 1] + t[k]
    BY <1>5 DEF NextDigit
  <2>. QED
    BY <2>1, <2>2, <2>3
<1>10. 0 \in R
  BY <1>5, <1>8
<1>11. f[m + n] = g[n]
  <2>1. n \in R
    <3>. HIDE DEF R
    <3>1. 0..n \subseteq R
      BY <1>9, <1>10, UpInduction
    <3>. QED
      BY <3>1
  <2>. QED
    BY <2>1
<1>. QED
  BY <1>2, <1>4, <1>5, <1>11

LEMMA PaddedIs ==
  ASSUME NEW w \in Text, NEW s \in Nat
  PROVE  /\ Padded(w, s) \in Text /\ Len(Padded(w, s)) \in Nat /\ Len(Padded(w, s)) > s
         /\ DigitsValue(Padded(w, s)) = DigitsValue(w)
<1>1. PICK l \in Nat : l = Len(w)
  BY TextIs
<1>2. CASE l <= s
  <2>1. PICK n \in Nat : n = s + 1 - l
    BY <1>2
  <2>2. PICK z \in Text : z = Zeros(n) /\ Len(z) = n
    BY TextOps
  <2>3. \A i \in 1..Len(z) : z[i] = 0
    BY <2>2 DEF Zeros
  <2>4. Padded(w, s) = z \o w
    BY <1>1, <1>2, <2>1, <2>2 DEF Padded
  <2>5. z \o w \in Text /\ Len(z \o w) = n + l
    BY <1>1, <2>2, TextOps
  <2>6. n + l \in Nat /\ n + l > s
    BY <2>1
  <2>. QED
    BY <2>3, <2>4, <2>5, <2>6, LeadingZeros
<1>3. CASE ~(l <= s)
  BY <1>1, <1>3 DEF Padded
<1>. QED
  BY <1>2, <1>3

\* A text cut at its point and joined again.
LEMMA CutText ==
  ASSUME NEW d \in Text, NEW c \in Nat, c <= Len(d), c # 0
  PROVE  /\ SubSeq(d, 1, c) \in Text /\ SubSeq(d, c + 1, Len(d)) \in Text
         /\ SubSeq(d, 1, c) # <<>>
         /\ Len(SubSeq(d, c + 1, Len(d))) = Len(d) - c
         /\ SubSeq(d, 1, c) \o SubSeq(d, c + 1, Len(d)) = d
<1>1. PICK n \in Nat : n = Len(d) /\ d \in Seq(0..Radix - 1)
  BY TextIs DEF Text
<1>2. \A S : \A s \in Seq(S) : \A k \in 1..Len(s) :
         /\ SubSeq(s, 1, k) \in Seq(S) /\ Len(SubSeq(s, 1, k)) = k
         /\ \A i \in 1..k : SubSeq(s, 1, k)[i] = s[i]
  OBVIOUS
<1>3. \A S : \A s \in Seq(S) : \A k \in 1..Len(s) :
         /\ SubSeq(s, k + 1, Len(s)) \in Seq(S) /\ Len(SubSeq(s, k + 1, Len(s))) = Len(s) - k
         /\ \A i \in 1..Len(s) - k : SubSeq(s, k + 1, Len(s))[i] = s[k + i]
  OBVIOUS
<1>4. c \in 1..Len(d)
  BY <1>1
<1>5. PICK a : a = SubSeq(d, 1, c)
  OBVIOUS
<1>6. PICK b : b = SubSeq(d, c + 1, Len(d))
  OBVIOUS
<1>7. a \in Seq(0..Radix - 1) /\ Len(a) = c /\ \A i \in 1..c : a[i] = d[i]
  <2>1. d \in Seq(0..Radix - 1)
    BY <1>1
  <2>. QED
    BY <1>2, <1>4, <1>5, <2>1
<1>8. b \in Seq(0..Radix - 1) /\ Len(b) = n - c /\ \A i \in 1..n - c : b[i] = d[c + i]
  <2>1. d \in Seq(0..Radix - 1)
    BY <1>1
  <2>. QED
    BY <1>1, <1>3, <1>4, <1>6, <2>1
<1>9. a \o b = d
  <2>1. \A S : \A s \in Seq(S), t \in Seq(S) :
           /\ s \o t \in Seq(S) /\ Len(s \o t) = Len(s) + Len(t)
           /\ \A i \in 1..Len(s) : (s \o t)[i] = s[i]
           /\ \A i \in 1..Len(t) : (s \o t)[Len(s) + i] = t[i]
    OBVIOUS
  <2>2. PICK e : e = a \o b
    OBVIOUS
  <2>3. /\ e \in Seq(0..Radix - 1) /\ Len(e) = Len(a) + Len(b)
        /\ \A i \in 1..Len(a) : e[i] = a[i]
        /\ \A i \in 1..Len(b) : e[Len(a) + i] = b[i]
    <3>1. PICK A : A = 0..Radix - 1
      OBVIOUS
    <3>2. a \in Seq(A) /\ b \in Seq(A)
      BY <1>7, <1>8, <3>1
    <3>3. /\ e \in Seq(A) /\ Len(e) = Len(a) + Len(b)
          /\ \A i \in 1..Len(a) : e[i] = a[i]
          /\ \A i \in 1..Len(b) : e[Len(a) + i] = b[i]
      BY <2>1, <2>2, <3>2
    <3>. QED
      BY <3>1, <3>3
  <2>4. Len(e) = n
    BY <1>1, <1>7, <1>8, <2>3
  <2>5. ASSUME NEW i \in 1..n PROVE e[i] = d[i]
    <3>1. CASE i <= c
      <4>1. i \in 1..c
        BY <3>1
      <4>. QED
        BY <1>7, <2>3, <4>1
    <3>2. CASE ~(i <= c)
      <4>1. i - c \in 1..n - c /\ c + (i - c) = i
        BY <3>2
      <4>2. Len(a) = c /\ Len(b) = n - c
        BY <1>7, <1>8
      <4>3. e[c + (i - c)] = b[i - c] /\ b[i - c] = d[c + (i - c)]
        BY <1>8, <2>3, <4>1, <4>2
      <4>. QED
        BY <4>1, <4>3
    <3>. QED
      BY <3>1, <3>2
  <2>. QED
    BY <1>1, <2>2, <2>3, <2>4, <2>5, SeqEqual
<1>10. a # <<>>
  BY <1>7
<1>. QED
  BY <1>1, <1>5, <1>6, <1>7, <1>8, <1>9, <1>10 DEF Text

\* A decimal is read back as itself (exact.rs dec_text, parse_dec).
LEMMA DecBack ==
  ASSUME NEW v \in Values, v[1] = "dc"
  PROVE  b_dc(b_to_str(v)) = v
<1>1. PICK c \in Machine, s \in 0..ScaleMax : v = <<"dc", <<c, s>>>> /\ s \in Nat /\ ScaleMax \in Nat
  <2>1. v[2] \in Decs /\ v = <<v[1], v[2]>>
    BY ValueIs
  <2>. QED
    BY <2>1, DecIsPair, ScalesAre
<1>2. v[2][1] = c /\ v[2][2] = s
  BY <1>1
<1>3. PICK x \in Bigs : x = from_i64(c) /\ IntOf(x) = c
  BY FromMachine DEF Machine
<1>4. PICK w \in Text : /\ w = InDigits(x) /\ Len(w) \in Nat \ {0} /\ DigitsValue(w) = Mag(x.d)
  BY DigitsWritten
<1> DEFINE digits == IF s = 0 THEN w ELSE Padded(w, s)
<1>5. digits \in Text /\ Len(digits) \in Nat /\ Len(digits) > s /\ DigitsValue(digits) = Mag(x.d)
  BY <1>1, <1>4, PaddedIs
<1>6. b_to_str(v) = LET cut == Len(digits) - s
                    IN  Str(x.neg, SubSeq(digits, 1, cut), s > 0, SubSeq(digits, cut + 1, Len(digits)))
  BY <1>2, <1>3, <1>4 DEF b_to_str, InDigits
<1>. HIDE DEF digits
<1>7. PICK l \in Nat, k \in Nat : l = Len(digits) /\ k = l - s /\ k <= l /\ k # 0 /\ l - k = s
  BY <1>1, <1>5
<1>7a. PICK dd \in Text : dd = digits /\ k <= Len(dd) /\ Len(dd) = l
  BY <1>5, <1>7
<1>8. PICK a \in Text, b \in Text : /\ a = SubSeq(digits, 1, k) /\ b = SubSeq(digits, k + 1, l)
                                    /\ a # <<>> /\ Len(b) = s /\ a \o b = digits
  <2>1. /\ SubSeq(dd, 1, k) \in Text /\ SubSeq(dd, k + 1, Len(dd)) \in Text
        /\ SubSeq(dd, 1, k) # <<>> /\ Len(SubSeq(dd, k + 1, Len(dd))) = Len(dd) - k
        /\ SubSeq(dd, 1, k) \o SubSeq(dd, k + 1, Len(dd)) = dd
    BY <1>7, <1>7a, CutText
  <2>. QED
    BY <1>7, <1>7a, <2>1
<1>9. PICK t : /\ t = [neg |-> x.neg, whole |-> a, point |-> (s > 0), frac |-> b]
               /\ b_to_str(v) = <<"str", t>>
  BY <1>6, <1>7, <1>8 DEF Str
<1>10. t.neg = x.neg /\ t.whole = a /\ t.frac = b /\ (t.point <=> s > 0)
  BY <1>9
<1>11. (IF x.neg THEN -1 ELSE 1) * Mag(x.d) = c
  <2>1. Mag(x.d) \in Nat
    BY BigIs
  <2>. QED
    BY <1>3, <2>1, IntOfIs
<1>12. (IF t.neg THEN -1 ELSE 1) * DigitsValue(t.whole \o t.frac) = c
  BY <1>5, <1>8, <1>10, <1>11
<1>13. fit(c) /\ ~(Len(t.frac) > ScaleMax) /\ Len(t.frac) = s
  <2>1. fit(c)
    BY FitMachine, MachineIs DEF Machine
  <2>2. Len(b) = s /\ t.frac = b
    BY <1>8, <1>10
  <2>3. ~(s > ScaleMax)
    BY <1>1
  <2>. QED
    BY <2>1, <2>2, <2>3, Zenon
<1>14. t.point => t.frac # <<>>
  <2>1. Len(<<>>) = 0
    OBVIOUS
  <2>2. s > 0 => b # <<>>
    <3>1. b = <<>> => Len(b) = 0
      BY <2>1
    <3>2. Len(b) = s
      BY <1>8
    <3>3. ~(0 > 0)
      OBVIOUS
    <3>. QED
      BY <3>1, <3>2, <3>3, Zenon
  <2>. QED
    BY <1>10, <2>2, Zenon
<1>15. parse_decimal(t) = DecV(c, s)
  BY <1>8, <1>10, <1>12, <1>13, <1>14 DEF parse_decimal
<1>16. b_dc(<<"str", t>>) = parse_decimal(t)
  BY DEF b_dc
<1>. QED
  BY <1>1, <1>9, <1>15, <1>16 DEF DecV

\* What a number is written as is read back as the same number, for every width and
\* radix (bigint.rs Display, parse_dec, from_f64_exact; exact.rs dec_text, parse_dec).
THEOREM TextReadsBackTheorem == Spec => []TextReadsBack
<1>1. TypeOK => TextReadsBack
  <2> SUFFICES ASSUME stack \in Seq(Values), NEW v \in Range(stack)
               PROVE  /\ v[1] = "int" => b_to_num(b_to_str(v)) = v
                      /\ v[1] = "big" => b_big(b_to_str(v)) = v
                      /\ v[1] = "dc" => b_dc(b_to_str(v)) = v
                      /\ is_float(v) /\ IsWhole(v[2]) => IntOf(from_f64_exact(v[2])) * One = Units(v[2])
    BY Zenon DEF TypeOK, TextReadsBack
  <2>1. v \in Values
    BY DEF Range
  <2>2. v = <<v[1], v[2]>>
    BY <2>1, ValueIs
  <2>3. CASE v[1] = "int"
    <3>1. PICK x \in Bigs : x = to_bigint(v) /\ ReadInt(b_to_str(v)[2]) = x
      BY <2>1, <2>3, ReadBack
    <3>2. b_to_str(v)[1] = "str" /\ b_to_str(v)[2].point = FALSE
      BY <2>1, <2>3, ReadBack
    <3>3. v[2] \in Machine /\ v[2] \in Int /\ fit(v[2])
      BY <2>1, <2>3, ValueIs, MachineIs, FitMachine DEF Machine
    <3>4. IntOf(x) = v[2]
      BY <2>3, <3>1, <3>3, FromMachine DEF to_bigint, Machine
    <3>5. x # None /\ None \notin Int
      BY ValueAssumption
    <3>6. fit_int(x) = Int_(v[2])
      BY <3>3, <3>4, <3>5, FitIntIs
    <3>7. b_to_num(b_to_str(v)) = fit_int(x)
      BY <3>1, <3>2, <3>5 DEF b_to_num, is_num
    <3>. QED
      BY <2>2, <2>3, <3>6, <3>7 DEF Int_, is_float
  <2>4. CASE v[1] = "big"
    <3>1. PICK x \in Bigs : x = to_bigint(v) /\ ReadInt(b_to_str(v)[2]) = x
      BY <2>1, <2>4, ReadBack
    <3>2. b_to_str(v)[1] = "str"
      BY <2>1, <2>4, ReadBack
    <3>3. x = v[2] /\ x # None
      BY <2>4, <3>1, ValueAssumption DEF to_bigint
    <3>4. b_big(b_to_str(v)) = BigV(x)
      BY <3>1, <3>2, <3>3 DEF b_big
    <3>. QED
      BY <2>2, <2>4, <3>3, <3>4 DEF BigV, is_float
  <2>5. CASE v[1] = "dc"
    BY <2>1, <2>5, DecBack DEF is_float
  <2>6. CASE is_float(v)
    <3>1. v[2] \in Floats
      BY <2>1, <2>6, ValueIs DEF is_float
    <3>. QED
      BY <2>6, <3>1, FromExactIs DEF is_float
  <2>. QED
    BY <2>3, <2>4, <2>5, <2>6
<1>. QED
  BY <1>1, TypeCorrect, PTL

-----------------------------------------------------------------------------
(* The grid of the floats.                                                 *)

LEMMA BitLenAt ==
  ASSUME NEW s \in Nat, NEW l \in Nat \ {0}, Power(2, l - 1) <= s, s < Power(2, l)
  PROVE  BitLen(s) = l
<1>1. PICK b \in Nat : b = BitLen(s) /\ s < Power(2, b) /\ \A j \in 0..b - 1 : Power(2, j) <= s
  BY BitLenIs
<1>2. ~(b < l)
  <2>1. SUFFICES ASSUME b < l PROVE FALSE
    OBVIOUS
  <2>2. l - 1 \in Nat /\ b <= l - 1
    BY <2>1
  <2>3. Power(2, b) \in Nat /\ Power(2, l - 1) \in Nat /\ Power(2, b) <= Power(2, l - 1)
    BY <2>2, PowerMono
  <2>. QED
    BY <1>1, <2>3
<1>3. ~(l < b)
  <2>1. SUFFICES ASSUME l < b PROVE FALSE
    OBVIOUS
  <2>2. l \in 0..b - 1 /\ Power(2, l) \in Nat
    BY <2>1, HalfOf
  <2>. QED
    BY <1>1, <2>2
<1>. QED
  BY <1>1, <1>2, <1>3

\* A significand, shifted so that its top bit is set, is the float of its magnitude.
LEMMA GridFloat ==
  ASSUME NEW neg \in BOOLEAN, NEW m \in 0..Power(2, Prec) - 1, NEW i \in Nat,
         i = 0 \/ Power(2, Prec - 1) <= m, MinExp + i <= EMax - (Prec - 1)
  PROVE  /\ m * Power(2, i) \in Mags /\ m * Power(2, i) \in Nat /\ m * Power(2, i) < Over
         /\ FromMag(neg, m * Power(2, i)) = Finite(neg, m, MinExp + i)
<1>1. PICK h \in Nat \ {0, 1} : h = Power(2, Prec - 1) /\ Power(2, Prec) = 2 * h
  BY MantsAre
<1>2. PICK w \in Nat \ {0} : w = Power(2, i)
  BY HalfOf
<1>3. /\ Prec \in Nat \ {0, 1} /\ MinExp \in Int /\ MinExp + i \in MinExp..EMax - (Prec - 1)
      /\ (MinExp + i) - MinExp = i
  BY ExponentsAre
<1>4. PICK s \in Nat : s = m * w /\ s < Over /\ s \in Mags
  <2>1. m * Power(2, (MinExp + i) - MinExp) \in Nat /\ m * Power(2, (MinExp + i) - MinExp) < Over
    BY <1>3, ScaledBelow
  <2>2. m * Power(2, (MinExp + i) - MinExp) \in Mags
    BY <1>3 DEF Mags
  <2>. QED
    BY <1>2, <1>3, <2>1, <2>2
<1>5. CASE i = 0
  <2>1. w = 1 /\ s = m
    <3>1. 2 \in Int
      OBVIOUS
    <3>2. w = 1
      BY <1>2, <1>5, <3>1, PowerZero
    <3>. QED
      BY <1>1, <1>4, <3>2
  <2>2. Cut(s) <= 0
    <3>1. PICK b \in Nat : b = BitLen(s) /\ \A j \in 0..b - 1 : Power(2, j) <= s
      BY BitLenIs
    <3>2. ~(b > Prec)
      <4>1. SUFFICES ASSUME b > Prec PROVE FALSE
        OBVIOUS
      <4>2. Prec \in 0..b - 1
        BY <1>3, <4>1
      <4>3. Power(2, Prec) <= m /\ Power(2, Prec) \in Nat
        BY <1>1, <2>1, <3>1, <4>2
      <4>. QED
        BY <4>3
    <3>. QED
      BY <1>3, <3>1, <3>2 DEF Cut
  <2>3. FromMag(neg, s) = Finite(neg, s, MinExp)
    BY <1>4, <2>2, FromMagIs
  <2>4. MinExp + i = MinExp
    BY <1>3, <1>5
  <2>. QED
    BY <1>2, <1>4, <2>1, <2>3, <2>4
<1>6. CASE i # 0
  <2>1. h <= m /\ m < 2 * h /\ m \in Nat
    BY <1>1, <1>6
  <2>2. PICK l \in Nat \ {0} : l = Prec + i /\ l - 1 = (Prec - 1) + i /\ Prec - 1 \in Nat /\ Prec \in Nat
    BY <1>3
  <2>3. Power(2, l - 1) = h * w /\ Power(2, l) = (2 * h) * w
    <3>1. 2 \in Int
      OBVIOUS
    <3>2. Power(2, (Prec - 1) + i) = Power(2, Prec - 1) * Power(2, i)
      BY <2>2, <3>1, PowerAdd
    <3>3. Power(2, Prec + i) = Power(2, Prec) * Power(2, i)
      BY <2>2, <3>1, PowerAdd
    <3>. QED
      BY <1>1, <1>2, <2>2, <3>2, <3>3
  <2>4. Power(2, l - 1) <= s /\ s < Power(2, l)
    <3>1. w * h <= w * m /\ w * m + w <= w * (2 * h)
      BY <2>1, Less
    <3>2. w * h = h * w /\ w * m = m * w /\ w * (2 * h) = (2 * h) * w /\ (2 * h) * w \in Nat /\ h * w \in Nat
      BY <2>1
    <3>. QED
      BY <1>4, <2>3, <3>1, <3>2
  <2>5. BitLen(s) = l
    BY <2>4, BitLenAt
  <2>6. Cut(s) = i /\ Cut(s) > 0
    BY <1>3, <1>6, <2>2, <2>5 DEF Cut
  <2>7. FromMag(neg, s) = Finite(neg, s \div Power(2, i), MinExp + i)
    BY <1>4, <2>6, FromMagIs
  <2>8. s \div w = m
    <3>1. s = w * m + 0 /\ 0 \in 0..w - 1 /\ m \in Int
      <4>1. m * w = w * m /\ w * m \in Nat
        BY <2>1
      <4>. QED
        BY <1>4, <2>1, <4>1
    <3>. QED
      BY <3>1, DivIs
  <2>. QED
    BY <1>2, <1>4, <2>7, <2>8
<1>. QED
  BY <1>5, <1>6

\* Above a point of the grid the next one is a unit of the last place away.
LEMMA NextMag ==
  ASSUME NEW m \in 0..Power(2, Prec) - 1, NEW i \in Nat,
         i = 0 \/ Power(2, Prec - 1) <= m, MinExp + i <= EMax - (Prec - 1)
  PROVE  /\ (m + 1) * Power(2, i) \in Mags /\ (m + 1) * Power(2, i) \in Nat
         /\ (m + 1) * Power(2, i) <= Over
         /\ \A s \in Mags : s > m * Power(2, i) => s >= (m + 1) * Power(2, i)
<1>1. PICK h \in Nat \ {0, 1} : h = Power(2, Prec - 1) /\ Power(2, Prec) = 2 * h
  BY MantsAre
<1>2. PICK w \in Nat \ {0} : w = Power(2, i)
  BY HalfOf
<1>3. /\ Prec \in Nat \ {0, 1} /\ MinExp \in Int /\ MinExp + i \in MinExp..EMax - (Prec - 1)
      /\ (MinExp + i) - MinExp = i /\ EMax \in Int /\ EMin \in Int /\ MinExp = EMin - (Prec - 1)
      /\ Over \in Nat \ {0} /\ EMax + 1 - MinExp \in Nat /\ Prec + i <= EMax + 1 - MinExp
  BY ExponentsAre, OneUnit
<1>4. m \in Nat /\ m + 1 <= 2 * h /\ m + 1 \in Nat
  BY <1>1
<1>5. Power(2, Prec + i) = (2 * h) * w /\ Power(2, Prec + i) <= Over
  <2>1. 2 \in Int /\ Prec \in Nat /\ Prec + i \in Nat
    BY <1>3
  <2>2. Power(2, Prec + i) = Power(2, Prec) * Power(2, i)
    BY <2>1, PowerAdd
  <2>3. Power(2, Prec + i) <= Power(2, EMax + 1 - MinExp)
    BY <1>3, <2>1, PowerMono
  <2>. QED
    BY <1>1, <1>2, <2>2, <2>3 DEF Over
<1>6. PICK t \in Nat : t = (m + 1) * w /\ t <= Over
  <2>1. w * (m + 1) <= w * (2 * h)
    BY <1>4, Less
  <2>2. w * (m + 1) = (m + 1) * w /\ w * (2 * h) = (2 * h) * w /\ (m + 1) * w \in Nat /\ (2 * h) * w \in Nat
    BY <1>4
  <2>. QED
    BY <1>3, <1>5, <2>1, <2>2
<1>7. t \in Mags
  <2>1. CASE m + 1 < 2 * h
    <3>1. m + 1 \in 0..Power(2, Prec) - 1
      BY <1>1, <1>4, <2>1
    <3>2. (m + 1) * Power(2, (MinExp + i) - MinExp) \in Mags
      <4>1. PICK k \in 0..Power(2, Prec) - 1, e \in MinExp..EMax - (Prec - 1) : k = m + 1 /\ e = MinExp + i
        BY <1>3, <3>1
      <4>2. k * Power(2, e - MinExp) \in Mags
        BY DEF Mags
      <4>. QED
        BY <4>1, <4>2
    <3>. QED
      BY <1>2, <1>3, <1>6, <3>2
  <2>2. CASE m + 1 = 2 * h
    <3>1. t = Power(2, Prec + i)
      BY <1>5, <1>6, <2>2
    <3>2. CASE MinExp + i = EMax - (Prec - 1)
      <4>1. Prec + i = EMax + 1 - MinExp
        BY <1>3, <3>2
      <4>. QED
        BY <3>1, <4>1, MagsAre DEF Over
    <3>3. CASE MinExp + i # EMax - (Prec - 1)
      <4>1. MinExp + (i + 1) \in MinExp..EMax - (Prec - 1) /\ (MinExp + (i + 1)) - MinExp = i + 1
        BY <1>3, <3>3
      <4>2. h \in 0..Power(2, Prec) - 1
        BY <1>1
      <4>3. h * Power(2, (MinExp + (i + 1)) - MinExp) \in Mags
        BY <4>1, <4>2 DEF Mags
      <4>4. Power(2, i + 1) = 2 * w
        <5>1. 2 \in Int
          OBVIOUS
        <5>. QED
          BY <1>2, <5>1, PowerNext
      <4>5. (2 * h) * w = h * (2 * w)
        OBVIOUS
      <4>. QED
        BY <1>5, <3>1, <4>1, <4>3, <4>4, <4>5
    <3>. QED
      BY <3>2, <3>3
  <2>. QED
    BY <1>1, <1>4, <2>1, <2>2
<1>8. ASSUME NEW s \in Mags, s > m * w PROVE s >= t
  <2>1. CASE s = Over
    BY <1>3, <1>6, <2>1
  <2>2. CASE s # Over
    <3>1. PICK k \in 0..Power(2, Prec) - 1, e \in MinExp..EMax - (Prec - 1) : s = k * Power(2, e - MinExp)
      BY <2>2 DEF Mags
    <3>2. PICK j \in Nat : j = e - MinExp
      BY <3>1, ExponentsAre
    <3>3. PICK v \in Nat \ {0} : v = Power(2, j) /\ s = k * v
      BY <3>1, <3>2, HalfOf
    <3>4. k \in Nat /\ k < 2 * h
      BY <1>1
    <3>5. CASE j >= i
      <4>1. PICK u \in Nat \ {0} : v = u * w
        <5>1. PICK y \in Nat : y = j - i /\ j = y + i
          BY <3>5
        <5>2. 2 \in Int
          OBVIOUS
        <5>3. Power(2, y + i) = Power(2, y) * Power(2, i) /\ Power(2, y) \in Nat \ {0}
          BY <5>2, PowerAdd, HalfOf
        <5>. QED
          BY <1>2, <3>3, <5>1, <5>3
      <4>2. PICK z \in Nat : z = k * u
        BY <3>4
      <4>3. s = w * z
        <5>1. k * (u * w) = w * (k * u)
          BY <3>4
        <5>. QED
          BY <3>3, <4>1, <4>2, <5>1
      <4>4. w * m < w * z
        <5>1. m * w = w * m
          BY <1>4
        <5>. QED
          BY <1>8, <4>3, <5>1
      <4>5. m < z
        BY <1>4, <4>4, Less
      <4>6. w * (m + 1) <= w * z
        BY <1>4, <4>5, Less
      <4>7. w * (m + 1) = (m + 1) * w
        BY <1>4
      <4>. QED
        BY <1>6, <4>3, <4>6, <4>7
    <3>6. CASE j < i
      <4>1. h <= m
        BY <1>1, <3>2, <3>6
      <4>2. PICK u \in Nat \ {0} : w = (2 * u) * v
        <5>1. PICK y \in Nat : y = i - j - 1 /\ i = (y + 1) + j
          BY <3>2, <3>6
        <5>2. 2 \in Int /\ y + 1 \in Nat
          OBVIOUS
        <5>3. Power(2, (y + 1) + j) = Power(2, y + 1) * Power(2, j)
          BY <5>2, PowerAdd
        <5>4. Power(2, y + 1) = 2 * Power(2, y) /\ Power(2, y) \in Nat \ {0}
          BY <5>2, PowerNext, HalfOf
        <5>. QED
          BY <1>2, <3>3, <5>1, <5>3, <5>4
      <4>3. v * k < v * (2 * h)
        <5>1. v * k + v <= v * (2 * h)
          BY <3>4, Less
        <5>2. v * k \in Nat /\ v * (2 * h) \in Nat
          BY <3>4
        <5>. QED
          BY <5>1, <5>2
      <4>4. v * (2 * h) <= w * h
        <5>1. PICK x \in Nat : x = v * (2 * h)
          OBVIOUS
        <5>2. w * h = x * u
          <6>1. ((2 * u) * v) * h = (v * (2 * h)) * u
            OBVIOUS
          <6>. QED
            BY <4>2, <5>1, <6>1
        <5>3. x <= x * u
          OBVIOUS
        <5>. QED
          BY <5>1, <5>2, <5>3
      <4>5. w * h <= w * m
        BY <1>4, <4>1, Less
      <4>6. w * m = m * w /\ v * k = k * v /\ w * h \in Nat /\ m * w \in Nat /\ k * v \in Nat /\ v * (2 * h) \in Nat
        BY <1>4, <3>4
      <4>. QED
        BY <1>8, <3>3, <4>3, <4>4, <4>5, <4>6
    <3>. QED
      BY <3>2, <3>5, <3>6
  <2>. QED
    BY <2>1, <2>2
<1>. QED
  BY <1>2, <1>6, <1>7, <1>8

\* The nearest float of a quotient between two neighbours, ties to even.
LEMMA NearestGrid ==
  ASSUME NEW neg \in BOOLEAN, NEW m \in 0..Power(2, Prec) - 1, NEW i \in Nat,
         i = 0 \/ Power(2, Prec - 1) <= m, MinExp + i <= EMax - (Prec - 1),
         NEW low \in Nat, NEW high \in Nat, low = m * Power(2, i), high = (m + 1) * Power(2, i),
         NEW p \in Nat, NEW q \in Nat \ {0}, low * q <= p, p < high * q
  PROVE  Nearest(neg, p, q) =
            IF 2 * p < (low + high) * q \/ (2 * p = (low + high) * q /\ m % 2 = 0)
            THEN FromMag(neg, low) ELSE FromMag(neg, high)
<1> DEFINE below == Max({s \in Mags : s * q <= p})
           above == Min({s \in Mags : s > below})
<1>1. low \in Mags /\ low < Over /\ FromMag(neg, low) = Finite(neg, m, MinExp + i)
  BY GridFloat
<1>2. high \in Mags /\ high <= Over /\ \A s \in Mags : s > low => s >= high
  BY NextMag
<1>3. low < high
  <2>1. PICK w \in Nat \ {0} : w = Power(2, i)
    BY HalfOf
  <2>2. m \in Nat
    BY MantsAre
  <2>3. (m + 1) * w = m * w + w /\ m * w \in Nat
    BY <2>2
  <2>. QED
    BY <2>1, <2>3
<1>4. p < Over * q /\ Over * q \in Nat
  <2>1. PICK v \in Nat : v = Over
    BY OneUnit
  <2>2. q * high <= q * v
    BY <1>2, <2>1, Less
  <2>3. q * high = high * q /\ q * v = v * q /\ v * q \in Nat /\ high * q \in Nat
    OBVIOUS
  <2>. QED
    BY <2>1, <2>2, <2>3
<1>5. /\ below \in Mags /\ above \in Mags /\ below \in Nat /\ above \in Nat /\ below < above /\ below * q <= p
      /\ \A s \in Mags : (s * q <= p => s <= below) /\ (s > below => above <= s)
  BY <1>4, Around
<1>6. Nearest(neg, p, q) = LET past == 2 * p - (below + above) * q
                           IN  IF past < 0 \/ (past = 0 /\ FromMag(neg, below).m % 2 = 0)
                               THEN FromMag(neg, below) ELSE FromMag(neg, above)
  <2>1. ~(p >= Over * q)
    BY <1>4
  <2>. QED
    BY <2>1 DEF Nearest, Closer
<1>. HIDE DEF below, above
<1>7. below = low
  <2>1. low <= below
    BY <1>1, <1>5
  <2>2. ~(low < below)
    <3>1. SUFFICES ASSUME low < below PROVE FALSE
      OBVIOUS
    <3>2. high <= below
      BY <1>2, <1>5, <3>1
    <3>3. q * high <= q * below
      BY <1>5, <3>2, Less
    <3>4. q * high = high * q /\ q * below = below * q /\ below * q \in Nat /\ high * q \in Nat
      BY <1>5
    <3>. QED
      BY <1>5, <3>3, <3>4
  <2>. QED
    BY <1>5, <2>1, <2>2
<1>8. above = high
  BY <1>2, <1>3, <1>5, <1>7
<1>9. FromMag(neg, below).m = m
  BY <1>1, <1>7 DEF Finite
<1>10. PICK x \in Nat, y \in Nat : x = 2 * p /\ y = (low + high) * q
  OBVIOUS
<1>11. (x - y < 0 <=> x < y) /\ (x - y = 0 <=> x = y)
  OBVIOUS
<1>. QED
  BY <1>6, <1>7, <1>8, <1>9, <1>10, <1>11

-----------------------------------------------------------------------------
(* The rounding of a significand and of a quotient below the normal floats. *)

\* Rounding gives the magnitude that was chosen, or nothing when it overflows.
LEMMA RoundedUp ==
  ASSUME NEW neg \in BOOLEAN, NEW mant \in Mants, NEW exp \in Int, EMin <= exp, exp <= EMax,
         NEW i \in Nat, i = exp - EMin, NEW c, NEW st
  PROVE  LET f == FromMag(neg, (IF c /\ (st \/ mant % 2 = 1) THEN mant + 1 ELSE mant) * Power(2, i))
         IN  Rounded(neg, mant, exp, c, st) = IF f.kind = "inf" THEN None ELSE f
<1>1. PICK h \in Nat \ {0, 1} : h = Power(2, Prec - 1) /\ Power(2, Prec) = 2 * h /\ h \in Mants
  BY MantsAre
<1>2. mant \in Nat \ {0} /\ mant < 2 * h /\ h <= mant /\ mant \in 0..Power(2, Prec) - 1
  <2>1. mant \in Nat \ {0} /\ mant < Power(2, Prec) /\ mant \in 0..Power(2, Prec) - 1
    BY MantsAre
  <2>2. Power(2, Prec - 1) <= mant
    BY DEF Mants
  <2>. QED
    BY <1>1, <2>1, <2>2
<1>3. /\ EMin \in Int /\ EMax \in Int /\ Prec \in Nat \ {0, 1} /\ MinExp \in Int /\ MinExp = EMin - (Prec - 1)
      /\ MinExp + i = exp - (Prec - 1) /\ MinExp + i <= EMax - (Prec - 1)
  BY ExponentsAre
<1>4. \A m \in Mants, e \in Int : \A lost :
        Packed(neg, m, e, lost) = IF e > EMax THEN None
                                  ELSE IF e < MinExp THEN signed_zero(neg)
                                  ELSE IF e >= EMin THEN Finite(neg, m, e - (Prec - 1))
                                  ELSE Packed(neg, m, e, lost)
  BY DEF Packed
<1>5. \A m \in Nat, j \in Int : Finite(neg, m, j).kind = "finite"
  BY DEF Finite
<1>6. CASE ~(c /\ (st \/ mant % 2 = 1))
  <2>1. Rounded(neg, mant, exp, c, st) = Packed(neg, mant, exp, c \/ st)
    BY <1>6 DEF Rounded
  <2>2. Packed(neg, mant, exp, c \/ st) = Finite(neg, mant, exp - (Prec - 1))
    <3>1. ~(exp > EMax) /\ ~(exp < MinExp) /\ exp >= EMin
      BY <1>3
    <3>. QED
      BY <3>1 DEF Packed
  <2>3. FromMag(neg, mant * Power(2, i)) = Finite(neg, mant, exp - (Prec - 1))
    <3>1. Power(2, Prec - 1) <= mant
      BY <1>1, <1>2
    <3>2. FromMag(neg, mant * Power(2, i)) = Finite(neg, mant, MinExp + i)
      BY <1>2, <1>3, <3>1, GridFloat
    <3>. QED
      BY <1>3, <3>2
  <2>4. Finite(neg, mant, exp - (Prec - 1)).kind # "inf"
    BY DEF Finite
  <2>. QED
    BY <1>6, <2>1, <2>2, <2>3, <2>4
<1>7. CASE c /\ (st \/ mant % 2 = 1)
  <2>1. CASE mant + 1 # 2 * h
    <3>1. Rounded(neg, mant, exp, c, st) = Packed(neg, mant + 1, exp, TRUE)
      BY <1>1, <1>7, <2>1 DEF Rounded
    <3>2. PICK m \in Nat : m = mant + 1 /\ m \in 0..Power(2, Prec) - 1 /\ Power(2, Prec - 1) <= m
      BY <1>1, <1>2, <2>1
    <3>3. Packed(neg, m, exp, TRUE) = Finite(neg, m, exp - (Prec - 1))
      <4>1. ~(exp > EMax) /\ ~(exp < MinExp) /\ exp >= EMin
        BY <1>3
      <4>. QED
        BY <4>1 DEF Packed
    <3>4. FromMag(neg, m * Power(2, i)) = Finite(neg, m, MinExp + i)
      BY <1>3, <3>2, GridFloat
    <3>5. Finite(neg, m, exp - (Prec - 1)).kind # "inf"
      BY DEF Finite
    <3>. QED
      BY <1>3, <1>7, <3>1, <3>2, <3>3, <3>4, <3>5
  <2>2. CASE mant + 1 = 2 * h
    <3>1. Rounded(neg, mant, exp, c, st) = Packed(neg, h, exp + 1, TRUE)
      BY <1>1, <1>7, <2>2 DEF Rounded
    <3>2. (mant + 1) * Power(2, i) = h * Power(2, i + 1) /\ h * Power(2, i + 1) = Power(2, (Prec - 1) + (i + 1))
      <4>1. PICK w \in Nat \ {0} : w = Power(2, i)
        BY HalfOf
      <4>2. 2 \in Int /\ Prec - 1 \in Nat /\ i + 1 \in Nat
        BY <1>3
      <4>3. Power(2, i + 1) = 2 * w
        BY <4>1, <4>2, PowerNext
      <4>4. (2 * h) * w = h * (2 * w)
        OBVIOUS
      <4>5. Power(2, (Prec - 1) + (i + 1)) = Power(2, Prec - 1) * Power(2, i + 1)
        BY <4>2, PowerAdd
      <4>. QED
        BY <1>1, <2>2, <4>1, <4>3, <4>4, <4>5
    <3>3. CASE exp = EMax
      <4>1. Packed(neg, h, exp + 1, TRUE) = None
        <5>1. exp + 1 > EMax
          BY <1>3, <3>3
        <5>. QED
          BY <5>1 DEF Packed
      <4>2. (Prec - 1) + (i + 1) = EMax + 1 - MinExp
        BY <1>3, <3>3
      <4>3. (mant + 1) * Power(2, i) = Over
        BY <3>2, <4>2 DEF Over
      <4>4. FromMag(neg, (mant + 1) * Power(2, i)) = Infinite(neg)
        <5>1. Over \in Nat /\ Over >= Over
          BY OneUnit
        <5>. QED
          BY <4>3, <5>1, FromMagIs
      <4>5. Infinite(neg).kind = "inf"
        BY DEF Infinite
      <4>. QED
        BY <1>7, <3>1, <4>1, <4>4, <4>5
    <3>4. CASE exp # EMax
      <4>1. Packed(neg, h, exp + 1, TRUE) = Finite(neg, h, (exp + 1) - (Prec - 1))
        <5>1. ~(exp + 1 > EMax) /\ ~(exp + 1 < MinExp) /\ exp + 1 >= EMin
          BY <1>3, <3>4
        <5>. QED
          BY <5>1 DEF Packed
      <4>2. FromMag(neg, h * Power(2, i + 1)) = Finite(neg, h, MinExp + (i + 1))
        <5>1. h \in 0..Power(2, Prec) - 1 /\ i + 1 \in Nat /\ Power(2, Prec - 1) <= h
              /\ MinExp + (i + 1) <= EMax - (Prec - 1)
          BY <1>1, <1>3, <3>4
        <5>. QED
          BY <5>1, GridFloat
      <4>3. MinExp + (i + 1) = (exp + 1) - (Prec - 1)
        BY <1>3
      <4>4. Finite(neg, h, (exp + 1) - (Prec - 1)).kind # "inf"
        BY DEF Finite
      <4>5. PICK t : t = (mant + 1) * Power(2, i) /\ t = h * Power(2, i + 1)
        BY <3>2
      <4>6. FromMag(neg, t).kind # "inf" /\ Rounded(neg, mant, exp, c, st) = FromMag(neg, t)
        BY <3>1, <4>1, <4>2, <4>3, <4>4, <4>5
      <4>7. (IF c /\ (st \/ mant % 2 = 1) THEN mant + 1 ELSE mant) * Power(2, i) = t
        BY <1>7, <4>5
      <4>. QED
        BY <4>6, <4>7
    <3>. QED
      BY <3>3, <3>4
  <2>. QED
    BY <2>1, <2>2
<1>. QED
  BY <1>6, <1>7

LEMMA HalfNormal == \E g \in Nat \ {0} : Power(2, Prec - 1) = 2 * g
<1>1. PICK y \in Nat : y = Prec - 2 /\ y + 1 = Prec - 1
  BY ExponentsAre
<1>2. 2 \in Int /\ 2 \in Nat \ {0}
  OBVIOUS
<1>3. Power(2, y) \in Nat \ {0}
  BY <1>2, PowerNat
<1>4. Power(2, y + 1) = 2 * Power(2, y)
  BY <1>2, PowerNext
<1>. QED
  BY <1>1, <1>3, <1>4

\* Half a unit below the least normal float both roundings give that float.
LEMMA RoundedTiny ==
  ASSUME NEW neg \in BOOLEAN, NEW mant \in Nat, mant = Power(2, Prec) - 1, NEW c, NEW st
  PROVE  Rounded(neg, mant, EMin - 1, c, st) = Finite(neg, Power(2, Prec - 1), MinExp)
<1>1. PICK h \in Nat \ {0, 1} : h = Power(2, Prec - 1) /\ Power(2, Prec) = 2 * h
  BY MantsAre
<1>2. /\ EMin \in Int /\ EMax \in Int /\ Prec \in Nat \ {0, 1} /\ MinExp \in Int /\ MinExp = EMin - (Prec - 1)
      /\ EMin < 0 /\ Prec <= EMax
  BY ExponentsAre
<1>3. Power(2, 0) = 1 /\ Power(2, 1) = 2
  <2>1. 2 \in Int
    OBVIOUS
  <2>. QED
    BY <2>1, PowerZero, PowerOne
<1>4. PICK g \in Nat \ {0} : h = 2 * g
  BY <1>1, HalfNormal
<1>5. mant \div 2 = h - 1 /\ mant \div 1 = mant /\ mant % 2 = 1 /\ (h - 1) % 2 = 1
  <2>1. mant = 2 * (h - 1) + 1 /\ h - 1 = 2 * (g - 1) + 1 /\ mant = 1 * mant + 0
    BY <1>1, <1>4
  <2>2. 1 \in 0..2 - 1 /\ 0 \in 0..1 - 1 /\ 2 \in Nat \ {0} /\ 1 \in Nat \ {0} /\ h - 1 \in Int /\ g - 1 \in Int
    OBVIOUS
  <2>. QED
    BY <2>1, <2>2, DivIs
<1>6. CASE c /\ (st \/ mant % 2 = 1)
  <2>1. mant + 1 = Power(2, Prec)
    BY <1>1
  <2>2. Rounded(neg, mant, EMin - 1, c, st) = Packed(neg, h, (EMin - 1) + 1, TRUE)
    BY <1>1, <1>6, <2>1 DEF Rounded
  <2>3. Packed(neg, h, (EMin - 1) + 1, TRUE) = Finite(neg, h, ((EMin - 1) + 1) - (Prec - 1))
    <3>1. ~((EMin - 1) + 1 > EMax) /\ ~((EMin - 1) + 1 < MinExp) /\ (EMin - 1) + 1 >= EMin
      BY <1>2
    <3>. QED
      BY <3>1 DEF Packed
  <2>4. ((EMin - 1) + 1) - (Prec - 1) = MinExp
    BY <1>2
  <2>. QED
    BY <1>1, <2>2, <2>3, <2>4
<1>7. CASE ~(c /\ (st \/ mant % 2 = 1))
  <2>1. Rounded(neg, mant, EMin - 1, c, st) = Packed(neg, mant, EMin - 1, c \/ st)
    BY <1>7 DEF Rounded
  <2>2. EMin - (EMin - 1) = 1 /\ 1 - 1 = 0
    BY <1>2
  <2>3. ~(EMin - 1 > EMax) /\ ~(EMin - 1 < MinExp) /\ ~(EMin - 1 >= EMin)
    BY <1>2
  <2>4. Packed(neg, mant, EMin - 1, c \/ st) = Finite(neg, (mant \div 2) + 1, MinExp)
    BY <1>3, <1>5, <2>2, <2>3 DEF Packed
  <2>. QED
    BY <1>1, <1>5, <2>1, <2>4
<1>. QED
  BY <1>6, <1>7

\* A quotient more than half a unit below the least normal float is subnormal;
\* one within it is that float.
LEMMA BelowNormal ==
  ASSUME NEW neg \in BOOLEAN, NEW p \in Nat, NEW q \in Nat \ {0}, p < Power(2, Prec - 1) * q
  PROVE  /\ 2 * p < (Power(2, Prec) - 1) * q => Subnormal(Nearest(neg, p, q))
         /\ 2 * p >= (Power(2, Prec) - 1) * q =>
                Nearest(neg, p, q) = Finite(neg, Power(2, Prec - 1), MinExp)
<1>1. PICK h \in Nat \ {0, 1} : h = Power(2, Prec - 1) /\ Power(2, Prec) = 2 * h
  BY MantsAre
<1>2. /\ EMin \in Int /\ EMax \in Int /\ Prec \in Nat \ {0, 1} /\ MinExp \in Int /\ MinExp = EMin - (Prec - 1)
      /\ MinExp + 0 = MinExp /\ MinExp + 0 <= EMax - (Prec - 1)
  BY ExponentsAre
<1>3. Power(2, 0) = 1
  <2>1. 2 \in Int
    OBVIOUS
  <2>. QED
    BY <2>1, PowerZero
<1>4. PICK t \in Nat, r \in 0..q - 1 : p = q * t + r
  BY QuotNat
<1>5. t < h
  <2>1. SUFFICES ASSUME h <= t PROVE FALSE
    OBVIOUS
  <2>2. q * h <= q * t
    BY <2>1, Less
  <2>3. q * h = h * q /\ q * t \in Nat /\ h * q \in Nat
    OBVIOUS
  <2>. QED
    BY <1>1, <1>4, <2>2, <2>3
<1>6. \A m \in 0..h : m * Power(2, 0) = m /\ FromMag(neg, m) = Finite(neg, m, MinExp)
  <2>1. TAKE m \in 0..h
  <2>2. m * Power(2, 0) = m /\ m \in 0..Power(2, Prec) - 1 /\ 0 \in Nat
    BY <1>1, <1>3
  <2>3. FromMag(neg, m * Power(2, 0)) = Finite(neg, m, MinExp + 0)
    BY <1>2, <2>2, GridFloat
  <2>. QED
    BY <1>2, <2>2, <2>3
<1>7. PICK z \in Nat : z = t + 1 /\ z \in 0..h
  BY <1>5
<1>8. Nearest(neg, p, q) = IF 2 * p < (t + z) * q \/ (2 * p = (t + z) * q /\ t % 2 = 0)
                           THEN FromMag(neg, t) ELSE FromMag(neg, z)
  <2>1. t * q <= p /\ p < z * q
    <3>1. q * t = t * q /\ (t + 1) * q = t * q + q /\ t * q \in Nat
      OBVIOUS
    <3>. QED
      BY <1>4, <1>7, <3>1
  <2>2. t = t * Power(2, 0) /\ z = (t + 1) * Power(2, 0) /\ t \in 0..Power(2, Prec) - 1 /\ 0 \in Nat
    BY <1>1, <1>3, <1>5, <1>7
  <2>. QED
    BY <1>2, <2>1, <2>2, NearestGrid
<1>9. PICK x \in Nat, y \in Nat, b \in Nat : x = 2 * p /\ y = (t + z) * q /\ b = (Power(2, Prec) - 1) * q
  <2>1. (2 * h - 1) * q \in Nat
    <3>1. 2 * h - 1 \in Nat
      OBVIOUS
    <3>. QED
      BY <3>1
  <2>2. PICK x \in Nat, y \in Nat : x = 2 * p /\ y = (t + z) * q
    OBVIOUS
  <2>3. PICK b \in Nat : b = (2 * h - 1) * q
    BY <2>1
  <2>. QED
    BY <1>1, <2>2, <2>3
<1>10. CASE z = h
  <2>1. y = b
    <3>1. t + z = 2 * h - 1
      BY <1>7, <1>10
    <3>. QED
      BY <1>1, <1>9, <3>1
  <2>2. t % 2 # 0
    <3>1. PICK g \in Nat \ {0} : h = 2 * g
      BY <1>1, HalfNormal
    <3>2. t = 2 * (g - 1) + 1 /\ 1 \in 0..2 - 1 /\ g - 1 \in Int /\ 2 \in Nat \ {0}
      BY <1>7, <1>10, <3>1
    <3>3. t % 2 = 1
      BY <3>2, DivIs
    <3>. QED
      BY <3>3
  <2>3. x < b => Nearest(neg, p, q) = FromMag(neg, t)
    BY <1>8, <1>9, <2>1
  <2>4. x >= b => Nearest(neg, p, q) = FromMag(neg, z)
    <3>1. x >= b => ~(x < y)
      BY <2>1
    <3>. QED
      BY <1>8, <1>9, <2>2, <3>1
  <2>5. FromMag(neg, t) = Finite(neg, t, MinExp) /\ FromMag(neg, z) = Finite(neg, h, MinExp)
    BY <1>5, <1>6, <1>7, <1>10
  <2>6. Subnormal(Finite(neg, t, MinExp))
    BY <1>1, <1>5 DEF Subnormal, Finite
  <2>. QED
    BY <1>1, <1>9, <2>3, <2>4, <2>5, <2>6
<1>11. CASE z # h
  <2>1. FromMag(neg, t) = Finite(neg, t, MinExp) /\ FromMag(neg, z) = Finite(neg, z, MinExp) /\ z < h
    BY <1>5, <1>6, <1>7, <1>11
  <2>2. Subnormal(Finite(neg, t, MinExp)) /\ Subnormal(Finite(neg, z, MinExp))
    BY <1>1, <1>5, <2>1 DEF Subnormal, Finite
  <2>3. x < b
    <3>1. q * z + q <= q * h
      BY <2>1, Less
    <3>2. (t + 1) * q = q * t + q /\ q * h = h * q /\ (2 * h - 1) * q = 2 * (h * q) - q
          /\ q * t \in Nat /\ q * z \in Nat /\ h * q \in Nat
      OBVIOUS
    <3>3. q * z = q * t + q
      BY <1>7
    <3>. QED
      BY <1>1, <1>4, <1>9, <3>1, <3>2, <3>3
  <2>. QED
    BY <1>8, <1>9, <2>1, <2>2, <2>3
<1>. QED
  BY <1>10, <1>11

\* The sizes of two magnitudes that are not zero.
LEMMA SizesAre ==
  ASSUME NEW a \in Nats, ~is_zero(a)
  PROVE  \E n \in Nat \ {0}, l \in Nat \ {0} :
            /\ n = IntOf(a) /\ l = bit_len(a) /\ l - 1 \in Nat
            /\ Power(2, l - 1) <= n /\ n < Power(2, l)
            /\ Power(2, l - 1) \in Nat \ {0} /\ Power(2, l) \in Nat \ {0}
<1>1. /\ a \in Bigs /\ IntOf(a) = Mag(a.d) /\ Mag(a.d) \in Nat /\ IntOf(a) # 0 /\ a.d # <<>>
  BY NatIs DEF is_zero
<1>2. /\ bit_len(a) \in Nat \ {0} /\ Mag(a.d) < Power(2, bit_len(a)) /\ Power(2, bit_len(a) - 1) <= Mag(a.d)
  BY <1>1, BitLenOf
<1>3. 2 \in Nat \ {0} /\ bit_len(a) - 1 \in Nat /\ bit_len(a) \in Nat
  BY <1>2
<1>4. Power(2, bit_len(a) - 1) \in Nat \ {0} /\ Power(2, bit_len(a)) \in Nat \ {0}
  BY <1>3, PowerNat
<1>. QED
  BY <1>1, <1>2, <1>3, <1>4

\* The dividend, shifted so that the quotient has Prec + 3 bits, or one more.
LEMMA QuotientSize ==
  ASSUME NEW a \in Nats, NEW b \in Nats, ~is_zero(a), ~is_zero(b),
         NEW s \in Int, s = Prec + 3 - (bit_len(a) - bit_len(b))
  PROVE  \E q \in Nats, v \in Nat \ {0} : \E rem \in 0..v - 1, r \in {3, 4} :
            /\ v = IntOf(b) * Lowered(s) /\ IntOf(a) * Raised(s) = IntOf(q) * v + rem
            /\ bit_len(q) = Prec + r
            /\ \A neg : \E sticky : /\ sticky <=> rem # 0
                                    /\ DivScaled(a, b, s, neg) = f64_from_scaled(q, -s, sticky, neg)
<1>1. PICK n \in Nat \ {0}, la \in Nat \ {0} :
            /\ n = IntOf(a) /\ la = bit_len(a) /\ la - 1 \in Nat
            /\ Power(2, la - 1) <= n /\ n < Power(2, la)
            /\ Power(2, la - 1) \in Nat \ {0} /\ Power(2, la) \in Nat \ {0}
  BY SizesAre
<1>2. PICK m \in Nat \ {0}, lb \in Nat \ {0} :
            /\ m = IntOf(b) /\ lb = bit_len(b) /\ lb - 1 \in Nat
            /\ Power(2, lb - 1) <= m /\ m < Power(2, lb)
            /\ Power(2, lb - 1) \in Nat \ {0} /\ Power(2, lb) \in Nat \ {0}
  BY SizesAre
<1>3. Prec \in Nat \ {0, 1} /\ s = Prec + 3 - (la - lb)
  BY <1>1, <1>2, ExponentsAre
<1>4. PICK x \in Nat \ {0}, y \in Nat \ {0} : x = Raised(s) /\ y = Lowered(s)
  <2>1. PICK u \in Nat, v \in Nat : u + s = v
    <3>1. la + s = Prec + 3 + lb /\ Prec + 3 + lb \in Nat
      BY <1>3
    <3>. QED
      BY <3>1
  <2>. QED
    BY <2>1, ShiftPair
<1> DEFINE a1 == IF s >= 0 THEN shl(a, s) ELSE a
           b1 == IF s >= 0 THEN b ELSE shl(b, -s)
           qr == divmod_floor(a1, b1)
<1>5. /\ a1 \in Bigs /\ IntOf(a1) = n * x
      /\ b1 \in Bigs /\ IntOf(b1) = m * y
  <2>1. a \in Bigs /\ b \in Bigs
    BY NatIs
  <2>2. CASE s >= 0
    <3>1. s \in Nat /\ x = Power(2, s) /\ y = 1 /\ a1 = shl(a, s) /\ b1 = b
      BY <1>4, <2>2 DEF Raised, Lowered
    <3>2. shl(a, s) \in Bigs /\ IntOf(shl(a, s)) = IntOf(a) * Power(2, s)
      BY <2>1, <3>1, ShlIs
    <3>. QED
      BY <1>1, <1>2, <2>1, <3>1, <3>2
  <2>3. CASE ~(s >= 0)
    <3>1. PICK t \in Nat : t = -s
      BY <2>3
    <3>2. x = 1 /\ y = Power(2, t) /\ a1 = a /\ b1 = shl(b, t)
      BY <1>4, <2>3, <3>1 DEF Raised, Lowered
    <3>3. shl(b, t) \in Bigs /\ IntOf(shl(b, t)) = IntOf(b) * Power(2, t)
      BY <2>1, ShlIs
    <3>. QED
      BY <1>1, <1>2, <2>1, <3>2, <3>3
  <2>. QED
    BY <2>2, <2>3
<1>6. PICK v \in Nat \ {0}, w \in Nat \ {0} : v = m * y /\ w = n * x
  OBVIOUS
<1>7. PICK k \in Int, rem \in 0..v - 1 : w = k * v + rem /\ k = IntOf(qr[1]) /\ rem = IntOf(qr[2])
  <2>1. IntOf(b1) # 0 /\ IntOf(b1) > 0
    BY <1>5, <1>6
  <2>2. /\ qr \in Bigs \X Bigs
        /\ IntOf(a1) = IntOf(qr[1]) * IntOf(b1) + IntOf(qr[2])
        /\ IntOf(qr[2]) \in 0..IntOf(b1) - 1
    BY <1>5, <2>1, DivModFloorIs
  <2>3. qr[1] \in Bigs /\ IntOf(qr[1]) \in Int
    BY <2>2, IntOfIs
  <2>. QED
    BY <1>5, <1>6, <2>2, <2>3
<1>8. qr \in Bigs \X Bigs /\ qr[1] \in Bigs /\ qr[2] \in Bigs
  BY <1>5, DivModFloorIs
<1>9. PICK c \in Nat \ {0} : c = Power(2, Prec + 2) /\ Power(2, Prec + 3) = 2 * c /\ Power(2, Prec + 4) = 4 * c
  <2>1. 2 \in Int /\ 2 \in Nat \ {0} /\ Prec + 2 \in Nat /\ Prec + 3 \in Nat /\ (Prec + 2) + 1 = Prec + 3
        /\ (Prec + 3) + 1 = Prec + 4
    BY <1>3
  <2>2. Power(2, Prec + 2) \in Nat \ {0}
    BY <2>1, PowerNat
  <2>3. Power(2, (Prec + 2) + 1) = 2 * Power(2, Prec + 2) /\ Power(2, (Prec + 3) + 1) = 2 * Power(2, Prec + 3)
    BY <2>1, PowerNext
  <2>. QED
    BY <2>1, <2>2, <2>3
<1>10. v * c <= w
  <2>1. PICK g \in Nat \ {0}, h \in Nat \ {0} : g = Power(2, la - 1) /\ h = Power(2, lb)
    BY <1>1, <1>2
  <2>2. g * x = (c * h) * y
    <3>1. PICK u \in Nat, z \in Nat : u = la - 1 /\ z = (Prec + 2) + lb /\ u + s = z /\ Prec + 2 \in Nat
      BY <1>3
    <3>2. Power(2, u) * Raised(s) = Power(2, z) * Lowered(s)
      BY <3>1, ShiftPair
    <3>4. Power(2, (Prec + 2) + lb) = Power(2, Prec + 2) * Power(2, lb)
      <4>1. Prec + 2 \in Nat /\ lb \in Nat
        BY <3>1
      <4>. QED
        BY ONLY <4>1, TwoAdd
    <3>. QED
      BY <1>4, <1>9, <2>1, <3>1, <3>2, <3>4
  <2>3. PICK cy \in Nat \ {0} : cy = c * y
    OBVIOUS
  <2>4. x * g <= x * n /\ cy * m <= cy * h
    <3>1. g <= n /\ m <= h
      BY <1>1, <1>2, <2>1
    <3>. QED
      BY <3>1, Less
  <2>5. x * g = g * x /\ x * n = n * x /\ (c * h) * y = (c * y) * h /\ (m * y) * c = (c * y) * m
        /\ (c * y) * m \in Nat /\ (c * y) * h \in Nat /\ n * x \in Nat
    OBVIOUS
  <2>. QED
    BY <1>6, <2>2, <2>3, <2>4, <2>5
<1>11. w < v * (4 * c)
  <2>1. PICK g \in Nat \ {0}, h \in Nat \ {0} : g = Power(2, la) /\ h = Power(2, lb - 1)
    BY <1>1, <1>2
  <2>2. g * x = ((4 * c) * h) * y
    <3>1. PICK u \in Nat, z \in Nat : u = la /\ z = (Prec + 4) + (lb - 1) /\ u + s = z /\ Prec + 4 \in Nat
      BY <1>2, <1>3
    <3>2. Power(2, u) * Raised(s) = Power(2, z) * Lowered(s)
      BY <3>1, ShiftPair
    <3>4. Power(2, (Prec + 4) + (lb - 1)) = Power(2, Prec + 4) * Power(2, lb - 1)
      <4>1. Prec + 4 \in Nat /\ lb - 1 \in Nat
        BY <1>2, <3>1
      <4>. QED
        BY ONLY <4>1, TwoAdd
    <3>. QED
      BY <1>4, <1>9, <2>1, <3>1, <3>2, <3>4
  <2>3. PICK cy \in Nat \ {0} : cy = (4 * c) * y
    OBVIOUS
  <2>4. x * n + x <= x * g /\ cy * h <= cy * m
    <3>1. n < g /\ h <= m
      BY <1>1, <1>2, <2>1
    <3>. QED
      BY <3>1, Less
  <2>5. x * g = g * x /\ x * n = n * x /\ ((4 * c) * h) * y = ((4 * c) * y) * h
        /\ (m * y) * (4 * c) = ((4 * c) * y) * m /\ ((4 * c) * y) * m \in Nat
        /\ ((4 * c) * y) * h \in Nat /\ n * x \in Nat
    OBVIOUS
  <2>. QED
    BY <1>6, <2>2, <2>3, <2>4, <2>5
<1>12. c <= k /\ k < 4 * c
  <2>1. k * v = v * k /\ v * k \in Int /\ v * c \in Int /\ v * (4 * c) \in Int
    OBVIOUS
  <2>2. ~(k < c)
    <3>1. k < c => v * k + v <= v * c
      BY Less
    <3>. QED
      BY <1>7, <1>10, <2>1, <3>1
  <2>3. v * k < v * (4 * c)
    BY <1>7, <1>11, <2>1
  <2>4. k < 4 * c
    BY <2>3, Less
  <2>. QED
    BY <2>2, <2>4
<1>13. PICK q \in Nats : q = qr[1] /\ IntOf(q) = k
  <2>1. IntOf(qr[1]) \in Nat
    BY <1>7, <1>12
  <2>. QED
    BY <1>7, <1>8, <2>1, IsNat
<1>14. PICK r \in {3, 4} : bit_len(q) = Prec + r
  <2>1. q \in Bigs /\ Mag(q.d) = k
    BY <1>13, NatIs
  <2>2. CASE k < 2 * c
    <3>1. PICK l \in Nat \ {0} : l = Prec + 3 /\ l - 1 = Prec + 2
      BY <1>3
    <3>2. Power(2, l - 1) <= Mag(q.d) /\ Mag(q.d) < Power(2, l)
      BY <1>9, <1>12, <2>1, <2>2, <3>1
    <3>3. bit_len(q) = l
      BY <2>1, <3>2, BitLenExact
    <3>. QED
      BY <3>1, <3>3
  <2>3. CASE ~(k < 2 * c)
    <3>1. PICK l \in Nat \ {0} : l = Prec + 4 /\ l - 1 = Prec + 3
      BY <1>3
    <3>2. Power(2, l - 1) <= Mag(q.d) /\ Mag(q.d) < Power(2, l)
      BY <1>9, <1>12, <2>1, <2>3, <3>1
    <3>3. bit_len(q) = l
      BY <2>1, <3>2, BitLenExact
    <3>. QED
      BY <3>1, <3>3
  <2>. QED
    BY <2>2, <2>3
<1>15. ASSUME NEW neg
       PROVE  \E sticky : /\ sticky <=> rem # 0
                          /\ DivScaled(a, b, s, neg) = f64_from_scaled(q, -s, sticky, neg)
  <2>1. ~is_zero(qr[2]) <=> rem # 0
    BY <1>7, <1>8, IntOfIs
  <2>2. DivScaled(a, b, s, neg) = f64_from_scaled(q, -s, ~is_zero(qr[2]), neg)
    BY <1>13 DEF DivScaled, OfQuotient
  <2>. QED
    BY <2>1, <2>2
<1>. HIDE DEF qr, a1, b1
<1>16. v = IntOf(b) * Lowered(s) /\ IntOf(a) * Raised(s) = IntOf(q) * v + rem
  BY <1>1, <1>2, <1>4, <1>6, <1>7, <1>13
<1>. QED
  BY <1>14, <1>15, <1>16

\* A quotient of far more bits than a float has is beyond the floats.
LEMMA DivFar ==
  ASSUME NEW a \in Nats, NEW b \in Nats, ~is_zero(a), ~is_zero(b),
         bit_len(a) - bit_len(b) > EMax + 3
  PROVE  IntOf(a) * One >= Over * IntOf(b)
<1>1. PICK n \in Nat \ {0}, la \in Nat \ {0} :
            /\ n = IntOf(a) /\ la = bit_len(a) /\ la - 1 \in Nat
            /\ Power(2, la - 1) <= n /\ Power(2, la - 1) \in Nat \ {0}
  BY SizesAre
<1>2. PICK m \in Nat \ {0}, lb \in Nat \ {0} :
            /\ m = IntOf(b) /\ lb = bit_len(b) /\ m < Power(2, lb) /\ Power(2, lb) \in Nat \ {0}
  BY SizesAre
<1>3. EMax \in Int /\ EMin < 0 /\ EMin \in Int /\ Prec \in Nat \ {0, 1} /\ Prec <= EMax /\ MinExp \in Int
      /\ -MinExp \in Nat
  BY ExponentsAre
<1>4. PICK e \in Nat, t \in Nat : e = EMax + 1 /\ t = -MinExp /\ e + t = EMax + 1 - MinExp
  BY <1>3
<1>5. PICK o \in Nat \ {0}, x \in Nat \ {0} : o = One /\ x = Power(2, e) /\ Over = x * o
  <2>1. 2 \in Int /\ 2 \in Nat \ {0}
    OBVIOUS
  <2>2. Power(2, e + t) = Power(2, e) * Power(2, t) /\ Power(2, e) \in Nat \ {0} /\ Power(2, t) \in Nat \ {0}
    BY <2>1, PowerAdd, PowerNat
  <2>. QED
    BY <1>4, <2>2 DEF Over, One
<1>6. PICK h \in Nat \ {0} : h = Power(2, lb) /\ x * h <= n
  <2>1. Power(2, e + lb) = Power(2, e) * Power(2, lb)
    <3>1. 2 \in Int /\ lb \in Nat
      OBVIOUS
    <3>. QED
      BY <3>1, PowerAdd
  <2>2. PICK u \in Nat, w \in Nat : u = e + lb /\ w = la - 1 /\ u <= w
    BY <1>1, <1>2, <1>3, <1>4
  <2>3. Power(2, u) <= Power(2, w) /\ Power(2, u) \in Nat /\ Power(2, w) \in Nat
    BY <2>2, PowerMono
  <2>. QED
    BY <1>1, <1>2, <1>5, <2>1, <2>2, <2>3
<1>7. PICK c \in Nat \ {0} : c = o * x
  OBVIOUS
<1>8. c * m <= c * h /\ o * (x * h) <= o * n
  <2>1. m <= h
    BY <1>2, <1>6
  <2>2. x * h \in Int
    OBVIOUS
  <2>. QED
    BY <1>6, <2>1, <2>2, Less
<1>9. (o * x) * h = o * (x * h) /\ (x * o) * m = (o * x) * m /\ n * o = o * n
      /\ (o * x) * m \in Nat /\ (o * x) * h \in Nat /\ o * n \in Nat
  OBVIOUS
<1>. QED
  BY <1>1, <1>2, <1>5, <1>7, <1>8, <1>9

\* A quotient of far fewer is less than the least subnormal.
LEMMA DivTiny ==
  ASSUME NEW a \in Nats, NEW b \in Nats, ~is_zero(a), ~is_zero(b),
         bit_len(a) - bit_len(b) < MinExp - 26
  PROVE  IntOf(a) * One < IntOf(b)
<1>1. PICK n \in Nat \ {0}, la \in Nat \ {0} :
            /\ n = IntOf(a) /\ la = bit_len(a) /\ n < Power(2, la) /\ Power(2, la) \in Nat \ {0}
  BY SizesAre
<1>2. PICK m \in Nat \ {0}, lb \in Nat \ {0} :
            /\ m = IntOf(b) /\ lb = bit_len(b) /\ lb - 1 \in Nat
            /\ Power(2, lb - 1) <= m /\ Power(2, lb - 1) \in Nat \ {0}
  BY SizesAre
<1>3. MinExp \in Int /\ -MinExp \in Nat
  BY ExponentsAre
<1>4. PICK t \in Nat, o \in Nat \ {0} : t = -MinExp /\ o = One /\ o = Power(2, t)
  BY <1>3, OneUnit DEF One
<1>5. Power(2, la + t) = Power(2, la) * Power(2, t)
  <2>1. 2 \in Int /\ la \in Nat
    OBVIOUS
  <2>. QED
    BY <2>1, PowerAdd
<1>6. PICK u \in Nat, w \in Nat : u = la + t /\ w = lb - 1 /\ u <= w
  BY <1>1, <1>2, <1>3, <1>4
<1>7. Power(2, u) <= Power(2, w) /\ Power(2, u) \in Nat /\ Power(2, w) \in Nat
  BY <1>6, PowerMono
<1>8. PICK h \in Nat \ {0} : h = Power(2, la) /\ h * o <= m /\ n < h
  BY <1>1, <1>2, <1>4, <1>5, <1>6, <1>7
<1>9. o * n + o <= o * h
  BY <1>8, Less
<1>10. n * o = o * n /\ h * o = o * h /\ o * n \in Nat /\ o * h \in Nat
  OBVIOUS
<1>. QED
  BY <1>1, <1>2, <1>4, <1>8, <1>9, <1>10

\* Beyond the exponents of the floats nothing is given.
LEMMA RoundedFar ==
  ASSUME NEW neg, NEW mant \in Mants, NEW exp \in Int, exp > EMax, NEW c, NEW st
  PROVE  Rounded(neg, mant, exp, c, st) = None
<1>1. exp + 1 > EMax
  BY ExponentsAre
<1>2. \A m, lost : Packed(neg, m, exp, lost) = None /\ Packed(neg, m, exp + 1, lost) = None
  BY <1>1 DEF Packed
<1>. QED
  BY <1>2 DEF Rounded

\* Such a quotient is no float either.
LEMMA FarMag ==
  ASSUME NEW mant \in Mants, NEW i \in Nat, EMin + i > EMax
  PROVE  Over <= mant * Power(2, i) /\ mant * Power(2, i) \in Nat
<1>1. PICK h \in Nat \ {0, 1} : h = Power(2, Prec - 1) /\ h <= mant
  <2>1. Power(2, Prec - 1) <= mant
    BY DEF Mants
  <2>. QED
    BY <2>1, MantsAre
<1>2. mant \in Nat \ {0}
  BY MantsAre
<1>3. /\ EMin \in Int /\ EMax \in Int /\ Prec \in Nat \ {0, 1} /\ MinExp \in Int /\ MinExp = EMin - (Prec - 1)
      /\ EMax + 1 - MinExp \in Nat
  BY ExponentsAre
<1>4. PICK w \in Nat \ {0} : w = Power(2, i)
  BY HalfOf
<1>5. PICK u \in Nat, v \in Nat, t \in Nat : u = EMax + 1 - MinExp /\ t = Prec - 1 /\ v = t + i /\ u <= v
  BY <1>3
<1>6. Power(2, t + i) = Power(2, t) * Power(2, i)
  <2>1. 2 \in Int
    OBVIOUS
  <2>. QED
    BY <2>1, PowerAdd
<1>7. Power(2, u) <= Power(2, v) /\ Power(2, u) \in Nat /\ Power(2, v) \in Nat
  BY <1>5, PowerMono
<1>8. Over <= h * w
  BY <1>1, <1>4, <1>5, <1>6, <1>7 DEF Over
<1>9. w * h <= w * mant
  BY <1>1, <1>2, Less
<1>10. w * h = h * w /\ w * mant = mant * w /\ h * w \in Nat /\ mant * w \in Nat
  BY <1>2
<1>11. Over \in Nat
  BY OneUnit
<1>. QED
  BY <1>4, <1>8, <1>9, <1>10, <1>11

\* The nearest float between two neighbours that are no subnormals.
LEMMA NearestAt ==
  ASSUME NEW neg \in BOOLEAN, NEW mant \in Mants, NEW i \in Nat, MinExp + i <= EMax - (Prec - 1),
         NEW low \in Nat, NEW high \in Nat, low = mant * Power(2, i), high = (mant + 1) * Power(2, i),
         NEW p \in Nat, NEW b \in Nat \ {0}, low * b <= p, p < high * b
  PROVE  Nearest(neg, p, b) =
            IF 2 * p < (low + high) * b \/ (2 * p = (low + high) * b /\ mant % 2 = 0)
            THEN FromMag(neg, low) ELSE FromMag(neg, high)
<1>1. mant \in 0..Power(2, Prec) - 1 /\ (i = 0 \/ Power(2, Prec - 1) <= mant)
  BY MantsAre DEF Mants
<1>. QED
  BY <1>1, NearestGrid

\* p is mant of w and r of the 2 * t parts of another, when x and o scale them.
InParts(x, o, t, w, r, p, mant) ==
    r \in 0..2 * t - 1 /\ o * (2 * t) = x * w /\ x * p = x * (mant * w) + o * r

\* What that says of p, w and the half t.
Compared(m, w, p, r, t) ==
    /\ m * w <= p /\ p < (m + 1) * w
    /\ (2 * p > (m + m + 1) * w <=> r > t) /\ (2 * p = (m + m + 1) * w <=> r = t)

\* The round bit and what is lost tell r from the half t.
Tells(c, st, r, t) == ((c /\ st) <=> r > t) /\ ((c /\ ~st) <=> r = t)

\* A float that is infinite is no answer.
Answer(f) == IF f.kind = "inf" THEN None ELSE f

\* w, the size of the i-th binade's unit times b.
UnitsAt(w, i, exp, b) == i = exp - EMin /\ w = Power(2, i) * b

\* p over b is mant units of its binade and a remainder, which c and st tell from the half of a unit.
LiesAt(mant, exp, p, b, c, st) ==
  \E i \in Nat, x \in Nat \ {0}, o \in Nat \ {0}, t \in Nat \ {0}, r \in Nat, w \in Nat \ {0} :
    UnitsAt(w, i, exp, b) /\ InParts(x, o, t, w, r, p, mant) /\ Tells(c, st, r, t)

LEMMA PartsCompare ==
  ASSUME NEW x \in Nat \ {0}, NEW o \in Nat \ {0}, NEW t \in Nat \ {0}, NEW w \in Nat \ {0},
         NEW r \in Nat, NEW p \in Nat, NEW m \in Nat, InParts(x, o, t, w, r, p, m)
  PROVE  Compared(m, w, p, r, t)
<1>1. PICK k \in 0..2 * t - 1 : k = r
  BY DEF InParts
<1>2. o * (2 * t) = x * w /\ x * p = x * (m * w) + o * k
  BY <1>1 DEF InParts
<1>3. /\ m * w <= p /\ p < (m + 1) * w
      /\ (2 * p > (m + m + 1) * w <=> k > t) /\ (2 * p = (m + m + 1) * w <=> k = t)
  BY <1>2, Transfer
<1>. QED
  BY <1>1, <1>3 DEF Compared

\* The rounding of a quotient mant and r of 2 * t parts, at an exponent of the floats.
LEMMA NormalNearest ==
  ASSUME NEW neg \in BOOLEAN, NEW mant \in Mants, NEW exp \in Int, NEW p \in Nat, NEW b \in Nat \ {0},
         NEW c, NEW st, LiesAt(mant, exp, p, b, c, st)
  PROVE  Rounded(neg, mant, exp, c, st) = Answer(Nearest(neg, p, b))
<1>9. PICK i \in Nat, x \in Nat \ {0}, o \in Nat \ {0}, t \in Nat \ {0}, r \in Nat, w \in Nat \ {0} :
        UnitsAt(w, i, exp, b) /\ InParts(x, o, t, w, r, p, mant) /\ Tells(c, st, r, t)
  BY Zenon DEF LiesAt
<1>10. i = exp - EMin /\ w = Power(2, i) * b
  BY <1>9 DEF UnitsAt
<1>. USE <1>9, <1>10
<1>0. ((c /\ st) <=> r > t) /\ ((c /\ ~st) <=> r = t)
  BY DEF Tells
<1>1. mant \in Nat \ {0} /\ mant \in 0..Power(2, Prec) - 1 /\ Power(2, Prec - 1) <= mant
  BY MantsAre DEF Mants
<1>2. EMin \in Int /\ EMax \in Int /\ MinExp \in Int /\ Prec \in Nat \ {0, 1} /\ MinExp = EMin - (Prec - 1)
  BY ExponentsAre
<1>3. PICK z \in Nat \ {0} : z = Power(2, i) /\ w = z * b
  BY HalfOf
<1>4. PICK low \in Nat, high \in Nat : low = mant * z /\ high = (mant + 1) * z
  <2>1. mant + 1 \in Nat /\ mant * z \in Nat /\ (mant + 1) * z \in Nat
    BY <1>1
  <2>. QED
    BY <2>1
<1>5. /\ mant * w <= p /\ p < (mant + 1) * w
      /\ (2 * p > (mant + mant + 1) * w <=> r > t) /\ (2 * p = (mant + mant + 1) * w <=> r = t)
  <2>1. PICK m \in Nat : m = mant
    BY <1>1
  <2>2. Compared(m, w, p, r, t)
    BY <2>1, PartsCompare
  <2>3. /\ m * w <= p /\ p < (m + 1) * w
        /\ (2 * p > (m + m + 1) * w <=> r > t) /\ (2 * p = (m + m + 1) * w <=> r = t)
    BY <2>2 DEF Compared
  <2>. QED
    BY <2>1, <2>3
<1>6. mant * w = low * b /\ (mant + 1) * w = high * b /\ (mant + mant + 1) * w = (low + high) * b
  <2>1. PICK m \in Nat : m = mant
    BY <1>1
  <2>2. m * (z * b) = (m * z) * b /\ (m + 1) * (z * b) = ((m + 1) * z) * b
        /\ (m + m + 1) * (z * b) = (m * z + (m + 1) * z) * b
    OBVIOUS
  <2>. QED
    BY <1>3, <1>4, <2>1, <2>2
<1>7. CASE exp > EMax
  <2>1. Rounded(neg, mant, exp, c, st) = None
    BY <1>7, RoundedFar
  <2>2. Over <= low
    <3>1. EMin + i > EMax
      BY <1>2, <1>7
    <3>. QED
      BY <1>3, <1>4, <3>1, FarMag
  <2>3. p >= Over * b
    <3>1. PICK v \in Nat : v = Over
      BY OneUnit
    <3>2. b * v <= b * low
      BY <2>2, <3>1, Less
    <3>3. b * v = v * b /\ b * low = low * b /\ v * b \in Nat /\ low * b \in Nat
      OBVIOUS
    <3>. QED
      BY <1>5, <1>6, <3>1, <3>2, <3>3
  <2>4. Nearest(neg, p, b) = Infinite(neg)
    BY <2>3, NearestIs
  <2>. QED
    BY <2>1, <2>4 DEF Infinite, Answer
<1>8. CASE ~(exp > EMax)
  <2>1. Nearest(neg, p, b) = IF 2 * p < (low + high) * b \/ (2 * p = (low + high) * b /\ mant % 2 = 0)
                             THEN FromMag(neg, low) ELSE FromMag(neg, high)
    <3>1. MinExp + i <= EMax - (Prec - 1)
      BY <1>2, <1>8
    <3>2. low = mant * Power(2, i) /\ high = (mant + 1) * Power(2, i) /\ low * b <= p /\ p < high * b
      BY <1>3, <1>4, <1>5, <1>6
    <3>. QED
      BY <3>1, <3>2, NearestAt
  <2>2. PICK g \in Nat, k \in Nat : g = 2 * p /\ k = (low + high) * b
    OBVIOUS
  <2>3. (g > k <=> r > t) /\ (g = k <=> r = t)
    BY <1>5, <1>6, <2>2
  <2>4. PICK d \in 0..1 : d = mant % 2
    <3>1. 2 \in Nat \ {0}
      OBVIOUS
    <3>2. mant % 2 \in 0..2 - 1
      BY <1>1, <3>1, QuotNat
    <3>. QED
      BY <3>2
  <2>5. PICK f : f = FromMag(neg, (IF c /\ (st \/ mant % 2 = 1) THEN mant + 1 ELSE mant) * Power(2, i))
    OBVIOUS
  <2>6. Rounded(neg, mant, exp, c, st) = IF f.kind = "inf" THEN None ELSE f
    <3>1. EMin <= exp /\ exp <= EMax
      BY <1>2, <1>8
    <3>. QED
      BY <2>5, <3>1, RoundedUp
  <2>7. CASE c /\ (st \/ d = 1)
    <3>1. (IF c /\ (st \/ mant % 2 = 1) THEN mant + 1 ELSE mant) * Power(2, i) = high
      BY <1>3, <1>4, <2>4, <2>7
    <3>2. f = FromMag(neg, high)
      BY <2>5, <3>1
    <3>3. r > t \/ (r = t /\ d = 1)
      BY <1>0, <2>7
    <3>4. ~(g < k \/ (g = k /\ d = 0))
      BY <2>3, <3>3
    <3>5. Nearest(neg, p, b) = FromMag(neg, high)
      BY <2>1, <2>2, <2>4, <3>4
    <3>. QED
      BY <2>6, <3>2, <3>5 DEF Answer
  <2>8. CASE ~(c /\ (st \/ d = 1))
    <3>1. (IF c /\ (st \/ mant % 2 = 1) THEN mant + 1 ELSE mant) * Power(2, i) = low
      BY <1>3, <1>4, <2>4, <2>8
    <3>2. f = FromMag(neg, low)
      BY <2>5, <3>1
    <3>3. ~(r > t) /\ (r = t => d # 1)
      BY <1>0, <2>8
    <3>4. g < k \/ (g = k /\ d = 0)
      BY <2>3, <2>4, <3>3
    <3>5. Nearest(neg, p, b) = FromMag(neg, low)
      BY <2>1, <2>2, <2>4, <3>4
    <3>. QED
      BY <2>6, <3>2, <3>5 DEF Answer
  <2>. QED
    BY <2>7, <2>8
<1>. QED
  BY <1>7, <1>8

\* Below the normal floats only what rounds to the least of them counts.
LEMMA TinyNearest ==
  ASSUME NEW neg \in BOOLEAN, NEW mant \in Mants, NEW exp \in Int, NEW k \in Nat \ {0}, k = EMin - exp,
         NEW p \in Nat, NEW b \in Nat \ {0}, NEW z \in Nat, z = Power(2, k) * p,
         mant * b <= z, z < (mant + 1) * b, ~Subnormal(Nearest(neg, p, b)), NEW c, NEW st
  PROVE  Rounded(neg, mant, exp, c, st) = Answer(Nearest(neg, p, b))
<1>1. PICK h \in Nat \ {0, 1} : h = Power(2, Prec - 1) /\ Power(2, Prec) = 2 * h
  BY MantsAre
<1>2. mant \in Nat \ {0} /\ mant < 2 * h
  BY <1>1, MantsAre
<1>3. PICK y \in Nat \ {0} : y = Power(2, k - 1) /\ Power(2, k) = 2 * y /\ (y = 1 \/ y >= 2) /\ (y = 1 => k = 1)
  <2>1. PICK j \in Nat : j = k - 1 /\ j + 1 = k
    OBVIOUS
  <2>2. 2 \in Int /\ 2 \in Nat \ {0} /\ 2 \in Nat /\ 2 > 1
    OBVIOUS
  <2>3. Power(2, j) \in Nat \ {0} /\ Power(2, j + 1) = 2 * Power(2, j)
    BY <2>2, PowerNext, PowerNat
  <2>4. j # 0 => Power(2, 0) < Power(2, j)
    <3>1. 0 \in Nat /\ (j # 0 => 0 < j)
      OBVIOUS
    <3>. QED
      BY <2>2, <3>1, PowerGrows
  <2>5. Power(2, 0) = 1
    BY <2>2, PowerZero
  <2>. QED
    BY <2>1, <2>3, <2>4, <2>5
<1>4. z = 2 * (y * p) /\ y * p \in Nat /\ p <= y * p
  <2>1. (2 * y) * p = 2 * (y * p) /\ y * p \in Nat /\ p <= y * p
    OBVIOUS
  <2>. QED
    BY <1>3, <2>1
<1>5. PICK u \in Nat : u = h * b /\ (mant + 1) * b <= 2 * u
  <2>1. PICK m \in Nat : m = mant + 1 /\ m <= 2 * h
    BY <1>2
  <2>2. b * m <= b * (2 * h)
    BY <2>1, Less
  <2>3. b * m = m * b /\ b * (2 * h) = 2 * (h * b) /\ h * b \in Nat
    OBVIOUS
  <2>. QED
    BY <2>1, <2>2, <2>3
<1>6. PICK v \in Nat : v = (mant + 1) * b
  <2>1. (mant + 1) * b \in Nat
    BY <1>2
  <2>. QED
    BY <2>1
<1>7. p < u
  BY <1>4, <1>5, <1>6
<1>8. p < Power(2, Prec - 1) * b
  BY <1>1, <1>5, <1>7
<1>9. PICK n \in Nat : n = (Power(2, Prec) - 1) * b /\ n = 2 * u - b
  <2>1. (2 * h - 1) * b = 2 * (h * b) - b /\ (2 * h - 1) * b \in Nat
    <3>1. PICK d \in Nat : d = 2 * h - 1
      OBVIOUS
    <3>2. d * b \in Nat /\ (2 * h - 1) * b = 2 * (h * b) - b
      OBVIOUS
    <3>. QED
      BY <3>1, <3>2
  <2>. QED
    BY <1>1, <1>5, <2>1
<1>10. 2 * p >= n
  <2>1. ~(2 * p < n)
    BY <1>8, <1>9, BelowNormal
  <2>. QED
    BY <2>1
<1>11. Nearest(neg, p, b) = Finite(neg, h, MinExp)
  BY <1>1, <1>8, <1>9, <1>10, BelowNormal
<1>12. y = 1
  <2>1. SUFFICES ASSUME y >= 2 PROVE FALSE
    BY <1>3
  <2>2. 2 * p <= y * p
    <3>1. p * 2 <= p * y
      BY <2>1
    <3>2. p * 2 = 2 * p /\ p * y = y * p
      OBVIOUS
    <3>. QED
      BY <3>1, <3>2
  <2>3. b <= u
    <3>1. b <= h * b
      OBVIOUS
    <3>. QED
      BY <1>5, <3>1
  <2>4. b + b <= u
    <3>1. PICK d \in Nat : d + 2 = h
      OBVIOUS
    <3>2. (d + 2) * b = d * b + b + b /\ d * b \in Nat
      OBVIOUS
    <3>. QED
      BY <1>5, <3>1, <3>2
  <2>. QED
    BY <1>4, <1>5, <1>6, <1>9, <1>10, <2>2, <2>4
<1>13. mant + 1 = 2 * h
  <2>1. SUFFICES ASSUME mant + 1 < 2 * h PROVE FALSE
    BY <1>2
  <2>2. PICK m \in Nat : m = mant + 1 /\ m < 2 * h
    BY <1>2, <2>1
  <2>3. b * m + b <= b * (2 * h)
    BY <2>2, Less
  <2>4. b * m = m * b /\ b * (2 * h) = 2 * (h * b)
    OBVIOUS
  <2>5. v + b <= 2 * u
    BY <1>5, <1>6, <2>2, <2>3, <2>4
  <2>6. 2 * p < v
    BY <1>4, <1>6, <1>12
  <2>. QED
    BY <1>9, <1>10, <2>5, <2>6
<1>14. exp = EMin - 1 /\ mant = Power(2, Prec) - 1 /\ mant \in Nat
  <2>1. EMin \in Int
    BY ExponentsAre
  <2>. QED
    BY <1>1, <1>2, <1>3, <1>12, <1>13, <2>1
<1>15. Rounded(neg, mant, exp, c, st) = Finite(neg, h, MinExp)
  BY <1>1, <1>14, RoundedTiny
<1>. QED
  BY <1>11, <1>15 DEF Finite, Answer

\* The division at the shift that the code chooses.
LEMMA DivClose ==
  ASSUME NEW a \in Nats, NEW b \in Nats, ~is_zero(a), ~is_zero(b), NEW neg \in BOOLEAN,
         NEW s \in Int, s = Prec + 3 - (bit_len(a) - bit_len(b)),
         NEW f, f = Nearest(neg, IntOf(a) * One, IntOf(b)), ~Subnormal(f)
  PROVE  DivScaled(a, b, s, neg) = Answer(f)
<1> DEFINE Shifted(q, v, rem, r) ==
              /\ v = IntOf(b) * Lowered(s) /\ IntOf(a) * Raised(s) = IntOf(q) * v + rem
              /\ bit_len(q) = Prec + r
              /\ \A n : \E sticky : /\ sticky <=> rem # 0
                                    /\ DivScaled(a, b, s, n) = f64_from_scaled(q, -s, sticky, n)
           Parted(q, r, mant, h, c, low) ==
              /\ Power(2, r) = 2 * h /\ IntOf(q) = mant * (2 * h) + (c * h + low)
              /\ RoundsTo(q, mant, c, low)
<1>16. PICK q \in Nats, v \in Nat \ {0} : \E rem \in 0..v - 1, r \in {3, 4} : Shifted(q, v, rem, r)
  BY QuotientSize
<1>1. PICK rem \in 0..v - 1, r \in {3, 4} : Shifted(q, v, rem, r)
  BY <1>16
<1>17. PICK mant \in Mants, h \in Nat \ {0} : \E c \in 0..1, low \in 0..h - 1 : Parted(q, r, mant, h, c, low)
  BY <1>1, ScaledParts
<1>2. PICK c \in 0..1, low \in 0..h - 1 : Parted(q, r, mant, h, c, low)
  BY <1>17
<1>0. PICK exp \in Int : exp = (bit_len(q) - 1) + (-s) /\ exp = (Prec + r) - 1 - s
  BY <1>1, ExponentsAre
<1>3. PICK e, l : /\ e <=> c = 1
                  /\ l <=> (rem # 0 \/ low # 0)
                  /\ DivScaled(a, b, s, neg) = Rounded(neg, mant, exp, e, l)
  <2>1. PICK sticky : /\ sticky <=> rem # 0
                      /\ DivScaled(a, b, s, neg) = f64_from_scaled(q, -s, sticky, neg)
    BY <1>1
  <2>2. PICK e, l : /\ e <=> c = 1
                    /\ l <=> (sticky \/ low # 0)
                    /\ f64_from_scaled(q, -s, sticky, neg) = Rounded(neg, mant, (bit_len(q) - 1) + (-s), e, l)
    BY <1>2 DEF RoundsTo
  <2>. QED
    BY <1>0, <2>1, <2>2
<1>4. PICK n \in Nat \ {0}, m \in Nat \ {0}, o \in Nat \ {0}, p \in Nat :
            n = IntOf(a) /\ m = IntOf(b) /\ o = One /\ p = n * o
  <2>1. IntOf(a) \in Nat \ {0} /\ IntOf(b) \in Nat \ {0} /\ One \in Nat \ {0}
    BY NatIs, OneUnit
  <2>2. IntOf(a) * One \in Nat
    BY <2>1
  <2>. QED
    BY <2>1, <2>2
<1>5. f = Nearest(neg, p, m)
  BY <1>4
<1>6. /\ EMin \in Int /\ EMax \in Int /\ Prec \in Nat \ {0, 1} /\ MinExp \in Int /\ MinExp = EMin - (Prec - 1)
      /\ -MinExp \in Nat /\ EMin < 0
  BY ExponentsAre
<1>7. PICK x \in Nat \ {0}, y \in Nat \ {0} : x = Raised(s) /\ y = Lowered(s) /\ v = m * y
  <2>1. PICK u \in Nat, k \in Nat : u + s = k
    <3>1. CASE s >= 0
      BY <3>1
    <3>2. CASE ~(s >= 0)
      <4>1. -s \in Nat /\ 0 \in Nat /\ -s + s = 0
        BY <3>2
      <4>. QED
        BY <4>1
    <3>. QED
      BY <3>1, <3>2
  <2>. QED
    BY <1>1, <1>4, <2>1, ShiftPair
<1>8. PICK t \in Nat \ {0}, w \in Nat : t = h * v /\ w = (c * h + low) * v + rem
  <2>1. h * v \in Nat \ {0} /\ (c * h + low) * v + rem \in Nat
    OBVIOUS
  <2>. QED
    BY <2>1
<1>9. /\ w \in 0..2 * t - 1
      /\ (c = 1 /\ (low # 0 \/ rem # 0)) <=> w > t
      /\ (c = 1 /\ ~(low # 0 \/ rem # 0)) <=> w = t
  BY <1>8, HalfCompare
<1>10. mant \in Nat \ {0}
  BY MantsAre
<1>11. n * x = mant * (2 * t) + w
  <2>1. PICK d \in Nat, g \in Nat : d = mant /\ g = c * h + low
    BY <1>10
  <2>2. (d * (2 * h) + g) * v + rem = d * (2 * (h * v)) + (g * v + rem)
    OBVIOUS
  <2>. QED
    BY <1>1, <1>2, <1>4, <1>7, <1>8, <2>1, <2>2
<1>12. x * p = o * (mant * (2 * t)) + o * w
  <2>1. PICK d \in Nat : d = mant * (2 * t)
    BY <1>10
  <2>2. x * (n * o) = o * (n * x) /\ o * (d + w) = o * d + o * w
    BY <1>10
  <2>. QED
    BY <1>4, <1>11, <2>1, <2>2
<1>13. Tells(e, l, w, t)
  BY <1>3, <1>9 DEF Tells
<1>14. CASE exp >= EMin
  <2>1. PICK i \in Nat, j \in Nat : i = exp - EMin /\ j = r + (-MinExp) /\ i + s = j /\ r \in Nat
    BY <1>0, <1>6, <1>14
  <2>2. Power(2, i) * x = Power(2, j) * y
    BY <1>7, <2>1, ShiftPair
  <2>3. Power(2, r + (-MinExp)) = Power(2, r) * Power(2, -MinExp)
    <3>1. r \in Nat /\ -MinExp \in Nat
      BY <1>6, <2>1
    <3>. QED
      BY ONLY <3>1, TwoAdd
  <2>4. PICK z \in Nat \ {0} : z = Power(2, i) /\ z * x = ((2 * h) * o) * y
    BY <1>2, <1>4, <2>1, <2>2, <2>3, HalfOf DEF One
  <2>5. PICK k \in Nat \ {0} : k = z * m
    OBVIOUS
  <2>6. o * (2 * t) = x * k
    <3>1. o * (2 * (h * (m * y))) = (((2 * h) * o) * y) * m /\ x * (z * m) = (z * x) * m
      OBVIOUS
    <3>. QED
      BY <1>7, <1>8, <2>4, <2>5, <3>1
  <2>7. x * p = x * (mant * k) + o * w
    <3>1. PICK d \in Nat : d = mant
      BY <1>10
    <3>2. o * (d * (2 * t)) = d * (o * (2 * t)) /\ d * (x * k) = x * (d * k)
      OBVIOUS
    <3>. QED
      BY <1>12, <2>6, <3>1, <3>2
  <2>8. w \in 0..2 * t - 1 /\ k = Power(2, i) * m
    BY <1>9, <2>4, <2>5
  <2>9. Rounded(neg, mant, exp, e, l) = Answer(Nearest(neg, p, m))
    <3>1. InParts(x, o, t, k, w, p, mant)
      BY <2>6, <2>7, <2>8 DEF InParts
    <3>2. UnitsAt(k, i, exp, m)
      BY <2>1, <2>8 DEF UnitsAt
    <3>3. LiesAt(mant, exp, p, m, e, l)
      BY ONLY <1>13, <3>1, <3>2, Zenon DEF LiesAt
    <3>. QED
      BY <3>3, NormalNearest
  <2>. QED
    BY <1>3, <1>5, <2>9
<1>15. CASE ~(exp >= EMin)
  <2>1. PICK k \in Nat \ {0}, j \in Nat :
            k = EMin - exp /\ j = (r + (-MinExp)) + k /\ 0 + s = j /\ r \in Nat /\ r + (-MinExp) \in Nat
    BY <1>0, <1>6, <1>15
  <2>2. Power(2, 0) * x = Power(2, j) * y /\ Power(2, 0) = 1
    <3>1. 0 \in Nat /\ 2 \in Int
      OBVIOUS
    <3>. QED
      BY <1>7, <2>1, <3>1, ShiftPair, PowerZero
  <2>3. /\ Power(2, r + (-MinExp)) = Power(2, r) * Power(2, -MinExp)
        /\ Power(2, (r + (-MinExp)) + k) = Power(2, r + (-MinExp)) * Power(2, k)
    <3>1. r \in Nat /\ -MinExp \in Nat /\ r + (-MinExp) \in Nat /\ k \in Nat
      BY <1>6, <2>1
    <3>2. Power(2, r + (-MinExp)) = Power(2, r) * Power(2, -MinExp)
      BY ONLY <3>1, TwoAdd
    <3>3. Power(2, (r + (-MinExp)) + k) = Power(2, r + (-MinExp)) * Power(2, k)
      BY ONLY <3>1, TwoAdd
    <3>. QED
      BY <3>2, <3>3
  <2>4. PICK g \in Nat \ {0} : g = Power(2, k) /\ x = (((2 * h) * o) * g) * y
    <3>1. PICK g \in Nat \ {0} : g = Power(2, k)
      BY <2>1, HalfOf
    <3>2. Power(2, r + (-MinExp)) = (2 * h) * o
      BY <1>2, <1>4, <2>3 DEF One
    <3>3. Power(2, j) = ((2 * h) * o) * g
      BY <2>1, <2>3, <3>1, <3>2
    <3>4. 1 * x = x
      OBVIOUS
    <3>5. x = (((2 * h) * o) * g) * y
      BY <2>2, <3>3, <3>4, Zenon
    <3>. QED
      BY <3>1, <3>5
  <2>5. PICK d \in Nat, z \in Nat, x1 \in Nat \ {0} :
            d = mant /\ z = g * p /\ x1 = ((2 * h) * o) * y /\ x1 * m = o * (2 * t) /\ x = x1 * g
    <3>1. (((2 * h) * o) * y) * m = o * (2 * (h * (m * y))) /\ (((2 * h) * o) * g) * y = (((2 * h) * o) * y) * g
          /\ ((2 * h) * o) * y \in Nat \ {0} /\ g * p \in Nat
      OBVIOUS
    <3>2. PICK x1 \in Nat \ {0}, z \in Nat : x1 = ((2 * h) * o) * y /\ z = g * p
      BY <3>1
    <3>3. x1 * m = o * (2 * t)
      BY <1>7, <1>8, <3>1, <3>2
    <3>4. x = x1 * g
      BY <2>4, <3>1, <3>2
    <3>. QED
      BY <1>10, <3>2, <3>3, <3>4
  <2>6. x1 * z = x1 * (d * m) + o * w
    <3>1. o * (d * (2 * t)) = d * (o * (2 * t)) /\ d * (x1 * m) = x1 * (d * m) /\ (x1 * g) * p = x1 * (g * p)
      OBVIOUS
    <3>. QED
      BY <1>12, <2>5, <3>1
  <2>7. d * m <= z /\ z < (d + 1) * m
    BY <1>9, <2>5, <2>6, Transfer
  <2>8. Rounded(neg, mant, exp, e, l) = Answer(Nearest(neg, p, m))
    <3>1. ~Subnormal(Nearest(neg, p, m)) /\ z = Power(2, k) * p /\ mant * m <= z /\ z < (mant + 1) * m
      BY <1>5, <2>4, <2>5, <2>7
    <3>. QED
      BY <2>1, <3>1, TinyNearest
  <2>. QED
    BY <1>3, <1>5, <2>8
<1>. QED
  BY <1>14, <1>15

LEMMA DivNearest ==
  ASSUME NEW a \in Nats, NEW b \in Nats, ~is_zero(a), ~is_zero(b), NEW neg \in BOOLEAN,
         NEW f, f = Nearest(neg, IntOf(a) * One, IntOf(b)), ~Subnormal(f)
  PROVE  DivAbs(a, b, bit_len(a) - bit_len(b), neg) = Answer(f)
<1>1. PICK est \in Int : est = bit_len(a) - bit_len(b)
  <2>1. bit_len(a) \in Nat /\ bit_len(b) \in Nat
    BY NatIs, BitLenOf
  <2>. QED
    BY <2>1
<1>2. PICK p \in Nat, q \in Nat \ {0} : p = IntOf(a) * One /\ q = IntOf(b) /\ f = Nearest(neg, p, q)
  <2>1. IntOf(a) \in Nat \ {0} /\ IntOf(b) \in Nat \ {0} /\ One \in Nat \ {0}
    BY NatIs, OneUnit
  <2>2. IntOf(a) * One \in Nat
    BY <2>1
  <2>. QED
    BY <2>1, <2>2
<1>3. CASE est > EMax + 3
  <2>1. p >= Over * q
    BY <1>1, <1>2, <1>3, DivFar
  <2>2. f = Infinite(neg)
    BY <1>2, <2>1, NearestIs
  <2>3. DivAbs(a, b, est, neg) = None
    BY <1>3 DEF DivAbs
  <2>. QED
    BY <1>1, <2>2, <2>3 DEF Infinite, Answer
<1>4. CASE est < MinExp - 26
  <2>1. p < q
    BY <1>1, <1>2, <1>4, DivTiny
  <2>2. PICK h \in Nat \ {0, 1} : h = Power(2, Prec - 1) /\ Power(2, Prec) = 2 * h
    BY MantsAre
  <2>3. p < h * q /\ 2 * p < (2 * h - 1) * q
    <3>1. PICK k \in Nat : h = k + 2
      BY <2>2
    <3>2. (k + 2) * q = k * q + 2 * q /\ (2 * (k + 2) - 1) * q = 2 * (k * q) + 3 * q /\ k * q \in Nat
      OBVIOUS
    <3>. QED
      BY <2>1, <3>1, <3>2
  <2>4. Subnormal(f)
    BY <1>2, <2>2, <2>3, BelowNormal
  <2>. QED
    BY <2>4
<1>5. CASE ~(est > EMax + 3) /\ ~(est < MinExp - 26)
  <2>1. PICK s \in Int : s = Prec + 3 - est /\ s = Prec + 3 - (bit_len(a) - bit_len(b))
    BY <1>1, ExponentsAre
  <2>2. DivAbs(a, b, est, neg) = DivScaled(a, b, s, neg)
    BY <1>5, <2>1 DEF DivAbs
  <2>3. DivScaled(a, b, s, neg) = Answer(f)
    BY <2>1, DivClose
  <2>. QED
    BY <1>1, <2>2, <2>3
<1>. QED
  BY <1>3, <1>4, <1>5

LEMMA SameSign ==
  ASSUME NEW x \in Bigs, NEW y \in Bigs
  PROVE  (x.neg # y.neg) = ((IntOf(x) < 0) # (IntOf(y) < 0)) /\ (x.neg # y.neg) \in BOOLEAN
<1>1. (x.neg <=> IntOf(x) < 0) /\ (y.neg <=> IntOf(y) < 0)
  BY IntOfIs
<1>2. x.neg \in BOOLEAN /\ y.neg \in BOOLEAN
  BY BigIs
<1>3. x.neg = (IntOf(x) < 0) /\ y.neg = (IntOf(y) < 0)
  BY <1>1, <1>2
<1>. QED
  BY <1>3, Zenon

LEMMA AbsSizes ==
  ASSUME NEW x \in Bigs
  PROVE  /\ abs(x) \in Nats /\ IntOf(abs(x)) = Magnitude(IntOf(x)) /\ IntOf(x) \in Int
         /\ bit_len(x) = bit_len(abs(x)) /\ (is_zero(abs(x)) <=> IntOf(x) = 0)
<1>1. PICK m \in Int : m = IntOf(x)
  BY IntOfIs
<1>2. PICK n \in Nat : n = IntOf(abs(x))
  BY AbsNat
<1>3. x.neg \in BOOLEAN /\ (m < 0 <=> x.neg)
  BY <1>1, IntOfIs, BigIs
<1>4. (x.neg => m = -n) /\ (~x.neg => m = n) /\ (m = 0 <=> n = 0)
  BY <1>1, <1>2, AbsNat
<1>5. n = Magnitude(m)
  BY <1>3, <1>4 DEF Magnitude
<1>6. bit_len(x) = bit_len(abs(x))
  BY DEF bit_len, abs, Big, is_zero
<1>7. abs(x) \in Nats
  BY AbsNat
<1>8. is_zero(abs(x)) <=> n = 0
  BY <1>2, <1>7, NatIs
<1>. QED
  BY <1>1, <1>2, <1>4, <1>5, <1>6, <1>7, <1>8

\* A quotient of two bigs is the float nearest to it, and none when that is not finite.
LEMMA TrueDivNearest ==
  ASSUME NEW x \in Bigs, NEW y \in Bigs, IntOf(y) # 0,
         NEW f, f = Quotient(IntOf(x), IntOf(y)), ~Subnormal(f)
  PROVE  true_div_f64(x, y) = Answer(f)
<1>1. PICK a \in Nats : /\ a = abs(x) /\ IntOf(a) = Magnitude(IntOf(x)) /\ bit_len(x) = bit_len(a)
                        /\ (is_zero(a) <=> IntOf(x) = 0)
  BY AbsSizes
<1>2. PICK b \in Nats : /\ b = abs(y) /\ IntOf(b) = Magnitude(IntOf(y)) /\ bit_len(y) = bit_len(b)
                        /\ (is_zero(b) <=> IntOf(y) = 0)
  BY AbsSizes
<1>3. PICK neg \in BOOLEAN : neg = (x.neg # y.neg) /\ neg = ((IntOf(x) < 0) # (IntOf(y) < 0))
  BY SameSign
<1>4. f = Nearest(neg, IntOf(a) * One, IntOf(b))
  BY <1>1, <1>2, <1>3, Zenon DEF Quotient
<1>5. ~is_zero(b)
  BY <1>2
<1>6. ~is_zero(a)
  <2> SUFFICES ASSUME is_zero(a) PROVE FALSE
    OBVIOUS
  <2>1. PICK q \in Nat \ {0} : q = IntOf(b)
    BY <1>5, NatIs
  <2>2. IntOf(a) = 0 /\ One \in Nat
    BY NatIs, OneUnit
  <2>3. IntOf(a) * One = 0
    BY <2>2
  <2>4. PICK h \in Nat \ {0, 1} : h = Power(2, Prec - 1) /\ Power(2, Prec) = 2 * h
    BY MantsAre
  <2>5. h * q > 0 /\ (2 * h - 1) * q > 0 /\ 0 \in Nat
    <3>1. PICK k \in Nat : h = k + 2
      BY <2>4
    <3>2. (k + 2) * q = k * q + 2 * q /\ (2 * (k + 2) - 1) * q = 2 * (k * q) + 3 * q /\ k * q \in Nat
      OBVIOUS
    <3>. QED
      BY <3>1, <3>2
  <2>6. Subnormal(Nearest(neg, 0, q))
    BY <2>4, <2>5, BelowNormal
  <2>. QED
    BY <1>4, <2>1, <2>3, <2>6
<1>7. DivAbs(a, b, bit_len(a) - bit_len(b), neg) = Answer(f)
  BY <1>4, <1>5, <1>6, DivNearest
<1>. QED
  BY <1>1, <1>2, <1>3, <1>7 DEF true_div_f64

LEMMA QuotientIs ==
  ASSUME NEW m \in Int, NEW n \in Int, n # 0
  PROVE  Quotient(m, n) \in Floats
<1>1. PICK p \in Nat, q \in Nat \ {0} : p = Magnitude(m) * One /\ q = Magnitude(n)
  <2>1. Magnitude(m) \in Nat /\ Magnitude(n) \in Nat \ {0} /\ One \in Nat
    BY MagnitudeIs, OneUnit
  <2>2. Magnitude(m) * One \in Nat
    BY <2>1
  <2>. QED
    BY <2>1, <2>2
<1>2. PICK neg \in BOOLEAN : neg = ((m < 0) # (n < 0))
  OBVIOUS
<1>3. Quotient(m, n) = Nearest(neg, p, q)
  BY <1>1, <1>2, Zenon DEF Quotient
<1>. QED
  BY <1>3, NearestIs

\* A finite float is an answer and not none.
LEMMA AnswerIs ==
  ASSUME NEW f \in Floats
  PROVE  (Answer(f) = None <=> IsInf(f)) /\ (~IsInf(f) => Answer(f) = f)
  BY ValueAssumption DEF Answer, IsInf

LEMMA DivRoundsIs ==
  ASSUME NEW a, NEW b, ExactInt(a), ExactInt(b), Value(b) # 0, ~Subnormal(Quotient(Value(a), Value(b)))
  PROVE  DivRounds(a, b)
<1>0. /\ is_num(a) /\ ~is_float(a) /\ is_num(b) /\ ~is_float(b) /\ Value(a) \in Int /\ Value(b) \in Int
  BY ToBigintIs
<1>1. PICK x \in Bigs : x = to_bigint(a) /\ IntOf(x) = Value(a)
  BY ToBigintIs
<1>2. PICK y \in Bigs : y = to_bigint(b) /\ IntOf(y) = Value(b)
  BY ToBigintIs
<1>3. ~num_is_zero(b)
  BY <1>0, TruthyIs DEF num_is_zero
<1>4. PICK q \in Bigs, r \in Bigs : divmod_floor(x, y) = <<q, r>>
  BY DivModFloorIs
<1>5. IntOf(r) = Value(a) - Value(b) * FloorDiv(Value(a), Value(b))
  <2>1. divmod_floor(x, y)[1] = q /\ divmod_floor(x, y)[2] = r
    BY <1>4
  <2>. QED
    BY <1>1, <1>2, <2>1, FloorIs DEF FloorDiv
<1>6. PICK f \in Floats : f = Quotient(Value(a), Value(b))
  BY <1>0, QuotientIs
<1>7. true_div_f64(x, y) = Answer(f)
  BY <1>1, <1>2, <1>6, TrueDivNearest
<1>8. ASSUME Value(a) # Value(b) * FloorDiv(Value(a), Value(b))
      PROVE  op_div(a, b) = IF IsInf(f) THEN Fault("OVERFLOW") ELSE Float(f)
  <2>1. divmod_floor(to_bigint(a), to_bigint(b))[2] = r
    BY <1>1, <1>2, <1>4
  <2>2. ~is_zero(r)
    <3>1. PICK m \in Int, n \in Int : m = Value(a) /\ n = Value(b)
      BY <1>0
    <3>2. FloorDiv(m, n) \in Int
      <4>1. -n \in Nat \ {0} \/ n \in Nat \ {0}
        BY <3>1
      <4>. QED
        BY <3>1, <4>1, DivIs DEF FloorDiv
    <3>3. PICK p \in Int : p = n * FloorDiv(m, n)
      BY <3>2
    <3>4. IntOf(r) # 0
      BY <1>5, <1>8, <3>1, <3>3
    <3>. QED
      BY <3>4, IntOfIs
  <2>3. op_div(a, b) = IF true_div_f64(to_bigint(a), to_bigint(b)) = None THEN Fault("OVERFLOW")
                       ELSE Float(true_div_f64(to_bigint(a), to_bigint(b)))
    BY <1>0, <1>3, <2>1, <2>2, ZenonT(30) DEF op_div, Divides
  <2>. QED
    BY <1>1, <1>2, <1>7, <2>3, AnswerIs
<1>. QED
  BY <1>6, <1>8 DEF DivRounds

LEMMA NormalMag ==
  ASSUME NEW neg \in BOOLEAN, NEW t \in Nat, Power(2, Prec - 1) <= t
  PROVE  ~Subnormal(FromMag(neg, t))
<1>1. CASE t >= Over
  <2>1. FromMag(neg, t) = Infinite(neg)
    BY <1>1, FromMagIs
  <2>. QED
    BY <2>1 DEF Infinite, Subnormal
<1>2. CASE ~(t >= Over)
  <2>1. t < Over
    BY <1>2, OneUnit
  <2>2. PICK l \in Nat : l = BitLen(t) /\ t < Power(2, l) /\ \A j \in 0..l - 1 : Power(2, j) <= t
    BY BitLenIs
  <2>3. Prec \in Nat \ {0, 1} /\ Prec - 1 \in Nat
    BY ExponentsAre
  <2>4. CASE l - Prec <= 0
    <3>1. FromMag(neg, t) = Finite(neg, t, MinExp)
      BY <2>1, <2>2, <2>3, <2>4, FromMagIs DEF Cut
    <3>. QED
      BY <3>1, MantsAre DEF Finite, Subnormal
  <2>5. CASE ~(l - Prec <= 0)
    <3>1. PICK k \in Nat \ {0} : k = l - Prec /\ k = Cut(t) /\ l - 1 \in 0..l - 1 /\ l - 1 = (Prec - 1) + k
      BY <2>2, <2>3, <2>5 DEF Cut
    <3>2. PICK h \in Nat \ {0}, z \in Nat \ {0} :
              h = Power(2, Prec - 1) /\ z = Power(2, k) /\ Power(2, l - 1) = h * z
      <4>1. 2 \in Int
        OBVIOUS
      <4>2. Power(2, Prec - 1 + k) = Power(2, Prec - 1) * Power(2, k)
        BY <2>3, <3>1, <4>1, PowerAdd
      <4>3. Power(2, Prec - 1) \in Nat \ {0} /\ Power(2, k) \in Nat \ {0}
        BY <2>3, <3>1, HalfOf
      <4>. QED
        BY <3>1, <4>2, <4>3
    <3>3. h * z <= t
      BY <2>2, <3>1, <3>2
    <3>4. PICK d \in Nat, r \in 0..z - 1 : d = t \div z /\ t = z * d + r
      <4>1. t \div z \in Nat /\ t % z \in 0..z - 1 /\ t = z * (t \div z) + (t % z)
        BY QuotNat
      <4>. QED
        BY <4>1
    <3>5. h <= d
      <4>1. z * h < z * (d + 1)
        <5>1. z * h = h * z /\ z * (d + 1) = z * d + z /\ z * d \in Nat /\ h * z \in Nat
          OBVIOUS
        <5>. QED
          BY <3>3, <3>4, <5>1
      <4>2. h < d + 1
        BY <4>1, Less
      <4>. QED
        BY <4>2
    <3>6. FromMag(neg, t) = Finite(neg, d, MinExp + k)
      <4>1. Cut(t) > 0 /\ t \div Power(2, Cut(t)) = d
        BY <3>1, <3>2, <3>4
      <4>. QED
        BY <2>1, <3>1, <4>1, FromMagIs
    <3>. QED
      BY <3>2, <3>5, <3>6 DEF Finite, Subnormal
  <2>. QED
    BY <2>4, <2>5
<1>. QED
  BY <1>1, <1>2

\* A quotient from the least normal float on is not rounded below it.
LEMMA NormalFrom ==
  ASSUME NEW neg \in BOOLEAN, NEW p \in Nat, Power(2, Prec - 1) <= p
  PROVE  ~Subnormal(Nearest(neg, p, 1))
<1>0. 1 \in Nat \ {0} /\ Over \in Nat /\ Over * 1 = Over
  BY OneUnit
<1>1. CASE p >= Over
  <2>1. p >= Over * 1
    BY <1>0, <1>1
  <2>2. Nearest(neg, p, 1) = Infinite(neg)
    BY <1>0, <2>1, NearestIs
  <2>. QED
    BY <2>2 DEF Infinite, Subnormal
<1>2. CASE ~(p >= Over)
  <2>1. p < Over * 1
    BY <1>0, <1>2
  <2> DEFINE low == Max({s \in Mags : s * 1 <= p})
             high == Min({s \in Mags : s > low})
  <2>2. /\ low \in Nat /\ high \in Nat /\ low < high
        /\ \A s \in Mags : s * 1 <= p => s <= low
    BY <1>0, <2>1, Around
  <2>3. Nearest(neg, p, 1) \in {FromMag(neg, low), FromMag(neg, high)}
    BY <1>0, <2>1, NearestIs
  <2>4. Power(2, Prec - 1) \in Mags /\ Power(2, Prec - 1) \in Nat
    <3>1. PICK h \in Nat : h = Power(2, Prec - 1) /\ h \in 0..Power(2, Prec) - 1
      BY MantsAre
    <3>2. 0 \in Nat /\ 2 \in Int /\ MinExp + 0 <= EMax - (Prec - 1)
      BY ExponentsAre
    <3>3. h * Power(2, 0) \in Mags
      BY <3>1, <3>2, GridFloat
    <3>4. Power(2, 0) = 1
      BY <3>2, PowerZero
    <3>5. h * Power(2, 0) = h
      BY <3>4
    <3>. QED
      BY <3>1, <3>3, <3>5
  <2>. HIDE DEF low, high
  <2>5. Power(2, Prec - 1) <= low /\ Power(2, Prec - 1) <= high
    <3>1. PICK h \in Nat : h = Power(2, Prec - 1)
      BY <2>4
    <3>2. h * 1 = h
      OBVIOUS
    <3>3. h \in Mags /\ h * 1 <= p
      BY <2>4, <3>1, <3>2
    <3>4. h <= low
      BY <2>2, <3>3
    <3>. QED
      BY <2>2, <3>1, <3>4
  <2>6. ~Subnormal(FromMag(neg, low)) /\ ~Subnormal(FromMag(neg, high))
    BY <2>2, <2>5, NormalMag
  <2>. QED
    BY <2>3, <2>6
<1>. QED
  BY <1>1, <1>2

LEMMA OneNormal == Power(2, Prec - 1) <= One
<1>1. Prec - 1 \in Nat /\ -MinExp \in Nat /\ Prec - 1 <= -MinExp
  BY ExponentsAre
<1>. QED
  BY <1>1, PowerMono DEF One

\* A big as a float is the float of its value.
LEMMA ToF64Nearest ==
  ASSUME NEW x \in Bigs
  PROVE  to_f64(x) = Answer(IntToFloat(IntOf(x))) /\ IntToFloat(IntOf(x)) \in Floats
<1>1. PICK n \in Int : n = IntOf(x) /\ (n < 0 <=> x.neg) /\ (n = 0 <=> is_zero(x))
  BY IntOfIs
<1>2. one \in Bigs /\ IntOf(one) = 1 /\ ~one.neg
  BY OneIs
<1>3. IntToFloat(n) \in Floats
  BY IntToFloatIs
<1>4. PICK p \in Nat : p = Magnitude(n) * One /\ (n # 0 => One <= p) /\ (n = 0 => p = 0)
  <2>1. PICK k \in Nat, o \in Nat : k = Magnitude(n) /\ (n # 0 => k >= 1) /\ (n = 0 => k = 0) /\ o = One
    BY MagnitudeIs, OneUnit
  <2>2. k * o \in Nat /\ (k = 0 => k * o = 0)
    OBVIOUS
  <2>3. ASSUME k >= 1 PROVE o <= k * o
    <3>1. PICK j \in Nat : k = j + 1
      BY <2>3
    <3>2. (j + 1) * o = j * o + o /\ j * o \in Nat
      OBVIOUS
    <3>. QED
      BY <3>1, <3>2
  <2>. QED
    BY <2>1, <2>2, <2>3
<1>5. PICK neg \in BOOLEAN : neg = (n < 0)
  <2>1. (n < 0) \in BOOLEAN
    OBVIOUS
  <2>. QED
    BY <2>1, Zenon
<1>6. IntToFloat(n) = Nearest(neg, p, 1)
  BY <1>4, <1>5, Zenon DEF IntToFloat
<1>7. CASE n # 0
  <2>1. Power(2, Prec - 1) <= p
    <3>1. Power(2, Prec - 1) \in Nat /\ One \in Nat
      BY MantsAre, OneUnit
    <3>. QED
      BY <1>4, <1>7, <3>1, OneNormal
  <2>2. ~Subnormal(IntToFloat(n))
    BY <1>6, <2>1, NormalFrom
  <2>3. Quotient(n, 1) = IntToFloat(n)
    <3>1. Magnitude(1) = 1 /\ ~(1 < 0)
      BY DEF Magnitude
    <3>2. ((n < 0) # (1 < 0)) = (n < 0)
      BY <3>1
    <3>. QED
      BY <3>1, <3>2, Zenon DEF Quotient, IntToFloat
  <2>4. IntOf(one) # 0 /\ IntToFloat(n) = Quotient(IntOf(x), IntOf(one))
    BY <1>1, <1>2, <2>3
  <2>5. true_div_f64(x, one) = Answer(IntToFloat(n))
    BY <1>2, <2>2, <2>4, TrueDivNearest
  <2>. QED
    BY <1>1, <1>3, <2>5 DEF to_f64
<1>8. CASE n = 0
  <2>1. ~neg /\ p = 0
    <3>1. ~(n < 0) /\ p = 0
      BY <1>4, <1>8
    <3>. QED
      BY <1>5, <3>1, Zenon
  <2>2. 0 \in Mags /\ 0 < Over /\ 1 \in Nat \ {0} /\ 0 \in Nat /\ 0 = 0 * 1
    BY MagsAre, OneUnit
  <2>3. Nearest(neg, 0, 1) = FromMag(neg, 0)
    BY <2>2, NearestExact
  <2>4. Cut(0) <= 0
    <3>1. BitLen(0) \in 0..0
      BY <2>2, BitLenIs
    <3>. QED
      BY <3>1, ExponentsAre DEF Cut
  <2>5. FromMag(neg, 0) = Finite(neg, 0, MinExp)
    BY <2>2, <2>4, FromMagIs
  <2>6. IntToFloat(n) = signed_zero(FALSE)
    <3>1. neg = FALSE
      BY <2>1
    <3>. QED
      BY <1>6, <2>1, <2>3, <2>5, <3>1 DEF signed_zero
  <2>7. is_zero(abs(x)) /\ (x.neg # one.neg) = FALSE
    <3>1. is_zero(abs(x))
      BY <1>1, <1>8, AbsSizes
    <3>2. x.neg \in BOOLEAN /\ one.neg \in BOOLEAN /\ ~x.neg
      BY <1>1, <1>2, <1>8, BigIs
    <3>3. x.neg = FALSE /\ one.neg = FALSE
      BY <1>2, <3>2
    <3>. QED
      BY <3>1, <3>3
  <2>8. to_f64(x) = signed_zero(FALSE)
    BY <2>7 DEF to_f64, true_div_f64, DivAbs
  <2>9. Answer(IntToFloat(n)) = IntToFloat(n)
    BY <2>6 DEF signed_zero, Finite, Answer
  <2>. QED
    BY <1>1, <1>3, <2>6, <2>8, <2>9
<1>. QED
  BY <1>7, <1>8

LEMMA BigToFloat ==
  ASSUME NEW v \in Values, is_big(v)
  PROVE  LET f == IntToFloat(Value(v))
         IN  to_float(v) = IF IsInf(f) THEN Fault("OVERFLOW") ELSE Float(f)
<1>1. v[1] = "big" /\ v[2] \in Bigs
  BY ValueIs DEF is_big
<1>2. Value(v) = IntOf(v[2])
  BY <1>1 DEF Value
<1>3. PICK f \in Floats : f = IntToFloat(IntOf(v[2])) /\ to_f64(v[2]) = Answer(f)
  BY <1>1, ToF64Nearest
<1>4. to_float(v) = FloatOr(to_f64(v[2]), "OVERFLOW")
  BY <1>1 DEF to_float
<1>. QED
  BY <1>2, <1>3, <1>4, AnswerIs DEF FloatOr

\* The float of a magnitude has that magnitude.
LEMMA MagUnits ==
  ASSUME NEW neg \in BOOLEAN, NEW t \in Mags, t < Over
  PROVE  /\ t \in Nat /\ FromMag(neg, t) \in Floats /\ FromMag(neg, t).kind = "finite"
         /\ Units(FromMag(neg, t)) = IF neg THEN -t ELSE t
<1>1. t \in Nat
  BY MagsAre
<1>2. PICK m \in Nat, i \in Nat : t = m * Power(2, i) /\ m < Power(2, Prec)
  <2>1. PICK m \in 0..Power(2, Prec) - 1, e \in MinExp..EMax - (Prec - 1) : t = m * Power(2, e - MinExp)
    <3>1. t # Over
      BY <1>1, OneUnit
    <3>. QED
      BY <3>1 DEF Mags
  <2>2. e - MinExp \in Nat /\ m \in Nat /\ m < Power(2, Prec)
    BY ExponentsAre, MantsAre
  <2>. QED
    BY <2>1, <2>2
<1>3. PICK f \in Floats : f = FromMag(neg, t) /\ f.neg = neg /\ f.kind = "finite"
  BY <1>1, FromMagIs
<1>4. f.m * Power(2, f.e - MinExp) = t
  <2>1. PICK l \in Nat : l = BitLen(t) /\ \A j \in 0..l - 1 : Power(2, j) <= t
    BY <1>1, BitLenIs
  <2>2. Prec \in Nat \ {0, 1} /\ Prec - 1 \in Nat /\ MinExp \in Int
    BY ExponentsAre
  <2>3. CASE Cut(t) <= 0
    <3>1. f = Finite(neg, t, MinExp)
      BY <1>1, <1>3, <2>3, FromMagIs
    <3>2. MinExp - MinExp = 0 /\ 2 \in Int
      BY <2>2
    <3>3. Power(2, MinExp - MinExp) = 1
      BY <3>2, PowerZero
    <3>4. f.m = t /\ f.e = MinExp /\ t * 1 = t
      BY <1>1, <3>1 DEF Finite
    <3>. QED
      BY <3>3, <3>4
  <2>4. CASE ~(Cut(t) <= 0)
    <3>1. PICK k \in Nat \ {0} : k = Cut(t) /\ l - 1 = (Prec - 1) + k /\ l - 1 \in 0..l - 1
      BY <2>1, <2>2, <2>4 DEF Cut
    <3>2. f = Finite(neg, t \div Power(2, k), MinExp + k)
      BY <1>1, <1>3, <3>1, FromMagIs
    <3>3. k <= i
      <4>1. SUFFICES ASSUME i < k PROVE FALSE
        OBVIOUS
      <4>2. PICK h \in Nat \ {0}, z \in Nat \ {0}, w \in Nat \ {0} :
                h = Power(2, Prec - 1) /\ z = Power(2, k) /\ w = Power(2, i) /\ Power(2, l - 1) = h * z
                /\ Power(2, Prec) = 2 * h
        <5>1. 2 \in Int
          OBVIOUS
        <5>2. Power(2, Prec - 1 + k) = Power(2, Prec - 1) * Power(2, k)
          BY <2>2, <3>1, <5>1, PowerAdd
        <5>3. Power(2, Prec - 1) \in Nat \ {0} /\ Power(2, k) \in Nat \ {0} /\ Power(2, i) \in Nat \ {0}
          BY <2>2, <3>1, HalfOf
        <5>. QED
          BY <3>1, <5>2, <5>3, MantsAre
      <4>3. 2 * w <= z
        BY <4>1, <4>2, PowerGrows
      <4>4. h * z <= m * w
        BY <1>2, <2>1, <3>1, <4>2
      <4>5. m + 1 <= 2 * h
        BY <1>2, <4>2
      <4>6. w * (m + 1) <= w * (2 * h) /\ h * (2 * w) <= h * z
        BY <4>3, <4>5, Less
      <4>7. w * (m + 1) = m * w + w /\ w * (2 * h) = h * (2 * w) /\ m * w \in Nat /\ h * z \in Nat
        OBVIOUS
      <4>. QED
        BY <4>4, <4>6, <4>7
    <3>4. PICK j \in Nat : i = k + j
      BY <3>3
    <3>5. PICK z \in Nat \ {0}, y \in Nat : z = Power(2, k) /\ y = Power(2, j) /\ Power(2, i) = z * y
      <4>1. 2 \in Int
        OBVIOUS
      <4>2. Power(2, k + j) = Power(2, k) * Power(2, j)
        BY <4>1, PowerAdd
      <4>3. Power(2, k) \in Nat \ {0} /\ Power(2, j) \in Nat
        BY HalfOf
      <4>. QED
        BY <3>4, <4>2, <4>3
    <3>6. t = z * (m * y)
      <4>1. m * (z * y) = z * (m * y)
        OBVIOUS
      <4>. QED
        BY <1>2, <3>5, <4>1
    <3>7. t \div z = m * y
      <4>1. m * y \in Int /\ 0 \in 0..z - 1 /\ t \in Int /\ z * (m * y) + 0 = z * (m * y)
        BY <1>1
      <4>. QED
        BY <3>6, <4>1, DivIs
    <3>8. f.m = m * y /\ f.e - MinExp = k
      BY <2>2, <3>2, <3>5, <3>7 DEF Finite
    <3>9. z * (m * y) = (m * y) * z
      OBVIOUS
    <3>. QED
      BY <3>5, <3>6, <3>8, <3>9
  <2>. QED
    BY <2>3, <2>4
<1>5. PICK u \in Int : u = Units(f) /\ u = (IF f.neg THEN -t ELSE t)
  BY <1>4, UnitsAre
<1>. QED
  BY <1>1, <1>3, <1>5, Zenon

LEMMA BoolOf ==
  ASSUME NEW s \in Int
  PROVE  \E b \in BOOLEAN : b = (s < 0) /\ (b <=> s < 0)
<1>1. (s < 0) \in BOOLEAN
  OBVIOUS
<1>. QED
  BY <1>1, Zenon

\* A sum that is a magnitude is exact.
LEMMA SumExact ==
  ASSUME NEW x \in Floats, NEW y \in Floats, x.kind = "finite", y.kind = "finite",
         NEW s \in Int, s = Units(x) + Units(y), NEW t \in Mags, t = Magnitude(s), t < Over
  PROVE  FAdd(x, y) \in Floats /\ FAdd(x, y).kind = "finite" /\ Units(FAdd(x, y)) = s
<1>1. FAdd(x, y) = IF s = 0 THEN signed_zero(x.neg /\ y.neg) ELSE Nearest(s < 0, t, 1)
  BY FiniteOnes DEF FAdd
<1>2. FAdd(x, y) \in Floats
  BY FAddIs
<1>3. CASE s = 0
  <2>1. FAdd(x, y) = Finite(x.neg /\ y.neg, 0, MinExp)
    BY <1>1, <1>3 DEF signed_zero
  <2>2. FAdd(x, y).kind = "finite" /\ FAdd(x, y).m = 0
    BY <2>1 DEF Finite
  <2>. QED
    BY <1>2, <1>3, <2>2, UnitsAre
<1>4. CASE s # 0
  <2>1. PICK b \in BOOLEAN : b = (s < 0) /\ (b <=> s < 0)
    BY BoolOf
  <2>2. t \in Nat /\ (s < 0 => t = -s) /\ (s >= 0 => t = s)
    BY MagnitudeIs
  <2>3. 1 \in Nat \ {0} /\ t = t * 1
    BY <2>2
  <2>4. Nearest(b, t, 1) = FromMag(b, t)
    BY <2>2, <2>3, NearestExact
  <2>5. FAdd(x, y) = FromMag(b, t)
    BY <1>1, <1>4, <2>1, <2>4
  <2>6. FromMag(b, t).kind = "finite" /\ Units(FromMag(b, t)) = IF b THEN -t ELSE t
    BY MagUnits
  <2>7. (IF b THEN -t ELSE t) = s
    BY <2>1, <2>2
  <2>. QED
    BY <1>2, <2>5, <2>6, <2>7
<1>. QED
  BY <1>3, <1>4

\* What is left of a float above the integer below it is a magnitude, unless it
\* is more than the float itself.
LEMMA FractionMag ==
  ASSUME NEW f \in Floats, f.kind = "finite", ~IsWhole(f), NEW q \in Int, NEW u \in Nat \ {0},
         Units(f) = q * One + u, NEW v \in Nat, v = Magnitude(Units(f)), u <= v
  PROVE  u \in Mags
<1>1. PICK m \in Nat, e \in Int, r \in Nat \ {0} :
            /\ m = f.m /\ e = f.e /\ r = Power(2, e - MinExp) /\ v = m * r
            /\ e >= 0 => Power(2, e) \in Nat \ {0} /\ r = Power(2, e) * One
            /\ e < 0 => Power(2, -e) \in Nat \ {0} /\ One = Power(2, -e) * r
  BY WeightOfExp
<1>2. e < 0
  <2>1. SUFFICES ASSUME e >= 0 PROVE FALSE
    BY <1>1
  <2>. QED
    BY <1>1, <2>1 DEF IsWhole
<1>3. PICK w \in Nat \ {0} : w = Power(2, -e) /\ One = w * r
  BY <1>1, <1>2
<1>4. PICK a \in Int : Units(f) = a * r
  <2>1. Units(f) = IF f.neg THEN -v ELSE v
    BY UnitsAre
  <2>2. -(m * r) = (-m) * r /\ -m \in Int
    OBVIOUS
  <2>3. CASE f.neg
    <3>1. Units(f) = (-m) * r
      BY <1>1, <2>1, <2>2, <2>3
    <3>. QED
      BY <2>2, <3>1
  <2>4. CASE ~f.neg
    <3>1. Units(f) = m * r
      BY <1>1, <2>1, <2>4
    <3>. QED
      BY <3>1
  <2>. QED
    BY <2>3, <2>4
<1>5. PICK j \in Int : j = a - q * w /\ u = r * j
  <2>1. q * (w * r) = r * (q * w) /\ a * r = r * a /\ r * (a - q * w) = r * a - r * (q * w)
        /\ a - q * w \in Int /\ r * (q * w) \in Int /\ r * a \in Int
    OBVIOUS
  <2>2. u = r * a - r * (q * w)
    BY <1>3, <1>4, <2>1
  <2>. QED
    BY <2>1, <2>2
<1>6. j > 0 /\ j <= m
  <2>1. ASSUME j <= 0 PROVE FALSE
    <3>1. 0 \in Int /\ r * j <= r * 0 /\ r * 0 = 0
      BY <2>1, Less
    <3>. QED
      BY <1>5, <3>1
  <2>2. ASSUME m < j PROVE FALSE
    <3>1. r * m + r <= r * j
      BY <2>2, Less
    <3>2. r * m = m * r /\ m * r \in Nat
      OBVIOUS
    <3>. QED
      BY <1>1, <1>5, <3>1, <3>2
  <2>. QED
    BY <2>1, <2>2
<1>7. f.m \in 0..Power(2, Prec) - 1 /\ f.e \in MinExp..EMax - (Prec - 1)
  BY FloatIs
<1>8. j \in 0..Power(2, Prec) - 1
  BY <1>1, <1>6, <1>7, MantsAre
<1>9. u = j * Power(2, f.e - MinExp)
  <2>1. r * j = j * r
    OBVIOUS
  <2>. QED
    BY <1>1, <1>5, <2>1
<1>. QED
  BY <1>7, <1>8, <1>9 DEF Mags

\* One half as a float.
LEMMA HalfIs ==
  \E h \in Mags : /\ h \in Nat \ {0} /\ One = 2 * h /\ h = One \div 2 /\ h < Over
                  /\ FromMag(FALSE, One \div 2).kind = "finite" /\ Units(FromMag(FALSE, One \div 2)) = h
<1>1. PICK k \in Nat : -MinExp = k + 1
  <2>1. -MinExp \in Nat \ {0} /\ -MinExp - 1 \in Nat
    BY ExponentsAre
  <2>. QED
    BY <2>1
<1>2. PICK h \in Nat \ {0} : h = Power(2, k) /\ One = 2 * h
  <2>1. 2 \in Int /\ Power(2, k) \in Nat \ {0}
    BY HalfOf
  <2>2. Power(2, k + 1) = 2 * Power(2, k)
    BY <2>1, PowerNext
  <2>. QED
    BY <1>1, <2>1, <2>2 DEF One
<1>3. h = One \div 2
  <2>1. 0 \in 0..2 - 1 /\ 2 \in Nat \ {0} /\ 2 * h = 2 * h + 0 /\ 2 * h \in Int
    OBVIOUS
  <2>2. (2 * h) \div 2 = h
    BY <2>1, DivIs
  <2>. QED
    BY <1>2, <2>2
<1>4. h < Over
  BY <1>2, OneUnit
<1>5. h \in Mags
  <2>1. PICK e \in Int : e = MinExp + k /\ e = -1 /\ e - MinExp = k
    BY <1>1, ExponentsAre
  <2>2. e \in MinExp..EMax - (Prec - 1)
    BY <2>1, <1>1, ExponentsAre
  <2>3. 1 \in 0..Power(2, Prec) - 1 /\ h = 1 * Power(2, e - MinExp)
    BY <1>2, <2>1, MantsAre
  <2>. QED
    BY <2>2, <2>3 DEF Mags
<1>6. FromMag(FALSE, h).kind = "finite" /\ Units(FromMag(FALSE, h)) = h
  <2>1. FALSE \in BOOLEAN
    OBVIOUS
  <2>. QED
    BY <1>4, <1>5, <2>1, MagUnits
<1>. QED
  BY <1>2, <1>3, <1>4, <1>5, <1>6

\* Rounding does not cross a magnitude.
LEMMA NearestKeeps ==
  ASSUME NEW p \in Nat, p < One, NEW h \in Mags, h <= p
  PROVE  Nearest(FALSE, p, 1).kind = "finite" /\ Units(Nearest(FALSE, p, 1)) >= h
<1>0. 1 \in Nat \ {0} /\ FALSE \in BOOLEAN /\ One \in Mags /\ One \in Nat /\ Over \in Nat /\ One < Over
      /\ h \in Nat /\ Over * 1 = Over /\ h * 1 = h
  BY OneUnit, MagsAre
<1>1. p < Over * 1
  BY <1>0
<1> DEFINE low == Max({s \in Mags : s * 1 <= p})
           high == Min({s \in Mags : s > low})
<1>2. /\ low \in Mags /\ high \in Mags /\ low \in Nat /\ high \in Nat /\ low < high /\ low * 1 <= p
      /\ \A s \in Mags : (s * 1 <= p => s <= low) /\ (s > low => high <= s)
  BY <1>0, <1>1, Around
<1>3. Nearest(FALSE, p, 1) \in {FromMag(FALSE, low), FromMag(FALSE, high)}
  BY <1>0, <1>1, NearestIs
<1>. HIDE DEF low, high
<1>4. h <= low /\ low < Over
  BY <1>0, <1>2
<1>5. high < Over
  <2>1. One > low
    BY <1>0, <1>2
  <2>2. high <= One
    BY <1>0, <1>2, <2>1
  <2>. QED
    BY <1>0, <1>2, <2>2
<1>6. /\ FromMag(FALSE, low).kind = "finite" /\ Units(FromMag(FALSE, low)) = low
      /\ FromMag(FALSE, high).kind = "finite" /\ Units(FromMag(FALSE, high)) = high
  BY <1>0, <1>2, <1>4, <1>5, MagUnits
<1>7. h <= low /\ h <= high
  BY <1>0, <1>2, <1>4
<1>8. CASE Nearest(FALSE, p, 1) = FromMag(FALSE, low)
  <2>1. Units(Nearest(FALSE, p, 1)) = low
    BY <1>6, <1>8
  <2>. QED
    BY <1>6, <1>7, <1>8, <2>1
<1>9. CASE Nearest(FALSE, p, 1) = FromMag(FALSE, high)
  <2>1. Units(Nearest(FALSE, p, 1)) = high
    BY <1>6, <1>9
  <2>. QED
    BY <1>6, <1>7, <1>9, <2>1
<1>. QED
  BY <1>3, <1>8, <1>9

\* A whole float is even when the float's remainder by two is zero.
LEMMA EvenFloat ==
  ASSUME NEW x \in Floats, x.kind = "finite", NEW q \in Int, Units(x) = q * One
  PROVE  IsZero(py_mod_f64(x, IntToFloat(2))) <=> q % 2 = 0
<1>1. PICK w \in Nat \ {0} : w = One /\ w \in Mags /\ w < Over /\ w = 1 * w /\ 2 * w \in Nat \ {0}
  BY OneUnit, MagsAre
<1>2. 2 \in 0..Power(2, Prec) - 1
  <2>1. PICK h \in Nat \ {0, 1} : h = Power(2, Prec - 1) /\ Power(2, Prec) = 2 * h
    BY MantsAre
  <2>. QED
    BY <2>1
<1>3. PICK y \in Floats : y = IntToFloat(2) /\ y.kind = "finite" /\ Units(y) = 2 * w /\ ~y.neg
  <2>1. PICK t \in Mags : t = 2 * One /\ t < Over /\ t \in Nat /\ t = t * 1
    BY <1>2, WholeBelow
  <2>2. FALSE \in BOOLEAN /\ 1 \in Nat \ {0}
    OBVIOUS
  <2>3. Nearest(FALSE, t, 1) = FromMag(FALSE, t)
    BY <2>1, <2>2, NearestExact
  <2>4. Magnitude(2) = 2 /\ (2 < 0) = FALSE
    BY DEF Magnitude
  <2>5. IntToFloat(2) = FromMag(FALSE, t)
    BY <2>1, <2>3, <2>4, Zenon DEF IntToFloat
  <2>6. FromMag(FALSE, t) \in Floats /\ FromMag(FALSE, t).kind = "finite" /\ Units(FromMag(FALSE, t)) = t
    BY <2>1, <2>2, MagUnits
  <2>7. FromMag(FALSE, t).neg = FALSE
    BY <2>1, <2>2, FromMagIs
  <2>. QED
    BY <1>1, <2>1, <2>5, <2>6, <2>7
<1>4. PICK c \in Nat : c = Magnitude(q) /\ (q < 0 => c = -q) /\ (q >= 0 => c = q)
  BY MagnitudeIs
<1>5. Magnitude(q * w) = c * w /\ Magnitude(2 * w) = 2 * w
  <2>1. PICK s \in Int : s = q * w
    OBVIOUS
  <2>2. CASE q < 0
    <3>1. c * w = -(q * w) /\ q * w < 0
      BY <1>4, <2>2
    <3>. QED
      BY <1>1, <2>1, <3>1 DEF Magnitude
  <2>3. CASE q >= 0
    <3>1. c * w = q * w /\ ~(q * w < 0)
      BY <1>4, <2>3
    <3>. QED
      BY <1>1, <2>1, <3>1 DEF Magnitude
  <2>. QED
    BY <2>2, <2>3
<1>6. PICK d \in Nat, b \in 0..1 : c = 2 * d + b
  <2>1. 2 \in Nat \ {0}
    OBVIOUS
  <2>2. c \div 2 \in Nat /\ c % 2 \in 0..2 - 1 /\ c = 2 * (c \div 2) + (c % 2)
    BY ONLY <2>1, QuotNat
  <2>. QED
    BY <2>2
<1>7. q % 2 = b
  <2>1. 2 \in Nat \ {0} /\ b \in 0..2 - 1
    OBVIOUS
  <2>2. CASE q >= 0
    <3>1. q = 2 * d + b
      BY <1>4, <1>6, <2>2
    <3>. QED
      BY <2>1, <3>1, DivIs
  <2>3. CASE q < 0
    <3>1. -d - b \in Int /\ q = 2 * (-d - b) + b
      BY <1>4, <1>6, <2>3
    <3>. QED
      BY <2>1, <3>1, DivIs
  <2>. QED
    BY <2>2, <2>3
<1>8. (c * w) % (2 * w) = b * w
  <2>1. c * w = (2 * w) * d + b * w
    <3>1. (2 * d + b) * w = (2 * w) * d + b * w
      OBVIOUS
    <3>. QED
      BY <1>6, <3>1
  <2>2. b * w \in 0..(2 * w) - 1
    <3>1. 0 * w = 0 /\ 1 * w = w
      OBVIOUS
    <3>. QED
      BY <3>1
  <2>3. c * w \in Int /\ 2 * w \in Nat \ {0} /\ d \in Int
    OBVIOUS
  <2>. QED
    BY <2>1, <2>2, <2>3, DivIs
<1>9. FRem(x, y) = FromMag(x.neg, b * w)
  <2>1. Magnitude(Units(x)) = c * w /\ Magnitude(Units(y)) = 2 * w
    BY <1>1, <1>3, <1>5
  <2>. QED
    BY <1>3, <1>8, <2>1, FiniteOnes DEF FRem
<1>10. x.neg \in BOOLEAN
  BY FloatIs
<1>11. CASE b = 0
  <2>1. FRem(x, y) = FromMag(x.neg, 0)
    BY <1>9, <1>11
  <2>2. 0 \in Nat /\ 0 < Over
    BY OneUnit
  <2>3. FRem(x, y) \in Floats /\ IsZero(FRem(x, y))
    BY <1>10, <2>1, <2>2, FromMagIs DEF IsZero
  <2>4. py_mod_f64(x, y) = FRem(x, y)
    BY <2>3 DEF py_mod_f64
  <2>. QED
    BY <1>3, <1>7, <1>11, <2>3, <2>4
<1>12. CASE b = 1
  <2>1. FRem(x, y) = FromMag(x.neg, w)
    BY <1>1, <1>9, <1>12
  <2>2. PICK r \in Floats : /\ r = FRem(x, y) /\ r.kind = "finite" /\ r.m # 0 /\ r.neg = x.neg
                            /\ Units(r) = IF x.neg THEN -w ELSE w
    BY <1>1, <1>10, <2>1, FromMagIs, MagUnits
  <2>3. py_mod_f64(x, y) = IF Below0(r) # Below0(y) THEN FAdd(r, y) ELSE r
    BY <2>2, FiniteOnes DEF py_mod_f64
  <2>4. CASE ~x.neg
    <3>1. ~Below0(r) /\ ~Below0(y)
      BY <1>3, <2>2, <2>4 DEF Below0
    <3>2. Below0(r) = Below0(y)
      BY <3>1, Zenon DEF Below0
    <3>3. py_mod_f64(x, y) = r
      BY <2>3, <3>2
    <3>. QED
      BY <1>3, <1>7, <1>12, <2>2, <3>3 DEF IsZero
  <2>5. CASE x.neg
    <3>1. py_mod_f64(x, y) = r \/ py_mod_f64(x, y) = FAdd(r, y)
      BY <2>3
    <3>2. ~IsZero(r)
      BY <2>2 DEF IsZero
    <3>3. ~IsZero(FAdd(r, y))
      <4>1. w = Units(r) + Units(y)
        BY <1>3, <2>2, <2>5
      <4>2. Magnitude(w) = w
        BY DEF Magnitude
      <4>3. FAdd(r, y) \in Floats /\ Units(FAdd(r, y)) = w
        BY <1>1, <1>3, <2>2, <4>1, <4>2, SumExact
      <4>4. FAdd(r, y).m # 0
        BY <4>3, UnitsAre
      <4>. QED
        BY <4>4 DEF IsZero
    <3>. QED
      BY <1>3, <1>7, <1>12, <3>1, <3>2, <3>3
  <2>. QED
    BY <2>4, <2>5
<1>. QED
  BY <1>11, <1>12

LEMMA OneFloat ==
  IntToFloat(1) \in Floats /\ IntToFloat(1).kind = "finite" /\ Units(IntToFloat(1)) = One
<1>1. One \in Mags /\ One \in Nat /\ One < Over /\ One * 1 = One /\ 1 * One = One
  BY OneUnit, MagsAre
<1>2. FALSE \in BOOLEAN /\ 1 \in Nat \ {0} /\ (1 < 0) = FALSE /\ Magnitude(1) = 1
  BY DEF Magnitude
<1>3. Nearest(FALSE, One, 1) = FromMag(FALSE, One)
  BY <1>1, <1>2, NearestExact
<1>4. IntToFloat(1) = FromMag(FALSE, One)
  BY <1>1, <1>2, <1>3, Zenon DEF IntToFloat
<1>5. FromMag(FALSE, One).kind = "finite" /\ FromMag(FALSE, One) \in Floats /\ Units(FromMag(FALSE, One)) = One
  BY <1>1, <1>2, MagUnits
<1>. QED
  BY <1>4, <1>5

\* The integers on the two sides of a float, as rd makes them.
Below(f, q) ==
    /\ Floor(f) \in Floats /\ Floor(f).kind = "finite" /\ Units(Floor(f)) = q * One
    /\ from_f64_exact(Floor(f)) \in Bigs /\ IntOf(from_f64_exact(Floor(f))) = q
AboveIt(f, q) ==
    /\ from_f64_exact(FAdd(Floor(f), IntToFloat(1))) \in Bigs
    /\ IntOf(from_f64_exact(FAdd(Floor(f), IntToFloat(1)))) = q + 1

LEMMA SidesOf ==
  ASSUME NEW f \in Floats, f.kind = "finite", ~IsWhole(f)
  PROVE  \E q \in Int, u \in Nat \ {0} : Units(f) = q * One + u /\ u < One /\ Below(f, q) /\ AboveIt(f, q)
<1>1. PICK w \in Nat \ {0} : w = One
  BY OneUnit
<1>2. PICK v \in Int : v = Units(f)
  BY UnitsAre
<1>3. PICK q \in Int : /\ from_f64_exact(Floor(f)) \in Bigs /\ IntOf(from_f64_exact(Floor(f))) = q
                       /\ q * w < v /\ v < q * w + w
  BY <1>1, <1>2, FloorExact
<1>4. PICK u \in Nat \ {0} : v = q * w + u /\ u < w
  <2>1. v - q * w \in Nat \ {0} /\ v = q * w + (v - q * w) /\ v - q * w < w
    BY <1>3
  <2>. QED
    BY <2>1
<1>5. v \div w = q
  <2>1. v = w * q + u /\ u \in 0..w - 1
    BY <1>4
  <2>. QED
    BY <2>1, DivIs
<1>6. PICK n \in Nat : n = Magnitude(q) /\ n <= Power(2, Prec - 1) /\ (q < 0 => n = -q) /\ (q >= 0 => n = q)
  <2>1. PICK n \in Nat : n = Magnitude(v \div w) /\ n <= Power(2, Prec - 1)
    BY <1>1, <1>2, FloorMag
  <2>. QED
    BY <1>5, <2>1, MagnitudeIs
<1>7. Floor(f) \in Floats /\ Floor(f).kind = "finite" /\ IsWhole(Floor(f))
  BY FloorWhole DEF IsWhole
<1>8. Units(Floor(f)) = q * w
  BY <1>1, <1>3, <1>7, FromExactIs
<1>9. PICK c \in Nat : c = Magnitude(q + 1) /\ (q + 1 < 0 => c = -(q + 1)) /\ (q + 1 >= 0 => c = q + 1)
  BY MagnitudeIs
<1>10. c \in 0..Power(2, Prec) - 1
  <2>1. PICK h \in Nat \ {0, 1} : h = Power(2, Prec - 1) /\ Power(2, Prec) = 2 * h
    BY MantsAre
  <2>2. c <= n + 1
    BY <1>6, <1>9
  <2>3. n <= h
    BY <1>6, <2>1
  <2>4. c < 2 * h
    BY <2>2, <2>3
  <2>. QED
    BY <2>1, <2>4
<1>11. PICK t \in Mags : t = c * w /\ t < Over
  BY <1>1, <1>10, WholeBelow
<1>12. PICK s \in Int : s = (q + 1) * w /\ s = q * w + w
  <2>1. (q + 1) * w \in Int /\ (q + 1) * w = q * w + w
    OBVIOUS
  <2>. QED
    BY <2>1
<1>13. t = Magnitude(s)
  <2>1. PICK z \in Int : z = q + 1
    OBVIOUS
  <2>2. CASE z < 0
    <3>1. (-z) * w = -(z * w) /\ z * w < 0
      BY <2>2
    <3>. QED
      BY <1>9, <1>11, <1>12, <2>1, <2>2, <3>1 DEF Magnitude
  <2>3. CASE z >= 0
    <3>1. ~(z * w < 0)
      BY <2>3
    <3>. QED
      BY <1>9, <1>11, <1>12, <2>1, <2>3, <3>1 DEF Magnitude
  <2>. QED
    BY <2>2, <2>3
<1>14. PICK g \in Floats : /\ g = FAdd(Floor(f), IntToFloat(1)) /\ IsWhole(g) /\ Units(g) = s
  <2>1. s = Units(Floor(f)) + Units(IntToFloat(1))
    BY <1>1, <1>8, <1>12, OneFloat
  <2>2. Units(FAdd(Floor(f), IntToFloat(1))) = s
    BY <1>7, <1>11, <1>13, <2>1, OneFloat, SumExact
  <2>. QED
    BY <2>2, UpWhole
<1>15. PICK i \in Int : i = IntOf(from_f64_exact(g)) /\ i * w = s /\ from_f64_exact(g) \in Bigs
  BY <1>1, <1>14, FromExactIs
<1>16. i = q + 1
  <2>1. PICK z \in Int : z = q + 1 /\ z * w = i * w
    BY <1>12, <1>15
  <2>2. w * z = z * w /\ w * i = i * w
    OBVIOUS
  <2>3. w * z = w * i /\ w * z \in Int
    BY <2>1, <2>2
  <2>4. ~(z < i) /\ ~(i < z)
    <3>1. ASSUME z < i PROVE FALSE
      <4>1. w * z + w <= w * i
        BY <3>1, Less
      <4>. QED
        BY <2>3, <4>1
    <3>2. ASSUME i < z PROVE FALSE
      <4>1. w * i + w <= w * z
        BY <3>2, Less
      <4>. QED
        BY <2>3, <4>1
    <3>. QED
      BY <3>1, <3>2
  <2>. QED
    BY <2>1, <2>4
<1>17. Below(f, q)
  BY <1>1, <1>3, <1>7, <1>8 DEF Below
<1>18. AboveIt(f, q)
  BY <1>14, <1>15, <1>16 DEF AboveIt
<1>. QED
  BY <1>1, <1>2, <1>4, <1>17, <1>18

Distance(f) == FCmp(FAdd(f, FNeg(Floor(f))), FromMag(FALSE, One \div 2))
ToHalf(u, w, q, c) ==
    (2 * u < w => c = -1) /\ (2 * u = w => c = 0) /\ (2 * u > w => c = 1 \/ (c = 0 /\ q = -1))

LEMMA Compares ==
  ASSUME NEW m \in Int, NEW n \in Int
  PROVE  (m < n => Cmp(m, n) = -1) /\ (m = n => Cmp(m, n) = 0) /\ (m > n => Cmp(m, n) = 1)
  BY DEF Cmp

\* The distance of a float from the integer below it, against one half: it is
\* exact up to one half, and beyond it becomes no less, one half only above -1.
LEMMA DistanceIs ==
  ASSUME NEW f \in Floats, f.kind = "finite", ~IsWhole(f), NEW q \in Int, NEW u \in Nat \ {0},
         Units(f) = q * One + u, u < One, Below(f, q)
  PROVE  ToHalf(u, One, q, Distance(f))
<1>0. PICK c : c = Distance(f)
  OBVIOUS
<1>1. PICK w \in Nat \ {0} : w = One /\ w < Over /\ w \in Mags
  BY OneUnit, MagsAre
<1>2. PICK h \in Mags, y \in Floats : /\ h \in Nat \ {0} /\ w = 2 * h /\ h < Over
                                      /\ y = FromMag(FALSE, One \div 2) /\ y.kind = "finite" /\ Units(y) = h
  <2>1. PICK h \in Mags : /\ h \in Nat \ {0} /\ One = 2 * h /\ h = One \div 2 /\ h < Over
                          /\ FromMag(FALSE, One \div 2).kind = "finite" /\ Units(FromMag(FALSE, One \div 2)) = h
    BY HalfIs
  <2>2. FALSE \in BOOLEAN
    OBVIOUS
  <2>3. FromMag(FALSE, h) \in Floats
    BY <2>1, <2>2, FromMagIs
  <2>. QED
    BY <1>1, <2>1, <2>3
<1>3. PICK v \in Int, a \in Nat : /\ v = Units(f) /\ a = Magnitude(v) /\ (v < 0 => a = -v) /\ (v >= 0 => a = v)
                                  /\ v = q * w + u
  <2>1. Units(f) \in Int /\ Magnitude(Units(f)) \in Nat
    BY UnitsAre
  <2>. QED
    BY <1>1, <2>1, MagnitudeIs
<1>4. PICK x \in Floats, g \in Floats : /\ x = Floor(f) /\ x.kind = "finite" /\ Units(x) = q * w
                                        /\ g = FNeg(x) /\ g.kind = "finite" /\ Units(g) = -(q * w)
  <2>1. Floor(f) \in Floats /\ Floor(f).kind = "finite" /\ Units(Floor(f)) = q * w
    BY <1>1 DEF Below
  <2>2. PICK x \in Floats : x = Floor(f) /\ x.kind = "finite" /\ Units(x) = q * w
    BY <2>1
  <2>3. FNeg(x) \in Floats /\ FNeg(x).kind = "finite" /\ FNeg(x).m = x.m /\ FNeg(x).e = x.e /\ FNeg(x).neg = ~x.neg
    BY <2>2, FNegIs
  <2>4. PICK k \in Nat : k = x.m * Power(2, x.e - MinExp) /\ Units(x) = (IF x.neg THEN -k ELSE k)
                         /\ Units(FNeg(x)) = (IF FNeg(x).neg THEN -k ELSE k)
    <3>1. Magnitude(Units(x)) \in Nat /\ Magnitude(Units(x)) = x.m * Power(2, x.e - MinExp)
          /\ Units(x) = (IF x.neg THEN -Magnitude(Units(x)) ELSE Magnitude(Units(x)))
      BY UnitsAre
    <3>2. Magnitude(Units(FNeg(x))) = FNeg(x).m * Power(2, FNeg(x).e - MinExp)
          /\ Units(FNeg(x)) = (IF FNeg(x).neg THEN -Magnitude(Units(FNeg(x))) ELSE Magnitude(Units(FNeg(x))))
      BY <2>3, UnitsAre
    <3>3. Magnitude(Units(FNeg(x))) = Magnitude(Units(x))
      BY <2>3, <3>1, <3>2
    <3>. QED
      BY <3>1, <3>2, <3>3
  <2>5. x.neg \in BOOLEAN
    BY FloatIs
  <2>6. Units(FNeg(x)) = -Units(x)
    <3>1. CASE x.neg
      <4>1. ~FNeg(x).neg
        BY <2>3, <3>1, Zenon
      <4>2. Units(x) = -k /\ Units(FNeg(x)) = k
        BY <2>4, <3>1, <4>1, Zenon
      <4>. QED
        BY <4>2
    <3>2. CASE ~x.neg
      <4>1. FNeg(x).neg
        BY <2>3, <3>2, Zenon
      <4>2. Units(x) = k /\ Units(FNeg(x)) = -k
        BY <2>4, <3>2, <4>1, Zenon
      <4>. QED
        BY <4>2
    <3>. QED
      BY <3>1, <3>2
  <2>. QED
    BY <2>2, <2>3, <2>6
<1>5. u = Units(f) + Units(g) /\ Magnitude(u) = u /\ u \in Int
  <2>1. PICK k \in Int : k = q * w
    OBVIOUS
  <2>2. u = v + -(q * w)
    BY <1>3, <2>1
  <2>. QED
    BY <1>3, <1>4, <2>2 DEF Magnitude
<1>6. PICK d \in Floats : d = FAdd(f, g) /\ c = FCmp(d, y)
  BY <1>0, <1>2, <1>4, FAddIs DEF Distance
<1>7. ASSUME d.kind = "finite" PROVE c = Cmp(Units(d), h)
  BY <1>2, <1>6, <1>7, FiniteOnes DEF FCmp
<1>8. ASSUME u \in Mags PROVE d.kind = "finite" /\ Units(d) = u
  <2>1. u < Over
    BY <1>1, OneUnit
  <2>. QED
    BY <1>4, <1>5, <1>6, <1>8, <2>1, SumExact
<1>9. u <= a => u \in Mags
  BY <1>1, <1>3, FractionMag
<1>10. v >= 0 => u <= a
  <2>1. SUFFICES ASSUME v >= 0 PROVE u <= a
    OBVIOUS
  <2>2. q >= 0
    <3>1. SUFFICES ASSUME q < 0 PROVE FALSE
      OBVIOUS
    <3>2. w * q + w <= w * 0 /\ w * 0 = 0
      BY <3>1, Less
    <3>3. w * q = q * w /\ q * w \in Int
      OBVIOUS
    <3>. QED
      BY <1>1, <1>3, <2>1, <3>2, <3>3
  <2>3. q * w \in Nat
    BY <2>2
  <2>. QED
    BY <1>3, <2>1, <2>3
<1>11. ASSUME 2 * u <= w PROVE ToHalf(u, w, q, c)
  <2>1. u <= a
    <3>1. CASE v >= 0
      BY <1>10, <3>1
    <3>2. CASE v < 0
      <4>1. q < 0
        <5>1. SUFFICES ASSUME q >= 0 PROVE FALSE
          OBVIOUS
        <5>2. q * w \in Nat
          BY <5>1
        <5>. QED
          BY <1>3, <3>2, <5>2
      <4>2. w * q + w <= w * 0 /\ w * 0 = 0 /\ w * q = q * w /\ q * w \in Int
        BY <4>1, Less
      <4>. QED
        BY <1>3, <1>11, <3>2, <4>2
    <3>. QED
      BY <3>1, <3>2
  <2>2. c = Cmp(u, h)
    BY <1>7, <1>8, <1>9, <2>1
  <2>3. (2 * u < w => u < h) /\ (2 * u = w => u = h) /\ h \in Int /\ u \in Int
    BY <1>2
  <2>4. (2 * u < w => c = -1) /\ (2 * u = w => c = 0)
    BY <2>2, <2>3, Compares
  <2>. QED
    BY <1>11, <2>4 DEF ToHalf
<1>12. ASSUME ~(2 * u <= w) PROVE ToHalf(u, w, q, c)
  <2>1. h < u /\ u < w
    BY <1>1, <1>2, <1>12
  <2>2. d = Nearest(FALSE, u, 1)
    <3>1. (u < 0) = FALSE /\ u # 0
      OBVIOUS
    <3>2. FAdd(f, g) = Nearest(u < 0, Magnitude(u), 1)
      BY <1>4, <1>5, <3>1, FiniteOnes DEF FAdd
    <3>. QED
      BY <1>5, <1>6, <3>1, <3>2
  <2>3. d.kind = "finite" /\ Units(d) >= h
    <3>1. u \in Nat /\ u < One /\ h \in Mags /\ h <= u
      BY <1>2, <2>1
    <3>. QED
      BY <2>2, <3>1, NearestKeeps
  <2>4. PICK z \in Int : z = Units(d) /\ c = Cmp(z, h) /\ z >= h
    BY <1>7, <2>3, UnitsAre
  <2>5. CASE z > h
    <3>1. c = 1
      BY <1>2, <2>4, <2>5, Compares
    <3>. QED
      BY <1>12, <3>1 DEF ToHalf
  <2>6. CASE z = h
    <3>1. ~(u <= a)
      BY <1>8, <1>9, <2>1, <2>4, <2>6
    <3>2. v < 0 /\ a = -v /\ v + u > 0
      BY <1>3, <1>10, <3>1
    <3>3. q = -1
      <4>1. q < 0
        <5>1. SUFFICES ASSUME q >= 0 PROVE FALSE
          OBVIOUS
        <5>2. q * w \in Nat
          BY <5>1
        <5>. QED
          BY <1>3, <3>2, <5>2
      <4>2. ~(q < -1)
        <5>1. SUFFICES ASSUME q <= -2 PROVE FALSE
          OBVIOUS
        <5>2. w * q <= w * (-2) /\ w * (-2) = -(2 * w) /\ w * q = q * w /\ q * w \in Int
          BY <5>1, Less
        <5>. QED
          BY <1>3, <2>1, <3>2, <5>2
      <4>. QED
        BY <4>1, <4>2
    <3>4. c = 0
      BY <2>4, <2>6, Compares
    <3>. QED
      BY <1>12, <3>3, <3>4 DEF ToHalf
  <2>. QED
    BY <1>2, <2>4, <2>5, <2>6
<1>13. ToHalf(u, w, q, c)
  BY <1>11, <1>12
<1>. QED
  BY <1>0, <1>1, <1>13

LEMMA NearBelow ==
  ASSUME NEW f, NEW q \in Int, NEW u \in Nat \ {0}, NEW w \in Nat \ {0}, w = One,
         Units(f) = q * w + u, 2 * u <= w, 2 * u = w => q % 2 = 0
  PROVE  IsNearest(q, f)
<1>1. 2 * (q * w - (q * w + u)) = -(2 * u) /\ -(2 * u) \in -w..w /\ -(2 * u) # w
  OBVIOUS
<1>2. 2 * (q * One - Units(f)) = -(2 * u)
  BY <1>1
<1>3. -(2 * u) = -w => q % 2 = 0
  OBVIOUS
<1>. QED
  BY <1>1, <1>2, <1>3 DEF IsNearest

LEMMA AboveHalf ==
  ASSUME NEW u \in Nat \ {0}, NEW w \in Nat \ {0}, u < w, 2 * u >= w
  PROVE  \E d \in Int : d = 2 * w - 2 * u /\ d \in -w..w /\ d # -w /\ (d = w => 2 * u = w)
<1>1. 2 * w - 2 * u \in -w..w /\ 2 * w - 2 * u # -w /\ (2 * w - 2 * u = w => 2 * u = w)
  OBVIOUS
<1>2. 2 * w - 2 * u \in Int
  OBVIOUS
<1>. QED
  BY <1>1, <1>2

LEMMA NearAbove ==
  ASSUME NEW f, NEW q \in Int, NEW u \in Nat \ {0}, NEW w \in Nat \ {0}, w = One, u < w,
         Units(f) = q * w + u, 2 * u >= w, 2 * u = w => q % 2 # 0
  PROVE  IsNearest(q + 1, f)
<1>1. PICK d \in Int : d = 2 * w - 2 * u /\ d \in -w..w /\ d # -w /\ (d = w => 2 * u = w)
  BY AboveHalf
<1>2. 2 * ((q + 1) * w - (q * w + u)) = d
  <2>1. (q + 1) * w = q * w + w /\ q * w \in Int
    OBVIOUS
  <2>. QED
    BY <1>1, <2>1
<1>3. 2 * ((q + 1) * One - Units(f)) = d
  BY <1>2
<1>4. q % 2 # 0 => (q + 1) % 2 = 0
  OBVIOUS
<1>. QED
  BY <1>1, <1>3, <1>4 DEF IsNearest

LEMMA NearWhole ==
  ASSUME NEW f, NEW q \in Int, Units(f) = q * One
  PROVE  IsNearest(q, f)
<1>1. PICK w \in Nat \ {0} : w = One
  BY OneUnit
<1>2. 2 * (q * w - q * w) = 0 /\ 0 \in -w..w /\ 0 # w /\ 0 # -w
  OBVIOUS
<1>. QED
  BY <1>1, <1>2 DEF IsNearest

\* rd gives an integer nearest to a finite float, the even one of two.
LEMMA RoundHalfNearest ==
  ASSUME NEW f \in Floats, f.kind = "finite"
  PROVE  round_half_even(f) \in Bigs /\ IsNearest(IntOf(round_half_even(f)), f)
<1>1. round_half_even(f) \in Bigs
  BY RoundHalfTyped
<1>2. CASE IsWhole(f)
  <2>1. round_half_even(f) = from_f64_exact(f)
    BY <1>2 DEF round_half_even
  <2>. QED
    BY <1>1, <1>2, <2>1, FromExactIs, NearWhole
<1>3. CASE ~IsWhole(f)
  <2>1. PICK q \in Int, u \in Nat \ {0} : Units(f) = q * One + u /\ u < One /\ Below(f, q) /\ AboveIt(f, q)
    BY <1>3, SidesOf
  <2>2. PICK c : c = Distance(f) /\ ToHalf(u, One, q, c)
    BY <1>3, <2>1, DistanceIs
  <2>3. PICK w \in Nat \ {0} : w = One
    BY OneUnit
  <2>4. \/ 2 * u < w /\ c = -1
        \/ 2 * u = w /\ c = 0
        \/ 2 * u > w /\ (c = 1 \/ (c = 0 /\ q = -1))
    BY <2>2, <2>3 DEF ToHalf
  <2>5. IsZero(py_mod_f64(Floor(f), IntToFloat(2))) <=> q % 2 = 0
    BY <2>1, EvenFloat DEF Below
  <2> DEFINE down == from_f64_exact(Floor(f))
             up == from_f64_exact(FAdd(Floor(f), IntToFloat(1)))
  <2>6. IntOf(down) = q /\ IntOf(up) = q + 1
    BY <2>1 DEF Below, AboveIt
  <2>7. /\ c = -1 => round_half_even(f) = down
        /\ c = 1 => round_half_even(f) = up
        /\ c = 0 => round_half_even(f) = IF IsZero(py_mod_f64(Floor(f), IntToFloat(2))) THEN down ELSE up
    <3>1. FCmp(FAdd(f, FNeg(Floor(f))), FromMag(FALSE, One \div 2)) = c
      BY <2>2 DEF Distance
    <3>2. c = -1 => c < 0 /\ ~(c > 0)
      OBVIOUS
    <3>3. c = 1 => c > 0 /\ ~(c < 0)
      OBVIOUS
    <3>4. c = 0 => ~(c > 0) /\ ~(c < 0)
      OBVIOUS
    <3>5. c = -1 => round_half_even(f) = down
      BY <1>3, <3>1, <3>2, <3>3 DEF round_half_even
    <3>6. c = 1 => round_half_even(f) = up
      BY <1>3, <3>1, <3>3 DEF round_half_even
    <3>7. ASSUME c = 0 PROVE round_half_even(f) = IF IsZero(py_mod_f64(Floor(f), IntToFloat(2))) THEN down ELSE up
      <4>1. CASE IsZero(py_mod_f64(Floor(f), IntToFloat(2)))
        BY <1>3, <3>1, <3>4, <3>7, <4>1 DEF round_half_even
      <4>2. CASE ~IsZero(py_mod_f64(Floor(f), IntToFloat(2)))
        BY <1>3, <3>1, <3>4, <3>7, <4>2 DEF round_half_even
      <4>. QED
        BY <4>1, <4>2
    <3>. QED
      BY <3>5, <3>6, <3>7
  <2>. HIDE DEF down, up
  <2>8. (2 * u <= w /\ (2 * u = w => q % 2 = 0)) => IsNearest(q, f)
    BY <2>1, <2>3, NearBelow
  <2>9. (2 * u >= w /\ (2 * u = w => q % 2 # 0)) => IsNearest(q + 1, f)
    BY <2>1, <2>3, NearAbove
  <2>10. q = -1 => q % 2 # 0
    OBVIOUS
  <2>11. \/ IntOf(round_half_even(f)) = q /\ 2 * u <= w /\ (2 * u = w => q % 2 = 0)
         \/ IntOf(round_half_even(f)) = q + 1 /\ 2 * u >= w /\ (2 * u = w => q % 2 # 0)
    <3>1. CASE 2 * u < w /\ c = -1
      BY <2>6, <2>7, <3>1
    <3>2. CASE 2 * u = w /\ c = 0
      BY <2>5, <2>6, <2>7, <3>2
    <3>3. CASE 2 * u > w /\ c = 1
      BY <2>6, <2>7, <3>3
    <3>4. CASE 2 * u > w /\ c = 0 /\ q = -1
      <4>1. round_half_even(f) = up
        BY <2>5, <2>7, <2>10, <3>4
      <4>. QED
        BY <2>6, <3>4, <4>1
    <3>. QED
      BY <2>4, <3>1, <3>2, <3>3, <3>4
  <2>. QED
    BY <1>1, <2>8, <2>9, <2>11
<1>. QED
  BY <1>2, <1>3

LEMMA RdNearest ==
  ASSUME NEW v \in Values, is_float(v), v[2].kind = "finite", ~Faulted(b_roundish("rd", v))
  PROVE  IsNearest(b_roundish("rd", v)[2], v[2])
<1>1. PICK f \in Floats : f = v[2] /\ f.kind = "finite"
  BY ValueIs DEF is_float
<1>2. is_num(v) /\ ~IsNaN(f) /\ ~IsInf(f)
  BY <1>1, FiniteOnes DEF is_num, is_float
<1>3. b_roundish("rd", v) = fit_int(round_half_even(f))
  BY <1>1, <1>2 DEF b_roundish
<1>4. round_half_even(f) \in Bigs /\ IsNearest(IntOf(round_half_even(f)), f)
  BY <1>1, RoundHalfNearest
<1>5. fit_int(round_half_even(f)) = IF fit(IntOf(round_half_even(f))) THEN Int_(IntOf(round_half_even(f)))
                                    ELSE Fault("OVERFLOW")
  BY <1>4, FitIntIs, ValueAssumption
<1>6. fit_int(round_half_even(f)) = Int_(IntOf(round_half_even(f)))
  BY <1>3, <1>5 DEF Faulted, Fault
<1>. QED
  BY <1>1, <1>3, <1>4, <1>6 DEF Int_

-----------------------------------------------------------------------------
\* A division that is not exact gives the nearest float, ties to even, or
\* OVERFLOW past the floats; a big becomes the float that an int of its value
\* becomes; rd gives the nearest integer, ties to even (bigint.rs true_div_f64,
\* f64_from_scaled; lib.rs op_div, to_float, round_half_even), for a machine of
\* any precision and exponents, any limb and any word of ints.
THEOREM NearestFloatTheorem == Spec => []NearestFloat
<1>1. TypeOK => NearestFloat
  <2> SUFFICES ASSUME stack \in Seq(Values) PROVE NearestFloat
    BY DEF TypeOK
  <2>1. ASSUME Len(stack) = 2, IsExactInt(stack[1]), IsExactInt(stack[2]),
               Value(stack[2]) # 0, ~Subnormal(Quotient(Value(stack[1]), Value(stack[2])))
        PROVE  DivRounds(stack[1], stack[2])
    <3>1. PICK a \in Values, b \in Values : a = stack[1] /\ b = stack[2]
      BY <2>1, Operands
    <3>2. ExactInt(a) /\ ExactInt(b)
      BY <2>1, <3>1, ExactOperand
    <3>. QED
      BY <2>1, <3>1, <3>2, DivRoundsIs
  <2>2. ASSUME NEW v \in Range(stack), is_big(v)
        PROVE  LET f == IntToFloat(Value(v))
               IN  to_float(v) = IF IsInf(f) THEN Fault("OVERFLOW") ELSE Float(f)
    BY <2>2, Operands, BigToFloat
  <2>3. ASSUME NEW v \in Range(stack), is_float(v), v[2].kind = "finite", ~Faulted(b_roundish("rd", v))
        PROVE  IsNearest(b_roundish("rd", v)[2], v[2])
    BY <2>3, Operands, RdNearest
  <2>. QED
    BY <2>1, <2>2, <2>3 DEF NearestFloat
<1>. QED
  BY <1>1, TypeCorrect, PTL
=============================================================================
