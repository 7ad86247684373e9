--------------------------- MODULE BigIntProofs ----------------------------
(***************************************************************************)
(* What the arithmetic of BigInt computes, for limbs of every width: from  *)
(* the bottom up loops and powers; limbs and the number they are;          *)
(* comparison, sums, products, shifts, long division and powers; then the  *)
(* root, the significand that a number has and how it is rounded.          *)
(*                                                                         *)
(* Carries, borrows, rows and quotients are recursive functions; what they *)
(* compute follows by induction on lengths, stated with a set for the      *)
(* predicate.                                                              *)
(***************************************************************************)
EXTENDS BigInt, SequenceTheorems, FiniteSetTheorems, WellFoundedInduction, TLAPS

-----------------------------------------------------------------------------
(* Induction, with a set for the predicate.                                *)
LEMMA LeastElement ==
  ASSUME NEW T \in SUBSET Nat, T # {}
  PROVE  \E x \in T : \A y \in T : ~(y < x)
<1>1. IsWellFoundedOn(OpToRel(<, Nat), Nat)
  BY NatLessThanWellFounded
<1>2. PICK x \in T : \A y \in T : ~(<<y, x>> \in OpToRel(<, Nat))
  BY <1>1, WFMin
<1>3. OpToRel(<, Nat) = {z \in Nat \X Nat : z[1] < z[2]}
  BY DEF OpToRel
<1>. QED
  BY <1>2, <1>3

LEMMA Induction ==
  ASSUME NEW P, 0 \in P, \A n \in Nat : n \in P => n + 1 \in P
  PROVE  Nat \subseteq P
<1> SUFFICES ASSUME Nat \ P # {} PROVE FALSE
  OBVIOUS
<1>1. PICK x \in Nat \ P : \A y \in Nat \ P : ~(y < x)
  BY LeastElement
<1>2. x # 0 /\ x \in Nat /\ x - 1 \in Nat /\ x - 1 < x /\ (x - 1) + 1 = x
  BY <1>1
<1>3. x - 1 \in P
  BY <1>1, <1>2
<1>. QED
  BY <1>1, <1>2, <1>3

(* Induction up to a bound.                                                *)
LEMMA UpInduction ==
  ASSUME NEW n \in Nat, NEW P, 0 \in P, \A k \in 1..n : k - 1 \in P => k \in P
  PROVE  0..n \subseteq P
<1> DEFINE Q == {k \in Nat : k <= n => k \in P}
<1>1. 0 \in Q
  OBVIOUS
<1>2. ASSUME NEW k \in Nat, k \in Q PROVE k + 1 \in Q
  <2> SUFFICES ASSUME k + 1 <= n PROVE k + 1 \in P
    OBVIOUS
  <2>1. k \in P /\ k + 1 \in 1..n /\ (k + 1) - 1 = k
    BY <1>2
  <2>. QED
    BY <2>1
<1>3. Nat \subseteq Q
  <2>. HIDE DEF Q
  <2>. QED
    BY <1>1, <1>2, Induction
<1>. QED
  BY <1>3

(* Loops: functions whose value at k is computed from the one at k - 1.    *)
Loops(f, V, v, E, n) ==
  f \in [0..n -> V] /\ f[0] = v /\ \A i \in 1..n : f[i] = E[<<i, f[i - 1]>>]

LEMMA LoopExists ==
  ASSUME NEW V, NEW v \in V, NEW n \in Nat, NEW E \in [(1..n) \X V -> V]
  PROVE  \E f : Loops(f, V, v, E, n)
<1> DEFINE P == {m \in Nat : m <= n => \E f : Loops(f, V, v, E, m)}
<1>1. 0 \in P
  <2> DEFINE f == [i \in 0..0 |-> v]
  <2>1. Loops(f, V, v, E, 0)
    BY DEF Loops
  <2>. QED
    BY <2>1
<1>2. ASSUME NEW m \in Nat, m \in P PROVE m + 1 \in P
  <2> SUFFICES ASSUME m + 1 <= n PROVE \E f : Loops(f, V, v, E, m + 1)
    OBVIOUS
  <2>1. PICK f : Loops(f, V, v, E, m)
    BY <1>2
  <2>2. f \in [0..m -> V] /\ f[0] = v /\ \A i \in 1..m : f[i] = E[<<i, f[i - 1]>>]
    BY <2>1 DEF Loops
  <2>3. m \in 0..m /\ m + 1 \in 1..n
    OBVIOUS
  <2>4. PICK w \in V : w = E[<<m + 1, f[m]>>]
    BY <2>2, <2>3
  <2> DEFINE g == [i \in 0..m + 1 |-> IF i = m + 1 THEN w ELSE f[i]]
  <2>5. \A i \in 0..m : g[i] = f[i]
    OBVIOUS
  <2>6. g \in [0..m + 1 -> V] /\ g[m + 1] = w
    BY <2>2
  <2>. HIDE DEF g
  <2>7. ASSUME NEW i \in 1..m + 1 PROVE g[i] = E[<<i, g[i - 1]>>]
    <3>1. i - 1 \in 0..m /\ g[i - 1] = f[i - 1]
      BY <2>5
    <3>2. CASE i = m + 1
      <4>1. i - 1 = m
        BY <3>2
      <4>. QED
        BY <2>4, <2>6, <3>1, <3>2, <4>1
    <3>3. CASE i # m + 1
      <4>1. i \in 1..m /\ i \in 0..m
        BY <3>3
      <4>. QED
        BY <2>2, <2>5, <3>1, <4>1
    <3>. QED
      BY <3>2, <3>3
  <2>8. g[0] = v
    BY <2>2, <2>5
  <2>9. Loops(g, V, v, E, m + 1)
    BY <2>6, <2>7, <2>8 DEF Loops
  <2>. QED
    BY <2>9
<1>. HIDE DEF P
<1>3. n \in P
  BY <1>1, <1>2, Induction
<1>. QED
  BY <1>3 DEF P

(* Whatever steps as the loop does from a value of its own is the loop.    *)
LEMMA LoopTyped ==
  ASSUME NEW V, NEW v \in V, NEW n \in Nat, NEW g, g[0] = v,
         \A k \in 1..n : g[k - 1] \in V => g[k] \in V
  PROVE  \A k \in 0..n : g[k] \in V
<1> DEFINE P == {k \in 0..n : g[k] \in V}
<1>1. 0 \in P
  OBVIOUS
<1>2. ASSUME NEW k \in 1..n, k - 1 \in P PROVE k \in P
  BY <1>2
<1>3. 0..n \subseteq P
  <2>. HIDE DEF P
  <2>. QED
    BY <1>1, <1>2, UpInduction
<1>. QED
  BY <1>3

-----------------------------------------------------------------------------
(* Powers.                                                                 *)
PowerAt(u, b, i) == IF i = 0 THEN 1 ELSE b * u[i - 1]

LEMMA PowerLoop ==
  ASSUME NEW b \in Int, NEW n \in Nat
  PROVE  \E p \in [0..n -> Int] : /\ p[0] = 1 /\ Power(b, n) = p[n]
                                  /\ \A i \in 1..n : p[i] = b * p[i - 1]
<1> DEFINE E == [z \in (1..n) \X Int |-> b * z[2]]
           Fits(u) == u = [i \in 0..n |-> PowerAt(u, b, i)]
           chosen == CHOOSE u : Fits(u)
<1>0. 1 \in Int
  OBVIOUS
<1>1. E \in [(1..n) \X Int -> Int] /\ \A i \in 1..n, k \in Int : E[<<i, k>>] = b * k
  OBVIOUS
<1>2. \E u : Fits(u)
  <2>. HIDE DEF E
  <2>1. PICK f : Loops(f, Int, 1, E, n)
    BY <1>0, <1>1, LoopExists
  <2>2. f \in [0..n -> Int] /\ f[0] = 1 /\ \A i \in 1..n : f[i] = E[<<i, f[i - 1]>>]
    BY <2>1 DEF Loops
  <2>3. \A i \in 1..n : f[i] = b * f[i - 1]
    <3>1. \A i \in 1..n : i - 1 \in 0..n
      OBVIOUS
    <3>. QED
      BY <1>1, <2>2, <3>1
  <2>4. \A i \in 0..n : f[i] = PowerAt(f, b, i)
    BY <2>2, <2>3 DEF PowerAt
  <2>. QED
    BY <2>2, <2>4
<1>3. Fits(chosen)
  BY <1>2
<1>4. Power(b, n) = chosen[n]
  BY DEF Power, PowerAt
<1>. HIDE DEF chosen
<1>5. chosen[0] = 1 /\ \A i \in 1..n : chosen[i] = b * chosen[i - 1]
  BY <1>3 DEF PowerAt
<1>6. \A i \in 1..n : chosen[i - 1] \in Int => chosen[i] \in Int
  BY <1>5
<1>7. \A i \in 0..n : chosen[i] \in Int
  BY <1>0, <1>5, <1>6, LoopTyped
<1>8. chosen \in [0..n -> Int]
  BY <1>3, <1>7
<1>. QED
  BY <1>4, <1>5, <1>8

LEMMA PowerZero == \A b \in Int : Power(b, 0) = 1
  BY PowerLoop

LEMMA PowerNext ==
  ASSUME NEW b \in Int, NEW n \in Nat
  PROVE  Power(b, n) \in Int /\ Power(b, n + 1) = b * Power(b, n)
<1>1. PICK p \in [0..n -> Int] : /\ p[0] = 1 /\ Power(b, n) = p[n]
                                 /\ \A i \in 1..n : p[i] = b * p[i - 1]
  BY PowerLoop
<1>2. n + 1 \in Nat
  OBVIOUS
<1>3. PICK q \in [0..n + 1 -> Int] : /\ q[0] = 1 /\ Power(b, n + 1) = q[n + 1]
                                     /\ \A i \in 1..n + 1 : q[i] = b * q[i - 1]
  BY <1>2, PowerLoop
<1> DEFINE P == {i \in 0..n : q[i] = p[i]}
<1>4. 0 \in P
  BY <1>1, <1>3
<1>5. ASSUME NEW i \in 1..n, i - 1 \in P PROVE i \in P
  <2>1. i \in 1..n + 1 /\ q[i - 1] = p[i - 1]
    BY <1>5
  <2>. QED
    BY <1>1, <1>3, <2>1
<1>6. n \in P
  <2>. HIDE DEF P
  <2>1. 0..n \subseteq P
    BY <1>4, <1>5, UpInduction
  <2>. QED
    BY <2>1
<1>7. q[n] = p[n] /\ n + 1 \in 1..n + 1 /\ (n + 1) - 1 = n
  BY <1>6
<1>. QED
  BY <1>1, <1>3, <1>7

LEMMA PowerNat ==
  ASSUME NEW b \in Nat \ {0}, NEW n \in Nat
  PROVE  Power(b, n) \in Nat \ {0}
<1> DEFINE P == {k \in Nat : Power(b, k) \in Nat \ {0}}
<1>1. 0 \in P
  BY PowerZero
<1>2. ASSUME NEW k \in Nat, k \in P PROVE k + 1 \in P
  <2>1. PICK p \in Nat \ {0} : p = Power(b, k)
    BY <1>2
  <2>2. Power(b, k + 1) = b * p
    BY <2>1, PowerNext
  <2>3. b * p \in Nat \ {0}
    OBVIOUS
  <2>. QED
    BY <2>2, <2>3
<1>. HIDE DEF P
<1>3. n \in P
  BY <1>1, <1>2, Induction
<1>. QED
  BY <1>3 DEF P

LEMMA PowerAdd ==
  ASSUME NEW b \in Int, NEW m \in Nat, NEW n \in Nat
  PROVE  Power(b, m + n) = Power(b, m) * Power(b, n)
<1> DEFINE P == {k \in Nat : Power(b, m + k) = Power(b, m) * Power(b, k)}
<1>0. Power(b, m) \in Int
  BY PowerNext
<1>1. 0 \in P
  BY <1>0, PowerZero
<1>2. ASSUME NEW k \in Nat, k \in P PROVE k + 1 \in P
  <2>1. PICK p, q \in Int : p = Power(b, m) /\ q = Power(b, k)
    BY PowerNext
  <2>2. Power(b, k + 1) = b * q
    BY <2>1, PowerNext
  <2>3. m + k \in Nat /\ (m + k) + 1 = m + (k + 1)
    OBVIOUS
  <2>4. Power(b, m + (k + 1)) = b * (p * q)
    BY <1>2, <2>1, <2>3, PowerNext
  <2>5. b * (p * q) = p * (b * q)
    OBVIOUS
  <2>. QED
    BY <2>1, <2>2, <2>4, <2>5
<1>. HIDE DEF P
<1>3. n \in P
  BY <1>1, <1>2, Induction
<1>. QED
  BY <1>3 DEF P

LEMMA PowerOne == \A b \in Int : Power(b, 1) = b
<1> SUFFICES ASSUME NEW b \in Int PROVE Power(b, 1) = b
  OBVIOUS
<1>1. 0 \in Nat /\ 0 + 1 = 1 /\ b * 1 = b
  OBVIOUS
<1>. QED
  BY <1>1, PowerZero, PowerNext

LEMMA PowerOfPower ==
  ASSUME NEW b \in Int, NEW m \in Nat, NEW n \in Nat
  PROVE  Power(Power(b, m), n) = Power(b, m * n)
<1> DEFINE c == Power(b, m)
           P == {k \in Nat : Power(c, k) = Power(b, m * k)}
<1>0. c \in Int
  BY PowerNext
<1>1. 0 \in P
  <2>1. m * 0 = 0
    OBVIOUS
  <2>. QED
    BY <1>0, <2>1, PowerZero
<1>2. ASSUME NEW k \in Nat, k \in P PROVE k + 1 \in P
  <2>1. m * k \in Nat /\ m * (k + 1) = m + m * k
    OBVIOUS
  <2>2. Power(c, k + 1) = c * Power(c, k)
    BY <1>0, PowerNext
  <2>3. Power(b, m + m * k) = c * Power(b, m * k)
    BY <2>1, PowerAdd
  <2>. QED
    BY <1>2, <2>1, <2>2, <2>3
<1>. HIDE DEF P
<1>3. n \in P
  BY <1>1, <1>2, Induction
<1>. QED
  BY <1>3 DEF P

(* A power of a number above 1 grows, and is above its exponent.           *)
LEMMA PowerGrows ==
  ASSUME NEW b \in Nat, b > 1, NEW m \in Nat, NEW n \in Nat, m < n
  PROVE  b * Power(b, m) <= Power(b, n) /\ Power(b, m) < Power(b, n) /\ m < Power(b, m)
<1>1. PICK k \in Nat : n = (m + 1) + k
  <2>1. n - (m + 1) \in Nat /\ n = (m + 1) + (n - (m + 1))
    OBVIOUS
  <2>. QED
    BY <2>1
<1>2. PICK p \in Nat \ {0} : p = Power(b, m)
  BY PowerNat
<1>3. PICK q \in Nat \ {0} : q = Power(b, k)
  BY PowerNat
<1>4. Power(b, m + 1) = b * p /\ m + 1 \in Nat
  BY <1>2, PowerNext
<1>5. Power(b, n) = (b * p) * q
  BY <1>1, <1>3, <1>4, PowerAdd
<1>6. b * p \in Nat /\ b * p > p /\ (b * p) * q >= b * p
  <2>1. b * p = p + (b - 1) * p /\ (b - 1) * p \in Nat \ {0}
    OBVIOUS
  <2>2. PICK c \in Nat : c = b * p
    OBVIOUS
  <2>3. c * q = c + c * (q - 1) /\ c * (q - 1) \in Nat
    OBVIOUS
  <2>. QED
    BY <2>1, <2>2, <2>3
<1>7. m < p
  <2> DEFINE P == {i \in Nat : i < Power(b, i)}
  <2>1. 0 \in P
    BY PowerZero
  <2>2. ASSUME NEW i \in Nat, i \in P PROVE i + 1 \in P
    <3>1. PICK r \in Nat \ {0} : r = Power(b, i)
      BY PowerNat
    <3>2. Power(b, i + 1) = b * r /\ i < r
      BY <2>2, <3>1, PowerNext
    <3>3. b * r = r + (b - 1) * r /\ (b - 1) * r \in Nat \ {0}
      OBVIOUS
    <3>. QED
      BY <3>2, <3>3
  <2>. HIDE DEF P
  <2>3. m \in P
    BY <2>1, <2>2, Induction
  <2>. QED
    BY <1>2, <2>3 DEF P
<1>. QED
  BY <1>2, <1>5, <1>6, <1>7

-----------------------------------------------------------------------------
(* Division.                                                               *)
LEMMA DivMod ==
  ASSUME NEW a \in Int, NEW b \in Nat \ {0}
  PROVE  a \div b \in Int /\ a % b \in 0..b - 1 /\ a = b * (a \div b) + (a % b)
<1>1. a \div b \in Int
  OBVIOUS
<1>2. a % b \in 0..b - 1
  OBVIOUS
<1>3. PICK q \in Int : q = a \div b
  BY <1>1
<1>4. PICK r \in Int : r = a % b
  BY <1>2
<1>5. b \in Int /\ b > 0 /\ a \in Int
  OBVIOUS
<1>6. r = a - b * q
  BY <1>3, <1>4, <1>5
<1>7. b * q \in Int
  OBVIOUS
<1>8. a = b * q + r
  BY <1>5, <1>6, <1>7
<1>. QED
  BY <1>1, <1>2, <1>3, <1>4, <1>8

LEMMA Less ==
  ASSUME NEW b \in Nat \ {0}, NEW p \in Int, NEW q \in Int
  PROVE  (b * p < b * q => p < q) /\ (p < q => b * p + b <= b * q) /\ (p <= q => b * p <= b * q)
<1>1. ASSUME NEW u \in Int, NEW w \in Int, u <= w PROVE b * u <= b * w
  <2>1. w - u \in Nat /\ b * (w - u) \in Nat /\ b * w = b * u + b * (w - u)
    BY <1>1
  <2>2. b * u \in Int /\ b * w \in Int
    OBVIOUS
  <2>. QED
    BY <2>1, <2>2
<1>2. b * p \in Int /\ b * q \in Int /\ p + 1 \in Int /\ b * (p + 1) = b * p + b
  OBVIOUS
<1>3. p <= q => b * p <= b * q
  BY <1>1
<1>4. p < q => b * p + b <= b * q
  <2>1. p < q => p + 1 <= q
    OBVIOUS
  <2>. QED
    BY <1>1, <1>2, <2>1
<1>5. b * p < b * q => p < q
  <2>1. q <= p => b * q <= b * p
    BY <1>1
  <2>. QED
    BY <1>2, <2>1
<1>. QED
  BY <1>3, <1>4, <1>5

(* The quotient and the remainder are the only ones.                       *)
LEMMA DivIs ==
  ASSUME NEW a \in Int, NEW b \in Nat \ {0}, NEW q \in Int, NEW r \in 0..b - 1, a = b * q + r
  PROVE  a \div b = q /\ a % b = r
<1>1. PICK u \in Int : u = a \div b
  BY DivMod
<1>2. PICK s \in 0..b - 1 : s = a % b
  BY DivMod
<1>3. a = b * u + s
  BY <1>1, <1>2, DivMod
<1>4. b * u \in Int /\ b * q \in Int
  OBVIOUS
<1>5. ~(u < q)
  <2>1. SUFFICES ASSUME u < q PROVE FALSE
    OBVIOUS
  <2>2. b * u + b <= b * q
    BY <2>1, Less
  <2>. QED
    BY <1>3, <1>4, <2>2
<1>6. ~(q < u)
  <2>1. SUFFICES ASSUME q < u PROVE FALSE
    OBVIOUS
  <2>2. b * q + b <= b * u
    BY <2>1, Less
  <2>. QED
    BY <1>3, <1>4, <2>2
<1>7. u = q
  BY <1>5, <1>6
<1>. QED
  BY <1>1, <1>2, <1>3, <1>4, <1>7

-----------------------------------------------------------------------------
(* Limbs and the number they are.                                          *)
LEMMA BaseIs == Base \in Nat /\ Base > 1
<1>1. 0 \in Nat /\ 2 \in Nat /\ LimbBits \in Nat /\ 0 < LimbBits /\ Power(2, 0) = 1
  BY WidthAssumption, PowerZero
<1>2. Power(2, LimbBits) \in Nat \ {0}
  BY <1>1, PowerNat
<1>. QED
  BY <1>1, <1>2, PowerGrows DEF Base

Weight(k) == Power(Base, k)

LEMMA WeightIs ==
  /\ Weight(0) = 1 /\ Weight(1) = Base
  /\ \A k \in Nat : Weight(k) \in Nat \ {0} /\ Weight(k + 1) = Base * Weight(k)
  BY BaseIs, PowerZero, PowerOne, PowerNat, PowerNext DEF Weight

LEMMA WeightNat == \A k \in Nat : Weight(k) \in Nat \ {0} /\ Weight(k) \in Nat /\ Weight(k) \in Int
  BY WeightIs

PartialAt(u, d, k) == IF k = 0 THEN 0 ELSE u[k - 1] + d[k] * Power(Base, k - 1)

LEMMA PartialsAre ==
  ASSUME NEW d \in Seq(Int)
  PROVE  /\ Partials(d) \in [0..Len(d) -> Int] /\ Partials(d)[0] = 0
         /\ \A k \in 1..Len(d) : Partials(d)[k] = Partials(d)[k - 1] + d[k] * Weight(k - 1)
<1> DEFINE n == Len(d)
           E == [z \in (1..n) \X Int |-> z[2] + d[z[1]] * Weight(z[1] - 1)]
           Fits(u) == u = [k \in 0..n |-> PartialAt(u, d, k)]
           chosen == CHOOSE u : Fits(u)
<1>0. n \in Nat /\ 0 \in Int /\ \A k \in 1..n : k - 1 \in 0..n /\ d[k] * Weight(k - 1) \in Int
  <2>1. n \in Nat /\ 0 \in Int /\ \A k \in 1..n : k - 1 \in 0..n /\ k - 1 \in Nat /\ d[k] \in Int
    OBVIOUS
  <2>2. \A k \in 1..n : Weight(k - 1) \in Int
    BY <2>1, WeightIs
  <2>. QED
    BY <2>1, <2>2
<1>1. E \in [(1..n) \X Int -> Int] /\ \A k \in 1..n, i \in Int : E[<<k, i>>] = i + d[k] * Weight(k - 1)
  <2>1. \A z \in (1..n) \X Int : z[1] \in 1..n /\ z[2] \in Int /\ z = <<z[1], z[2]>>
    OBVIOUS
  <2>2. \A z \in (1..n) \X Int : z[2] + d[z[1]] * Weight(z[1] - 1) \in Int
    BY <1>0, <2>1
  <2>3. \A k \in 1..n, i \in Int : <<k, i>> \in (1..n) \X Int /\ <<k, i>>[1] = k /\ <<k, i>>[2] = i
    OBVIOUS
  <2>. HIDE DEF n
  <2>4. E \in [(1..n) \X Int -> Int]
    BY <2>2
  <2>5. \A k \in 1..n, i \in Int : E[<<k, i>>] = i + d[k] * Weight(k - 1)
    BY <2>3
  <2>. QED
    BY <2>4, <2>5
<1>2. \E u : Fits(u)
  <2>. HIDE DEF E
  <2>1. PICK f : Loops(f, Int, 0, E, n)
    BY <1>0, <1>1, LoopExists
  <2>2. f \in [0..n -> Int] /\ f[0] = 0 /\ \A k \in 1..n : f[k] = E[<<k, f[k - 1]>>]
    BY <2>1 DEF Loops
  <2>3. \A k \in 1..n : f[k] = f[k - 1] + d[k] * Weight(k - 1)
    BY <1>0, <1>1, <2>2
  <2>4. \A k \in 0..n : f[k] = PartialAt(f, d, k)
    BY <2>2, <2>3 DEF PartialAt, Weight
  <2>. QED
    BY <2>2, <2>4
<1>3. Fits(chosen)
  BY <1>2
<1>4. Partials(d) = chosen
  BY DEF Partials, PartialAt
<1>. HIDE DEF chosen
<1>5. chosen[0] = 0 /\ \A k \in 1..n : chosen[k] = chosen[k - 1] + d[k] * Weight(k - 1)
  <2>1. \A k \in 0..n : chosen[k] = PartialAt(chosen, d, k)
    BY <1>3
  <2>2. 0 \in 0..n /\ \A k \in 1..n : k \in 0..n /\ k # 0
    BY <1>0
  <2>3. chosen[0] = 0
    BY <2>1, <2>2 DEF PartialAt
  <2>4. \A k \in 1..n : PartialAt(chosen, d, k) = chosen[k - 1] + d[k] * Weight(k - 1)
    BY <2>2, Zenon DEF PartialAt, Weight
  <2>. HIDE DEF n
  <2>5. \A k \in 1..n : chosen[k] = PartialAt(chosen, d, k)
    BY <2>1, <2>2
  <2>. QED
    BY <2>3, <2>4, <2>5
<1>6. \A k \in 1..n : chosen[k - 1] \in Int => chosen[k] \in Int
  BY <1>0, <1>5
<1>7. \A k \in 0..n : chosen[k] \in Int
  BY <1>0, <1>5, <1>6, LoopTyped
<1>8. chosen \in [0..n -> Int]
  BY <1>3, <1>7
<1>. QED
  BY <1>4, <1>5, <1>8

LEMMA MagIs == \A d \in Seq(Int) : Mag(d) \in Int /\ Mag(d) = Partials(d)[Len(d)]
  BY PartialsAre DEF Mag

(* Sequences that agree up to a limb have the same partial sum there.      *)
LEMMA PartialsAgree ==
  ASSUME NEW d \in Seq(Int), NEW e \in Seq(Int), NEW n \in Nat, n <= Len(d), n <= Len(e),
         \A k \in 1..n : d[k] = e[k]
  PROVE  Partials(d)[n] = Partials(e)[n]
<1>1. /\ Partials(d)[0] = 0 /\ Partials(e)[0] = 0
      /\ \A k \in 1..Len(d) : Partials(d)[k] = Partials(d)[k - 1] + d[k] * Weight(k - 1)
      /\ \A k \in 1..Len(e) : Partials(e)[k] = Partials(e)[k - 1] + e[k] * Weight(k - 1)
  BY PartialsAre
<1> DEFINE P == {k \in 0..n : Partials(d)[k] = Partials(e)[k]}
<1>2. 0 \in P
  BY <1>1
<1>3. ASSUME NEW k \in 1..n, k - 1 \in P PROVE k \in P
  <2>1. k \in 1..Len(d) /\ k \in 1..Len(e) /\ k \in 0..n
    OBVIOUS
  <2>. QED
    BY <1>1, <1>3, <2>1
<1>4. 0..n \subseteq P
  <2>. HIDE DEF P
  <2>. QED
    BY <1>2, <1>3, UpInduction
<1>. QED
  BY <1>4

LEMMA MagAppend ==
  ASSUME NEW d \in Seq(Int), NEW c \in Int
  PROVE  Mag(Append(d, c)) = Mag(d) + c * Weight(Len(d))
<1> DEFINE e == Append(d, c)
           n == Len(d)
<1>1. e \in Seq(Int) /\ Len(e) = n + 1 /\ n \in Nat /\ e[n + 1] = c /\ \A k \in 1..n : d[k] = e[k]
  OBVIOUS
<1>. HIDE DEF e
<1>2. Partials(d)[n] = Partials(e)[n]
  <2>1. n <= Len(d) /\ n <= Len(e)
    BY <1>1
  <2>. QED
    BY <1>1, <2>1, PartialsAgree
<1>3. Partials(e)[n + 1] = Partials(e)[n] + c * Weight(n)
  <2>1. n + 1 \in 1..Len(e) /\ (n + 1) - 1 = n
    BY <1>1
  <2>. QED
    BY <1>1, <2>1, PartialsAre
<1>. QED
  BY <1>1, <1>2, <1>3, MagIs DEF e

(* Limbs are below the weight of the next one.                             *)
LEMMA LimbsAre ==
  ASSUME NEW d \in Seq(Limb)
  PROVE  /\ d \in Seq(Int) /\ Len(d) \in Nat /\ DOMAIN d = 1..Len(d)
         /\ \A k \in 1..Len(d) : d[k] \in Limb /\ d[k] \in Nat
<1>1. d \in Seq(Int) /\ Len(d) \in Nat
  BY BaseIs DEF Limb
<1>2. Limb \subseteq Nat
  BY BaseIs DEF Limb
<1>3. \A k \in 1..Len(d) : d[k] \in Limb
  OBVIOUS
<1>. QED
  BY <1>1, <1>2, <1>3

LEMMA PartialsBelow ==
  ASSUME NEW d \in Seq(Limb), NEW k \in 0..Len(d)
  PROVE  Partials(d)[k] \in 0..Weight(k) - 1
<1>0. d \in Seq(Int) /\ Base \in Nat /\ Base > 1
  BY BaseIs DEF Limb
<1>1. /\ Partials(d) \in [0..Len(d) -> Int] /\ Partials(d)[0] = 0
      /\ \A i \in 1..Len(d) : Partials(d)[i] = Partials(d)[i - 1] + d[i] * Weight(i - 1)
  BY <1>0, PartialsAre
<1> DEFINE P == {i \in 0..Len(d) : Partials(d)[i] \in 0..Weight(i) - 1}
<1>2. 0 \in P
  <2>1. Len(d) \in Nat /\ 0 \in 0..Weight(0) - 1
    BY LimbsAre, WeightIs
  <2>. QED
    BY <1>1, <2>1
<1>3. ASSUME NEW i \in 1..Len(d), i - 1 \in P PROVE i \in P
  <2>1. PICK w \in Nat \ {0} : w = Weight(i - 1) /\ Weight(i) = Base * w
    <3>1. i - 1 \in Nat /\ (i - 1) + 1 = i
      OBVIOUS
    <3>. QED
      BY <3>1, WeightIs
  <2>2. PICK u \in 0..w - 1 : u = Partials(d)[i - 1]
    BY <1>3, <2>1
  <2>3. PICK l \in 0..Base - 1 : l = d[i]
    BY LimbsAre DEF Limb
  <2>4. Partials(d)[i] = u + l * w
    BY <1>1, <2>1, <2>2, <2>3
  <2>5. l * w \in Nat /\ l * w + w <= Base * w
    <3>1. w * l + w <= w * Base
      <4>1. l \in Int /\ Base \in Int /\ l < Base
        BY <1>0
      <4>. QED
        BY <4>1, Less
    <3>2. w * l = l * w /\ w * Base = Base * w /\ l * w \in Nat
      BY <1>0
    <3>. QED
      BY <3>1, <3>2
  <2>6. u + l * w \in 0..Base * w - 1
    <3>1. PICK p \in Nat : p = l * w
      BY <2>5
    <3>2. PICK q \in Nat : q = Base * w
      BY <1>0
    <3>. QED
      BY <2>5, <3>1, <3>2
  <2>. QED
    BY <2>1, <2>4, <2>6
<1>4. 0..Len(d) \subseteq P
  <2>1. Len(d) \in Nat
    BY <1>0
  <2>. HIDE DEF P
  <2>. QED
    BY <1>2, <1>3, <2>1, UpInduction
<1>. QED
  BY <1>4

LEMMA MagBelow ==
  ASSUME NEW d \in Seq(Limb)
  PROVE  Mag(d) \in Nat /\ Mag(d) < Weight(Len(d)) /\ d \in Seq(Int)
<1>1. d \in Seq(Int) /\ Len(d) \in 0..Len(d)
  BY BaseIs DEF Limb
<1>2. Mag(d) \in 0..Weight(Len(d)) - 1
  BY <1>1, MagIs, PartialsBelow
<1>3. Weight(Len(d)) \in Nat
  BY <1>1, WeightIs
<1>. QED
  BY <1>1, <1>2, <1>3

(* Partial sums of limbs do not decrease.                                  *)
LEMMA PartialsGrow ==
  ASSUME NEW d \in Seq(Limb), NEW k \in 0..Len(d), NEW i \in k..Len(d)
  PROVE  Partials(d)[k] <= Partials(d)[i]
<1>0. d \in Seq(Int) /\ Len(d) \in Nat
  BY MagBelow
<1>1. /\ Partials(d) \in [0..Len(d) -> Int]
      /\ \A j \in 1..Len(d) : Partials(d)[j] = Partials(d)[j - 1] + d[j] * Weight(j - 1)
  BY <1>0, PartialsAre
<1> DEFINE P == {j \in 0..Len(d) - k : Partials(d)[k] <= Partials(d)[k + j]}
<1>2. 0 \in P
  <2>1. k + 0 = k /\ k \in 0..Len(d) /\ 0 \in 0..Len(d) - k
    BY <1>0
  <2>2. PICK p \in Int : p = Partials(d)[k]
    BY <1>1, <2>1
  <2>3. Partials(d)[k] <= Partials(d)[k + 0]
    BY <2>1, <2>2
  <2>. QED
    BY <2>1, <2>3, Zenon
<1>3. ASSUME NEW j \in 1..Len(d) - k, j - 1 \in P PROVE j \in P
  <2>1. k + j \in 1..Len(d) /\ (k + j) - 1 = k + (j - 1) /\ (k + j) - 1 \in Nat /\ (k + j) - 1 \in 0..Len(d)
        /\ k \in 0..Len(d) /\ k + j \in 0..Len(d)
    BY <1>0
  <2>2. PICK w \in Nat : w = Weight((k + j) - 1)
    BY <2>1, WeightNat
  <2>3. PICK l \in Nat : l = d[k + j]
    BY <2>1, LimbsAre
  <2>4. Partials(d)[k + j] = Partials(d)[k + (j - 1)] + l * w /\ l * w \in Nat
    BY <1>1, <2>1, <2>2, <2>3
  <2>5. Partials(d)[k] <= Partials(d)[k + (j - 1)]
    BY <1>3
  <2>6. Partials(d)[k] \in Int /\ Partials(d)[k + (j - 1)] \in Int
    BY <1>1, <2>1
  <2>. QED
    BY <2>1, <2>4, <2>5, <2>6
<1>4. i - k \in P
  <2>1. Len(d) - k \in Nat /\ i - k \in 0..Len(d) - k
    BY <1>0
  <2>. HIDE DEF P
  <2>. QED
    BY <1>2, <1>3, <2>1, UpInduction
<1>5. k + (i - k) = i
  BY <1>0
<1>. QED
  BY <1>4, <1>5

-----------------------------------------------------------------------------
(* Bits.                                                                   *)
LEMMA Greatest ==
  ASSUME NEW n \in Nat, NEW S \in SUBSET (0..n), S # {}
  PROVE  \E m \in S : \A j \in S : j <= m
<1> DEFINE T == {i \in Nat : i <= n /\ n - i \in S}
<1>1. T \in SUBSET Nat /\ T # {}
  <2>1. PICK m \in S : TRUE
    OBVIOUS
  <2>2. m \in 0..n /\ n - m \in Nat /\ n - m <= n /\ n - (n - m) = m
    OBVIOUS
  <2>. QED
    BY <2>1, <2>2
<1>2. PICK i \in T : \A k \in T : ~(k < i)
  <2>. HIDE DEF T
  <2>. QED
    BY <1>1, LeastElement
<1>3. i \in Nat /\ i <= n /\ n - i \in S
  BY <1>2
<1>4. ASSUME NEW j \in S PROVE j <= n - i
  <2>1. j \in 0..n /\ n - j \in Nat /\ n - j <= n /\ n - (n - j) = j
    OBVIOUS
  <2>2. n - j \in T
    BY <2>1
  <2>3. ~(n - j < i)
    BY <1>2, <2>2
  <2>. QED
    BY <1>3, <2>1, <2>3
<1>. QED
  BY <1>3, <1>4

LEMMA TopIs ==
  ASSUME NEW n \in Nat, NEW S \in SUBSET (0..n), S # {}
  PROVE  Top(S) \in S /\ \A j \in S : j <= Top(S)
  BY Greatest DEF Top

LEMMA BitLenIs ==
  ASSUME NEW n \in Nat
  PROVE  /\ BitLen(n) \in 0..n /\ n < Power(2, BitLen(n))
         /\ \A j \in 0..BitLen(n) - 1 : Power(2, j) <= n
<1> DEFINE T == {k \in Nat : n < Power(2, k)}
           Fits(k) == n < Power(2, k) /\ \A j \in 0..k - 1 : Power(2, j) <= n
<1>1. n \in T
  <2>1. n + 1 \in Nat /\ n < n + 1 /\ 2 \in Nat /\ 2 > 1
    OBVIOUS
  <2>2. n < Power(2, n)
    BY <2>1, PowerGrows
  <2>. QED
    BY <2>2
<1>2. PICK k \in T : \A j \in T : ~(j < k)
  <2>1. T \in SUBSET Nat /\ T # {}
    BY <1>1
  <2>. HIDE DEF T
  <2>. QED
    BY <2>1, LeastElement
<1>3. k \in 0..n
  BY <1>1, <1>2
<1>4. ASSUME NEW j \in 0..k - 1 PROVE Power(2, j) <= n
  <2>1. j \in Nat /\ j < k
    BY <1>3
  <2>2. j \notin T
    BY <1>2, <2>1
  <2>3. Power(2, j) \in Int
    BY <2>1, PowerNext
  <2>. QED
    BY <2>1, <2>2, <2>3
<1>5. CASE n = 0
  <2>1. BitLen(n) = 0 /\ Power(2, 0) = 1
    BY <1>5, PowerZero DEF BitLen
  <2>. QED
    BY <1>5, <2>1
<1>6. CASE n # 0
  <2>1. k # 0
    <3>1. Power(2, 0) = 1
      BY PowerZero
    <3>. QED
      BY <1>2, <1>6, <3>1
  <2>2. k \in 1..n /\ k - 1 \in Nat /\ k - 1 \in 0..k - 1
    BY <1>3, <2>1
  <2>3. Power(2, k - 1) <= n /\ n < Power(2, k)
    BY <1>2, <1>4, <2>2
  <2>4. \A i \in 1..n : /\ Power(2, i - 1) \in Nat \ {0} /\ Power(2, i) = 2 * Power(2, i - 1)
    <3> SUFFICES ASSUME NEW i \in 1..n
                 PROVE  Power(2, i - 1) \in Nat \ {0} /\ Power(2, i) = 2 * Power(2, i - 1)
      OBVIOUS
    <3>1. i - 1 \in Nat /\ (i - 1) + 1 = i
      OBVIOUS
    <3>2. 2 \in Nat \ {0} /\ 2 \in Int
      OBVIOUS
    <3>3. Power(2, i - 1) \in Nat \ {0}
      BY <3>1, <3>2, PowerNat
    <3>4. Power(2, (i - 1) + 1) = 2 * Power(2, i - 1)
      BY <3>1, <3>2, PowerNext
    <3>. QED
      BY <3>1, <3>3, <3>4
  <2>5. n \div Power(2, k - 1) = 1
    <3>1. PICK b \in Nat \ {0} : b = Power(2, k - 1)
      BY <2>2, <2>4
    <3>2. b <= n /\ n < 2 * b
      BY <2>2, <2>3, <2>4, <3>1
    <3>3. n - b \in 0..b - 1 /\ n = b * 1 + (n - b)
      BY <3>2
    <3>4. n \div b = 1
      BY <3>3, DivIs
    <3>. QED
      BY <3>1, <3>4
  <2> DEFINE chosen == CHOOSE i \in 1..n : n \div Power(2, i - 1) = 1
  <2>6. chosen \in 1..n /\ n \div Power(2, chosen - 1) = 1
    BY <2>2, <2>5
  <2>7. BitLen(n) = chosen
    BY <1>6 DEF BitLen
  <2>. HIDE DEF chosen
  <2>8. PICK c \in 1..n : c = chosen
    BY <2>6
  <2>9. PICK b \in Nat \ {0} : b = Power(2, c - 1)
    BY <2>4
  <2>10. n \div b = 1
    BY <2>6, <2>8, <2>9
  <2>11. n = b * 1 + (n % b) /\ n % b \in 0..b - 1
    <3>1. n \in Int
      OBVIOUS
    <3>2. n \div b \in Int /\ n % b \in 0..b - 1 /\ n = b * (n \div b) + (n % b)
      BY <3>1, DivMod
    <3>. QED
      BY <2>10, <3>2
  <2>12. b <= n /\ n < 2 * b
    BY <2>11
  <2>13. n < Power(2, c)
    BY <2>4, <2>9, <2>12
  <2>14. ASSUME NEW j \in 0..c - 1 PROVE Power(2, j) <= n
    <3>1. j \in Nat /\ c - 1 \in Nat /\ j <= c - 1
      OBVIOUS
    <3>2. Power(2, j) \in Nat /\ Power(2, c - 1) \in Nat /\ 2 \in Nat \ {0} /\ 2 > 1
      BY <3>1, PowerNat
    <3>3. j < c - 1 => Power(2, j) < Power(2, c - 1)
      BY <3>1, <3>2, PowerGrows
    <3>4. Power(2, j) <= Power(2, c - 1)
      BY <3>1, <3>2, <3>3
    <3>. QED
      BY <2>9, <2>12, <3>2, <3>4
  <2>15. c \in 0..n
    OBVIOUS
  <2>. QED
    BY <2>7, <2>8, <2>13, <2>14, <2>15
<1>. QED
  BY <1>5, <1>6

(* The integers that bigs stand for.                                       *)

LEMMA BigIs ==
  ASSUME NEW x \in Bigs
  PROVE  /\ x.neg \in BOOLEAN /\ x.d \in Seq(Limb) /\ x.d \in Seq(Int) /\ x = Big(x.neg, x.d)
         /\ x.d # <<>> => Len(x.d) \in Nat \ {0} /\ x.d[Len(x.d)] \in 1..Base - 1
         /\ x.d = <<>> => ~x.neg
         /\ Len(x.d) \in Nat /\ Mag(x.d) \in Nat /\ Mag(x.d) < Weight(Len(x.d))
<1>1. x.neg \in BOOLEAN /\ x.d \in Seq(Limb) /\ x.d # <<>> => x.d[Len(x.d)] # 0
  BY DEF Bigs
<1>2. x.d \in Seq(Limb) /\ x.neg \in BOOLEAN /\ x = [neg |-> x.neg, d |-> x.d]
  BY DEF Bigs
<1>3. x.d = <<>> => ~x.neg
  BY DEF Bigs
<1>4. x.d # <<>> => Len(x.d) \in Nat \ {0} /\ x.d[Len(x.d)] # 0
  BY <1>2 DEF Bigs
<1>5. x.d # <<>> => x.d[Len(x.d)] \in 1..Base - 1
  <2>1. SUFFICES ASSUME x.d # <<>> PROVE x.d[Len(x.d)] \in 1..Base - 1
    OBVIOUS
  <2>2. Len(x.d) \in 1..Len(x.d)
    BY <1>4, <2>1
  <2>3. x.d[Len(x.d)] \in Limb /\ x.d[Len(x.d)] # 0
    BY <1>2, <1>4, <2>1, <2>2, LimbsAre
  <2>. QED
    BY <2>3, BaseIs DEF Limb
<1>6. Len(x.d) \in Nat /\ x.d \in Seq(Int)
  BY <1>2, LimbsAre
<1>7. Mag(x.d) \in Nat /\ Mag(x.d) < Weight(Len(x.d))
  BY <1>2, MagBelow
<1>. QED
  BY <1>2, <1>3, <1>4, <1>5, <1>6, <1>7 DEF Big

(* The top limb gives the size.                                            *)
LEMMA TopLimb ==
  ASSUME NEW x \in Bigs, x.d # <<>>
  PROVE  \E n \in Nat : \E l \in 1..Base - 1, low \in 0..Weight(n) - 1 :
            Len(x.d) = n + 1 /\ x.d[n + 1] = l /\ Last(x.d) = l /\ Mag(x.d) = low + l * Weight(n)
<1>1. PICK n \in Nat : Len(x.d) = n + 1
  <2>1. Len(x.d) - 1 \in Nat /\ Len(x.d) = (Len(x.d) - 1) + 1
    BY BigIs
  <2>. QED
    BY <2>1
<1>2. PICK l \in 1..Base - 1 : x.d[n + 1] = l
  BY <1>1, BigIs
<1>3. Last(x.d) = l
  BY <1>1, <1>2 DEF Last
<1>4. n \in 0..Len(x.d) /\ n + 1 \in 1..Len(x.d) /\ (n + 1) - 1 = n
  BY <1>1
<1>5. x.d \in Seq(Limb) /\ x.d \in Seq(Int)
  BY BigIs
<1>6. PICK low \in 0..Weight(n) - 1 : low = Partials(x.d)[n]
  BY <1>4, <1>5, PartialsBelow
<1>7. Mag(x.d) = low + l * Weight(n)
  BY <1>1, <1>2, <1>4, <1>5, <1>6, MagIs, PartialsAre
<1>. QED
  BY <1>1, <1>2, <1>3, <1>6, <1>7

LEMMA LimbBitLen ==
  ASSUME NEW l \in 1..Base - 1
  PROVE  /\ BitLen(l) \in 1..LimbBits /\ l < Power(2, BitLen(l)) /\ Power(2, BitLen(l) - 1) <= l
<1>0. l \in Nat /\ LimbBits \in Nat /\ Power(2, LimbBits) = Base /\ Base \in Nat
  BY BaseIs, WidthAssumption DEF Base
<1>1. PICK b \in Nat : b = BitLen(l)
  BY <1>0, BitLenIs
<1>2. l < Power(2, b) /\ \A j \in 0..b - 1 : Power(2, j) <= l
  BY <1>0, <1>1, BitLenIs
<1>3. b # 0
  BY <1>2, PowerZero
<1>4. b <= LimbBits
  <2>1. SUFFICES ASSUME LimbBits < b PROVE FALSE
    BY <1>0
  <2>2. LimbBits \in 0..b - 1
    BY <1>0, <2>1
  <2>3. Base <= l
    BY <1>0, <1>2, <2>2
  <2>. QED
    BY <1>0, <2>3
<1>5. b - 1 \in 0..b - 1 /\ b \in 1..LimbBits
  BY <1>0, <1>3, <1>4
<1>. QED
  BY <1>1, <1>2, <1>5

LEMMA WeightBits == \A n \in Nat : Weight(n) = Power(2, LimbBits * n)
  BY PowerOfPower, WidthAssumption DEF Weight, Base

LEMMA BitLenOf ==
  ASSUME NEW x \in Bigs
  PROVE  /\ bit_len(x) \in Nat /\ Mag(x.d) < Power(2, bit_len(x))
         /\ x.d = <<>> => bit_len(x) = 0 /\ Mag(x.d) = 0
         /\ x.d # <<>> => bit_len(x) \in Nat \ {0} /\ Power(2, bit_len(x) - 1) <= Mag(x.d)
<1>1. CASE x.d = <<>>
  <2>1. bit_len(x) = 0
    BY <1>1 DEF bit_len, is_zero
  <2>2. Mag(x.d) = 0
    <3>1. x.d \in Seq(Int) /\ Len(x.d) = 0
      BY <1>1, BigIs
    <3>. QED
      BY <3>1, MagIs, PartialsAre
  <2>. QED
    BY <1>1, <2>1, <2>2, PowerZero
<1>2. CASE x.d # <<>>
  <2>0. PICK n \in Nat : \E l \in 1..Base - 1, low \in 0..Weight(n) - 1 :
            Len(x.d) = n + 1 /\ x.d[n + 1] = l /\ Last(x.d) = l /\ Mag(x.d) = low + l * Weight(n)
    BY <1>2, TopLimb
  <2>1. PICK l \in 1..Base - 1, low \in 0..Weight(n) - 1 :
            Len(x.d) = n + 1 /\ Last(x.d) = l /\ Mag(x.d) = low + l * Weight(n)
    BY <2>0
  <2>2. PICK b \in 1..LimbBits : b = BitLen(l) /\ l < Power(2, b) /\ Power(2, b - 1) <= l
    BY LimbBitLen
  <2>3. bit_len(x) = n * LimbBits + b
    BY <1>2, <2>1, <2>2 DEF bit_len, is_zero
  <2>4. LimbBits \in Nat
    BY WidthAssumption
  <2>5. PICK s \in Nat : s = n * LimbBits
    BY <2>4
  <2>6. PICK w \in Nat \ {0} : w = Weight(n) /\ w = Power(2, s)
    <3>1. LimbBits * n = s
      BY <2>4, <2>5
    <3>. QED
      BY <3>1, WeightBits, WeightIs
  <2>7. PICK p \in Nat \ {0} : p = Power(2, b)
    BY <2>4, PowerNat
  <2>8. PICK q \in Nat \ {0} : q = Power(2, b - 1)
    <3>1. b - 1 \in Nat
      BY <2>4
    <3>. QED
      BY <3>1, PowerNat
  <2>9. Power(2, s + b) = w * p /\ Power(2, s + (b - 1)) = w * q
    <3>1. b \in Nat /\ b - 1 \in Nat
      BY <2>4
    <3>. QED
      BY <2>6, <2>7, <2>8, <3>1, PowerAdd
  <2>10. l \in Int /\ p \in Int /\ q \in Int
    BY BaseIs
  <2>11. w * l + w <= w * p
    BY <2>2, <2>7, <2>10, Less
  <2>12. w * q <= w * l
    BY <2>2, <2>8, <2>10, Less
  <2>13. Mag(x.d) = low + w * l
    BY <2>1, <2>6, <2>10
  <2>14. low \in 0..w - 1
    BY <2>6
  <2>15. w * l \in Int /\ w * p \in Int /\ w * q \in Int
    BY <2>10
  <2>16. Mag(x.d) < w * p /\ w * q <= Mag(x.d)
    BY <2>11, <2>12, <2>13, <2>14, <2>15
  <2>17. s + b \in Nat \ {0} /\ (s + b) - 1 = s + (b - 1) /\ bit_len(x) = s + b
    BY <2>3, <2>4, <2>5
  <2>. QED
    BY <1>2, <2>9, <2>16, <2>17
<1>. QED
  BY <1>1, <1>2

(* A longer number is a larger one.                                        *)
LEMMA LongerIsLarger ==
  ASSUME NEW x \in Bigs, NEW y \in Bigs, bit_len(x) < bit_len(y)
  PROVE  Mag(x.d) < Mag(y.d)
<1>1. bit_len(x) \in Nat /\ bit_len(y) \in Nat
  BY BitLenOf
<1>2. y.d # <<>>
  BY <1>1, BitLenOf
<1>3. PICK k \in Nat : k = bit_len(y) - 1 /\ bit_len(x) <= k
  BY <1>1
<1>4. Power(2, bit_len(x)) <= Power(2, k)
  <2>1. 2 \in Nat /\ 2 > 1
    OBVIOUS
  <2>2. Power(2, bit_len(x)) \in Int
    BY <1>1, PowerNext
  <2>3. CASE bit_len(x) = k
    BY <2>2, <2>3
  <2>4. CASE bit_len(x) < k
    <3>1. Power(2, bit_len(x)) < Power(2, k) /\ Power(2, k) \in Int
      BY <1>1, <2>1, <2>4, PowerGrows, PowerNext
    <3>. QED
      BY <2>2, <3>1
  <2>. QED
    BY <1>1, <1>3, <2>3, <2>4
<1>5. Power(2, k) <= Mag(y.d) /\ Mag(x.d) < Power(2, bit_len(x))
  BY <1>2, <1>3, BitLenOf
<1>6. Mag(x.d) \in Int /\ Mag(y.d) \in Int /\ Power(2, k) \in Int /\ Power(2, bit_len(x)) \in Int
  BY <1>1, BigIs, PowerNext
<1>. QED
  BY <1>4, <1>5, <1>6

-----------------------------------------------------------------------------
(* Comparison.                                                             *)
LEMMA CmpIs ==
  ASSUME NEW m \in Int, NEW n \in Int
  PROVE  /\ Cmp(m, n) \in -1..1 /\ (Cmp(m, n) < 0 <=> m < n) /\ (Cmp(m, n) = 0 <=> m = n)
         /\ (Cmp(m, n) > 0 <=> m > n) /\ Cmp(n, m) = -Cmp(m, n) /\ Cmp(-m, -n) = Cmp(n, m)
  BY DEF Cmp

LEMMA LimbIs ==
  ASSUME NEW x \in Bigs, NEW i \in Nat \ {0}
  PROVE  /\ limb(x, i) \in Limb /\ limb(x, i) \in 0..Base - 1 /\ limb(x, i) \in Nat
         /\ i <= Len(x.d) => limb(x, i) = x.d[i]
         /\ i > Len(x.d) => limb(x, i) = 0
<1>1. Len(x.d) \in Nat /\ 0 \in Limb
  BY BigIs, BaseIs DEF Limb
<1>2. i <= Len(x.d) => i \in 1..Len(x.d)
  BY <1>1
<1>3. i <= Len(x.d) => x.d[i] \in Limb
  BY <1>2, BigIs, LimbsAre
<1>4. limb(x, i) \in Limb
  BY <1>1, <1>3 DEF limb
<1>. QED
  BY <1>1, <1>4, BaseIs DEF limb, Limb

LEMMA SameLength ==
  ASSUME NEW x \in Bigs, NEW y \in Bigs, bit_len(x) = bit_len(y)
  PROVE  Len(x.d) = Len(y.d)
<1>1. CASE x.d = <<>>
  <2>1. y.d = <<>>
    BY <1>1, BitLenOf
  <2>. QED
    BY <1>1, <2>1
<1>2. CASE x.d # <<>>
  <2>1. y.d # <<>>
    BY <1>2, BitLenOf
  <2>2. ASSUME NEW z \in Bigs, z.d # <<>>
        PROVE  Len(z.d) \in Nat /\ Len(z.d) - 1 \in Int /\ LimbBits \in Nat \ {0}
               /\ \E r \in 0..LimbBits - 1 : bit_len(z) - 1 = LimbBits * (Len(z.d) - 1) + r
    <3>1. PICK n \in Nat : \E l \in 1..Base - 1, low \in 0..Weight(n) - 1 :
            Len(z.d) = n + 1 /\ z.d[n + 1] = l /\ Last(z.d) = l /\ Mag(z.d) = low + l * Weight(n)
      BY <2>2, TopLimb
    <3>2. PICK l \in 1..Base - 1 : Len(z.d) = n + 1 /\ Last(z.d) = l
      BY <3>1
    <3>3. PICK b \in 1..LimbBits : b = BitLen(l)
      BY LimbBitLen
    <3>4. bit_len(z) = n * LimbBits + b /\ LimbBits \in Nat \ {0} /\ Len(z.d) - 1 = n
      BY <2>2, <3>2, <3>3, WidthAssumption DEF bit_len, is_zero
    <3>5. b - 1 \in 0..LimbBits - 1 /\ n * LimbBits = LimbBits * n /\ n * LimbBits \in Int
      BY <3>4
    <3>. QED
      BY <3>2, <3>4, <3>5
  <2>3. PICK r \in 0..LimbBits - 1 : bit_len(x) - 1 = LimbBits * (Len(x.d) - 1) + r
    BY <1>2, <2>2
  <2>4. PICK s \in 0..LimbBits - 1 : bit_len(y) - 1 = LimbBits * (Len(y.d) - 1) + s
    BY <2>1, <2>2
  <2>5. bit_len(x) - 1 \in Int /\ Len(x.d) - 1 \in Int /\ Len(y.d) - 1 \in Int
    BY <1>2, <2>1, <2>2, BitLenOf
  <2>6. (bit_len(x) - 1) \div LimbBits = Len(x.d) - 1
    BY <1>2, <2>2, <2>3, <2>5, DivIs
  <2>7. (bit_len(x) - 1) \div LimbBits = Len(y.d) - 1
    <3>1. bit_len(x) - 1 = LimbBits * (Len(y.d) - 1) + s
      BY <2>4
    <3>2. LimbBits \in Nat \ {0}
      BY WidthAssumption
    <3>. QED
      BY <2>5, <3>1, <3>2, DivIs
  <2>8. Len(x.d) \in Int /\ Len(y.d) \in Int
    BY BigIs
  <2>9. Len(x.d) - 1 = Len(y.d) - 1
    BY <2>6, <2>7
  <2>. QED
    BY <2>8, <2>9
<1>. QED
  BY <1>1, <1>2

(* The highest limb in which two numbers differ decides.                   *)
LEMMA HighestDecides ==
  ASSUME NEW d \in Seq(Limb), NEW e \in Seq(Limb), Len(d) = Len(e), NEW t \in 1..Len(d),
         \A k \in t + 1..Len(d) : d[k] = e[k], d[t] < e[t]
  PROVE  Mag(d) < Mag(e)
<1>0. d \in Seq(Int) /\ e \in Seq(Int) /\ Len(d) \in Nat
  BY LimbsAre
<1>1. /\ Partials(d) \in [0..Len(d) -> Int] /\ Partials(e) \in [0..Len(d) -> Int]
      /\ \A k \in 1..Len(d) : Partials(d)[k] = Partials(d)[k - 1] + d[k] * Weight(k - 1)
      /\ \A k \in 1..Len(d) : Partials(e)[k] = Partials(e)[k - 1] + e[k] * Weight(k - 1)
  BY <1>0, PartialsAre
<1>2. Partials(d)[t] < Partials(e)[t]
  <2>0. t - 1 \in Nat /\ t - 1 \in 0..Len(d) /\ t - 1 \in 0..Len(e)
    BY <1>0
  <2>1. PICK w \in Nat \ {0} : w = Weight(t - 1)
    BY <2>0, WeightNat
  <2>2. PICK u \in 0..w - 1 : u = Partials(d)[t - 1]
    BY <2>0, <2>1, PartialsBelow
  <2>3. PICK v \in 0..w - 1 : v = Partials(e)[t - 1]
    BY <2>0, <2>1, PartialsBelow
  <2>4. PICK a \in Nat : a = d[t]
    BY LimbsAre
  <2>5. PICK b \in Nat : b = e[t]
    BY LimbsAre
  <2>6. Partials(d)[t] = u + w * a /\ Partials(e)[t] = v + w * b
    <3>1. a * w = w * a /\ b * w = w * b
      OBVIOUS
    <3>. QED
      BY <1>1, <2>1, <2>2, <2>3, <2>4, <2>5, <3>1
  <2>7. w * a + w <= w * b
    <3>1. a \in Int /\ b \in Int /\ a < b
      BY <2>4, <2>5
    <3>. QED
      BY <3>1, Less
  <2>8. w * a \in Int /\ w * b \in Int
    OBVIOUS
  <2>. QED
    BY <2>6, <2>7, <2>8
<1> DEFINE P == {j \in 0..Len(d) - t : Partials(d)[t + j] < Partials(e)[t + j]}
<1>3. 0 \in P
  <2>1. 0 \in 0..Len(d) - t /\ t + 0 = t
    BY <1>0
  <2>. QED
    BY <1>2, <2>1
<1>4. ASSUME NEW j \in 1..Len(d) - t, j - 1 \in P PROVE j \in P
  <2>1. t + j \in t + 1..Len(d) /\ t + j \in 1..Len(d) /\ (t + j) - 1 = t + (j - 1) /\ (t + j) - 1 \in Nat
        /\ (t + j) - 1 \in 0..Len(d) /\ j \in 0..Len(d) - t
    BY <1>0
  <2>2. PICK c \in Int : c = d[t + j] * Weight((t + j) - 1)
    <3>1. d[t + j] \in Int
      BY <2>1, LimbsAre
    <3>2. Weight((t + j) - 1) \in Int
      BY <2>1, WeightIs
    <3>. QED
      BY <3>1, <3>2
  <2>3. e[t + j] = d[t + j]
    BY <2>1
  <2>4. Partials(d)[t + j] = Partials(d)[t + (j - 1)] + c /\ Partials(e)[t + j] = Partials(e)[t + (j - 1)] + c
    BY <1>1, <2>1, <2>2, <2>3
  <2>5. Partials(d)[t + (j - 1)] \in Int /\ Partials(e)[t + (j - 1)] \in Int
    BY <1>1, <2>1
  <2>. QED
    BY <1>4, <2>1, <2>4, <2>5
<1>5. Len(d) - t \in P
  <2>1. Len(d) - t \in Nat
    BY <1>0
  <2>. HIDE DEF P
  <2>2. 0..Len(d) - t \subseteq P
    BY <1>3, <1>4, <2>1, UpInduction
  <2>. QED
    BY <2>1, <2>2
<1>6. t + (Len(d) - t) = Len(d)
  BY <1>0
<1>. QED
  BY <1>0, <1>5, <1>6, MagIs

(* cmp_mag compares the magnitudes.                                        *)
LEMMA CmpMagIs ==
  ASSUME NEW x \in Bigs, NEW y \in Bigs
  PROVE  cmp_mag(x, y) = Cmp(Mag(x.d), Mag(y.d)) /\ (Mag(x.d) = Mag(y.d) => x.d = y.d)
<1>0. /\ x.d \in Seq(Limb) /\ y.d \in Seq(Limb) /\ Mag(x.d) \in Int /\ Mag(y.d) \in Int
      /\ Len(x.d) \in Nat /\ Len(y.d) \in Nat
      /\ bit_len(x) \in Int /\ bit_len(y) \in Int
  BY BigIs, BitLenOf
<1>1. CASE bit_len(x) # bit_len(y)
  <2>1. cmp_mag(x, y) = Cmp(bit_len(x), bit_len(y))
    BY <1>1 DEF cmp_mag, CmpThen
  <2>2. bit_len(x) < bit_len(y) \/ bit_len(y) < bit_len(x)
    BY <1>0, <1>1
  <2>3. CASE bit_len(x) < bit_len(y)
    <3>1. Mag(x.d) < Mag(y.d)
      BY <2>3, LongerIsLarger
    <3>. QED
      BY <1>0, <2>1, <2>3, <3>1 DEF Cmp
  <2>4. CASE bit_len(y) < bit_len(x)
    <3>1. Mag(y.d) < Mag(x.d)
      BY <2>4, LongerIsLarger
    <3>. QED
      BY <1>0, <2>1, <2>4, <3>1 DEF Cmp
  <2>. QED
    BY <2>2, <2>3, <2>4
<1>2. CASE bit_len(x) = bit_len(y)
  <2> DEFINE differ == {i \in 1..Len(x.d) : x.d[i] # limb(y, i)}
  <2>1. Len(x.d) = Len(y.d)
    BY <1>2, SameLength
  <2>2. \A i \in 1..Len(x.d) : limb(y, i) = y.d[i]
    BY <2>1 DEF limb
  <2>3. cmp_mag(x, y) = CmpAt(x, y, differ)
    BY <1>2 DEF cmp_mag, CmpThen
  <2>4. CASE differ = {}
    <3>1. \A i \in 1..Len(x.d) : x.d[i] = y.d[i]
      BY <2>2, <2>4
    <3>2. x.d = y.d
      BY <1>0, <2>1, <3>1
    <3>3. cmp_mag(x, y) = 0
      BY <2>3, <2>4 DEF CmpAt
    <3>. QED
      BY <1>0, <3>2, <3>3 DEF Cmp
  <2>5. CASE differ # {}
    <3>1. differ \in SUBSET (0..Len(x.d))
      OBVIOUS
    <3>2. PICK t : t = Top(differ)
      OBVIOUS
    <3>3. t \in differ /\ \A j \in differ : j <= t
      <4>. HIDE DEF differ
      <4>. QED
        BY <1>0, <2>5, <3>1, <3>2, TopIs
    <3>4. t \in 1..Len(x.d) /\ x.d[t] # y.d[t] /\ limb(y, t) = y.d[t]
      BY <2>2, <3>3
    <3>5. \A k \in t + 1..Len(x.d) : x.d[k] = y.d[k]
      <4> SUFFICES ASSUME NEW k \in t + 1..Len(x.d) PROVE x.d[k] = y.d[k]
        OBVIOUS
      <4>1. k \in 1..Len(x.d) /\ ~(k <= t)
        BY <3>4
      <4>2. k \notin differ
        BY <3>3, <4>1
      <4>. QED
        BY <2>2, <4>1, <4>2
    <3>6. x.d[t] \in Int /\ y.d[t] \in Int
      BY <1>0, <2>1, <3>4, LimbsAre
    <3>7. cmp_mag(x, y) = Cmp(x.d[t], y.d[t])
      BY <2>3, <2>5, <3>2, <3>4 DEF CmpAt
    <3>8. CASE x.d[t] < y.d[t]
      <4>1. Mag(x.d) < Mag(y.d)
        BY <1>0, <2>1, <3>4, <3>5, <3>8, HighestDecides
      <4>. QED
        BY <1>0, <3>6, <3>7, <3>8, <4>1 DEF Cmp
    <3>9. CASE y.d[t] < x.d[t]
      <4>1. \A k \in t + 1..Len(y.d) : y.d[k] = x.d[k]
        BY <2>1, <3>5
      <4>2. t \in 1..Len(y.d)
        BY <2>1, <3>4
      <4>3. Mag(y.d) < Mag(x.d)
        BY <1>0, <2>1, <3>9, <4>1, <4>2, HighestDecides
      <4>. QED
        BY <1>0, <3>6, <3>7, <3>9, <4>3 DEF Cmp
    <3>. QED
      BY <3>4, <3>6, <3>8, <3>9
  <2>. QED
    BY <2>4, <2>5
<1>. QED
  BY <1>1, <1>2

LEMMA MagZero ==
  ASSUME NEW x \in Bigs
  PROVE  (x.d = <<>> <=> Mag(x.d) = 0) /\ (is_zero(x) <=> Mag(x.d) = 0)
<1>1. x.d = <<>> => Mag(x.d) = 0
  BY BitLenOf
<1>2. x.d # <<>> => Mag(x.d) # 0
  <2>1. SUFFICES ASSUME x.d # <<>> PROVE Mag(x.d) # 0
    OBVIOUS
  <2>2. bit_len(x) - 1 \in Nat /\ Power(2, bit_len(x) - 1) <= Mag(x.d)
    BY <2>1, BitLenOf
  <2>3. Power(2, bit_len(x) - 1) \in Nat \ {0}
    BY <2>2, PowerNat
  <2>4. Mag(x.d) \in Int
    BY BigIs
  <2>. QED
    BY <2>2, <2>3, <2>4
<1>. QED
  BY <1>1, <1>2 DEF is_zero

LEMMA IntOfIs ==
  ASSUME NEW x \in Bigs
  PROVE  /\ IntOf(x) \in Int /\ (IntOf(x) < 0 <=> x.neg) /\ (IntOf(x) = 0 <=> is_zero(x))
         /\ ~x.neg => IntOf(x) = Mag(x.d)
         /\ x.neg => IntOf(x) = -Mag(x.d)
<1>1. Mag(x.d) \in Nat /\ x.neg \in BOOLEAN /\ (x.neg => x.d # <<>>)
  BY BigIs
<1>2. (x.d = <<>> <=> Mag(x.d) = 0) /\ (is_zero(x) <=> Mag(x.d) = 0)
  BY MagZero
<1>3. CASE x.neg
  <2>1. IntOf(x) = -Mag(x.d) /\ Mag(x.d) # 0
    BY <1>1, <1>2, <1>3 DEF IntOf
  <2>. QED
    BY <1>1, <1>2, <1>3, <2>1
<1>4. CASE ~x.neg
  <2>1. IntOf(x) = Mag(x.d)
    BY <1>4 DEF IntOf
  <2>. QED
    BY <1>1, <1>2, <1>4, <2>1
<1>. QED
  BY <1>3, <1>4

(* No number has two representations.                                      *)
LEMMA OneBig ==
  ASSUME NEW x \in Bigs, NEW y \in Bigs, IntOf(x) = IntOf(y)
  PROVE  x = y
<1>1. x.neg \in BOOLEAN /\ y.neg \in BOOLEAN /\ (x.neg <=> y.neg)
  BY BigIs, IntOfIs
<1>2. x.neg = y.neg
  BY <1>1
<1>3. Mag(x.d) = Mag(y.d)
  <2>1. Mag(x.d) \in Int /\ Mag(y.d) \in Int
    BY BigIs
  <2>. QED
    BY <1>1, <2>1, IntOfIs
<1>4. x.d = y.d
  BY <1>3, CmpMagIs
<1>5. x = Big(x.neg, x.d) /\ y = Big(y.neg, y.d)
  BY BigIs
<1>. QED
  BY <1>2, <1>4, <1>5

LEMMA CmpBigs ==
  ASSUME NEW x \in Bigs, NEW y \in Bigs
  PROVE  cmp(x, y) = Cmp(IntOf(x), IntOf(y))
<1>1. /\ x.neg \in BOOLEAN /\ y.neg \in BOOLEAN /\ Mag(x.d) \in Nat /\ Mag(y.d) \in Nat
      /\ IntOf(x) \in Int /\ IntOf(y) \in Int /\ (IntOf(x) < 0 <=> x.neg) /\ (IntOf(y) < 0 <=> y.neg)
      /\ (~x.neg => IntOf(x) = Mag(x.d)) /\ (x.neg => IntOf(x) = -Mag(x.d))
      /\ (~y.neg => IntOf(y) = Mag(y.d)) /\ (y.neg => IntOf(y) = -Mag(y.d))
  BY BigIs, IntOfIs
<1>2. cmp_mag(x, y) = Cmp(Mag(x.d), Mag(y.d)) /\ cmp_mag(y, x) = Cmp(Mag(y.d), Mag(x.d))
  BY CmpMagIs
<1>3. CASE x.neg /\ ~y.neg
  BY <1>1, <1>3 DEF cmp, Cmp
<1>4. CASE ~x.neg /\ y.neg
  BY <1>1, <1>4 DEF cmp, Cmp
<1>5. CASE ~x.neg /\ ~y.neg
  <2>1. cmp(x, y) = cmp_mag(x, y)
    BY <1>5 DEF cmp
  <2>. QED
    BY <1>1, <1>2, <1>5, <2>1
<1>6. CASE x.neg /\ y.neg
  <2>1. cmp(x, y) = cmp_mag(y, x)
    BY <1>6 DEF cmp
  <2>2. Cmp(-Mag(x.d), -Mag(y.d)) = Cmp(Mag(y.d), Mag(x.d))
    BY <1>1, CmpIs
  <2>. QED
    BY <1>1, <1>2, <1>6, <2>1, <2>2
<1>. QED
  BY <1>1, <1>3, <1>4, <1>5, <1>6

-----------------------------------------------------------------------------
(* Zero limbs on top add nothing.                                          *)
LEMMA ZerosAbove ==
  ASSUME NEW d \in Seq(Int), NEW t \in 0..Len(d), \A k \in t + 1..Len(d) : d[k] = 0
  PROVE  Mag(d) = Partials(d)[t]
<1>0. Len(d) \in Nat
  OBVIOUS
<1>1. /\ Partials(d) \in [0..Len(d) -> Int]
      /\ \A k \in 1..Len(d) : Partials(d)[k] = Partials(d)[k - 1] + d[k] * Weight(k - 1)
  BY PartialsAre
<1> DEFINE P == {j \in 0..Len(d) - t : Partials(d)[t + j] = Partials(d)[t]}
<1>2. 0 \in P
  <2>1. 0 \in 0..Len(d) - t /\ t + 0 = t
    BY <1>0
  <2>. QED
    BY <2>1
<1>3. ASSUME NEW j \in 1..Len(d) - t, j - 1 \in P PROVE j \in P
  <2>1. t + j \in t + 1..Len(d) /\ t + j \in 1..Len(d) /\ (t + j) - 1 = t + (j - 1) /\ (t + j) - 1 \in Nat
        /\ (t + j) - 1 \in 0..Len(d) /\ j \in 0..Len(d) - t
    BY <1>0
  <2>2. PICK w \in Int : w = Weight((t + j) - 1)
    BY <2>1, WeightNat
  <2>3. Partials(d)[t + j] = Partials(d)[t + (j - 1)] + 0 * w
    BY <1>1, <2>1, <2>2
  <2>4. Partials(d)[t + (j - 1)] \in Int /\ 0 * w = 0
    <3>1. t + (j - 1) \in 0..Len(d)
      BY <1>0
    <3>2. 0 * w = 0
      OBVIOUS
    <3>. QED
      BY <1>1, <3>1, <3>2
  <2>. QED
    BY <1>3, <2>1, <2>3, <2>4
<1>4. Len(d) - t \in P
  <2>1. Len(d) - t \in Nat
    BY <1>0
  <2>. HIDE DEF P
  <2>2. 0..Len(d) - t \subseteq P
    BY <1>2, <1>3, <2>1, UpInduction
  <2>. QED
    BY <2>1, <2>2
<1>5. t + (Len(d) - t) = Len(d)
  BY <1>0
<1>. QED
  BY <1>4, <1>5, MagIs

LEMMA TrimmedIs ==
  ASSUME NEW d \in Seq(Limb)
  PROVE  /\ Trimmed(d) \in Seq(Limb) /\ Mag(Trimmed(d)) = Mag(d) /\ Len(Trimmed(d)) <= Len(d)
         /\ Trimmed(d) # <<>> => Trimmed(d)[Len(Trimmed(d))] # 0
<1> DEFINE used == {i \in DOMAIN d : d[i] # 0}
<1>0. d \in Seq(Int) /\ Len(d) \in Nat /\ DOMAIN d = 1..Len(d) /\ <<>> \in Seq(Limb) /\ <<>> \in Seq(Int)
  BY LimbsAre
<1>1. CASE used = {}
  <2>1. Trimmed(d) = <<>>
    <3>1. {0} \cup used = {0} /\ {0} \in SUBSET (0..0)
      BY <1>1
    <3>2. Top({0}) \in {0}
      BY <3>1, TopIs
    <3>3. Top({0} \cup used) = 0
      BY <3>1, <3>2
    <3>4. SubSeq(d, 1, 0) = <<>>
      BY <1>0
    <3>. QED
      BY <3>3, <3>4 DEF Trimmed
  <2>2. \A k \in 0 + 1..Len(d) : d[k] = 0
    BY <1>0, <1>1
  <2>3. Mag(d) = 0
    <3>1. 0 \in 0..Len(d) /\ Partials(d)[0] = 0
      BY <1>0, PartialsAre
    <3>. QED
      BY <1>0, <2>2, <3>1, ZerosAbove
  <2>4. Mag(<<>>) = 0
    <3>1. Len(<<>>) = 0
      OBVIOUS
    <3>. QED
      BY <1>0, <3>1, MagIs, PartialsAre
  <2>. QED
    BY <1>0, <2>1, <2>3, <2>4
<1>2. CASE used # {}
  <2>1. used \in SUBSET (0..Len(d))
    BY <1>0
  <2> DEFINE marked == {0} \cup used
  <2>2. PICK t : t = Top(marked)
    OBVIOUS
  <2>3. t \in used /\ \A j \in used : j <= t
    <3>1. marked \in SUBSET (0..Len(d)) /\ marked # {}
      BY <1>0, <2>1
    <3>2. t \in marked /\ \A j \in marked : j <= t
      <4>. HIDE DEF marked
      <4>. QED
        BY <1>0, <2>2, <3>1, TopIs
    <3>3. PICK u \in used : u \in 1..Len(d)
      BY <1>0, <1>2
    <3>4. t # 0
      BY <3>2, <3>3
    <3>. QED
      BY <3>2, <3>4
  <2>4. t \in 1..Len(d) /\ d[t] # 0
    BY <1>0, <2>3
  <2>5. Trimmed(d) = SubSeq(d, 1, t)
    BY <2>2 DEF Trimmed
  <2> DEFINE e == SubSeq(d, 1, t)
  <2>6. e \in Seq(Limb) /\ Len(e) = t /\ \A k \in 1..t : e[k] = d[k]
    BY <2>4
  <2>7. \A k \in t + 1..Len(d) : d[k] = 0
    <3> SUFFICES ASSUME NEW k \in t + 1..Len(d) PROVE d[k] = 0
      OBVIOUS
    <3>1. k \in DOMAIN d /\ ~(k <= t)
      BY <1>0, <2>4
    <3>2. k \notin used
      BY <2>3, <3>1
    <3>. QED
      BY <3>1, <3>2
  <2>. HIDE DEF e
  <2>8. Mag(d) = Partials(d)[t]
    <3>1. t \in 0..Len(d)
      BY <2>4
    <3>. QED
      BY <1>0, <2>7, <3>1, ZerosAbove
  <2>9. Partials(e)[t] = Partials(d)[t] /\ Mag(e) = Partials(e)[t]
    <3>1. t \in Nat /\ t <= Len(d) /\ t <= Len(e) /\ e \in Seq(Int)
      BY <2>4, <2>6, LimbsAre
    <3>. QED
      BY <1>0, <2>6, <3>1, PartialsAgree, MagIs
  <2>10. t <= Len(d) /\ e[Len(e)] # 0
    BY <2>4, <2>6
  <2>. QED
    BY <2>5, <2>6, <2>8, <2>9, <2>10 DEF e
<1>. QED
  BY <1>1, <1>2

LEMMA MadeBig ==
  ASSUME NEW neg \in BOOLEAN, NEW d \in Seq(Limb), d # <<>> => d[Len(d)] # 0, d = <<>> => ~neg
  PROVE  /\ Big(neg, d) \in Bigs /\ Big(neg, d).d = d /\ Big(neg, d).neg = neg
         /\ IntOf(Big(neg, d)) = IF neg THEN -Mag(d) ELSE Mag(d)
<1>1. Big(neg, d) \in [neg : BOOLEAN, d : Seq(Limb)] /\ Big(neg, d).d = d /\ Big(neg, d).neg = neg
  BY DEF Big
<1>2. Big(neg, d) \in Bigs
  BY <1>1 DEF Bigs
<1>. QED
  BY <1>1, <1>2 DEF IntOf

LEMMA NormalizeIs ==
  ASSUME NEW neg \in BOOLEAN, NEW d \in Seq(Limb)
  PROVE  /\ normalize(Big(neg, d)) \in Bigs /\ Mag(normalize(Big(neg, d)).d) = Mag(d)
         /\ IntOf(normalize(Big(neg, d))) = IF neg THEN -Mag(d) ELSE Mag(d)
         /\ ~neg => ~normalize(Big(neg, d)).neg
         /\ Len(normalize(Big(neg, d)).d) <= Len(d)
<1>1. Big(neg, d).d = d /\ Big(neg, d).neg = neg
  BY DEF Big
<1>2. PICK e \in Seq(Limb) : e = Trimmed(d)
  BY TrimmedIs
<1>3. Mag(e) = Mag(d) /\ (e # <<>> => e[Len(e)] # 0) /\ Len(e) <= Len(d)
  BY <1>2, TrimmedIs
<1>4. PICK s \in BOOLEAN : s = (neg /\ e # <<>>)
  OBVIOUS
<1>5. normalize(Big(neg, d)) = Big(s, e)
  BY <1>1, <1>2, <1>4 DEF normalize, Normal
<1>6. e = <<>> => ~s
  BY <1>4
<1>7. Big(s, e) \in Bigs /\ Big(s, e).d = e /\ Big(s, e).neg = s /\ IntOf(Big(s, e)) = IF s THEN -Mag(e) ELSE Mag(e)
  BY <1>3, <1>6, MadeBig
<1>8. e = <<>> => Mag(e) = 0
  <2>1. <<>> \in Seq(Int) /\ Len(<<>>) = 0
    OBVIOUS
  <2>. QED
    BY <2>1, MagIs, PartialsAre
<1>9. (IF s THEN -Mag(e) ELSE Mag(e)) = IF neg THEN -Mag(d) ELSE Mag(d)
  BY <1>3, <1>4, <1>8
<1>. QED
  BY <1>3, <1>4, <1>5, <1>7, <1>9

-----------------------------------------------------------------------------
(* Columns written as limbs.                                               *)
Column == 0..Base * (Base - 1)
CarryAt(u, cols, k) == IF k = 0 THEN 0 ELSE (cols[k] + u[k - 1]) \div Base

LEMMA CarryLimb ==
  ASSUME NEW a \in Column, NEW c \in Limb
  PROVE  /\ a \in Nat /\ c \in Nat /\ (a + c) \div Base \in Limb /\ (a + c) % Base \in Limb
         /\ a + c = Base * ((a + c) \div Base) + ((a + c) % Base)
<1>0. Base \in Nat \ {0} /\ Base > 1
  BY BaseIs
<1>1. PICK b \in Nat \ {0} : b = Base /\ b > 1
  BY <1>0
<1>2. b * (b - 1) \in Nat /\ a \in 0..b * (b - 1) /\ c \in 0..b - 1
  BY <1>1 DEF Column, Limb
<1>3. a \in Nat /\ c \in Nat /\ a + c \in Nat /\ a + c \in Int
  BY <1>1, <1>2
<1>4. PICK q \in Int : q = (a + c) \div b
  BY <1>3, DivMod
<1>5. PICK r \in 0..b - 1 : r = (a + c) % b
  BY <1>3, DivMod
<1>6. a + c = b * q + r
  BY <1>3, <1>4, <1>5, DivMod
<1>7. b * q < b * b
  <2>1. b * b = b * (b - 1) + b /\ b * q \in Int
    BY <1>1
  <2>. QED
    BY <1>2, <1>3, <1>6, <2>1
<1>8. q < b
  <2>1. b \in Int
    OBVIOUS
  <2>. QED
    BY <1>7, <2>1, Less
<1>9. ~(q < 0)
  <2>1. SUFFICES ASSUME q < 0 PROVE FALSE
    OBVIOUS
  <2>2. b * q + b <= b * 0 /\ b * 0 = 0 /\ b * q \in Int
    <3>1. 0 \in Int /\ b * 0 = 0
      OBVIOUS
    <3>. QED
      BY <2>1, <3>1, Less
  <2>. QED
    BY <1>3, <1>6, <2>2
<1>. QED
  BY <1>1, <1>3, <1>4, <1>5, <1>6, <1>8, <1>9 DEF Limb

LEMMA CarriesAre ==
  ASSUME NEW cols \in Seq(Column)
  PROVE  /\ Carries(cols) \in [0..Len(cols) -> Limb] /\ Carries(cols)[0] = 0
         /\ \A k \in 1..Len(cols) : Carries(cols)[k] = (cols[k] + Carries(cols)[k - 1]) \div Base
<1> DEFINE n == Len(cols)
           E == [z \in (1..n) \X Limb |-> (cols[z[1]] + z[2]) \div Base]
           Fits(u) == u = [k \in 0..n |-> CarryAt(u, cols, k)]
           chosen == CHOOSE u : Fits(u)
<1>0. n \in Nat /\ 0 \in Limb /\ \A k \in 1..n : k - 1 \in 0..n /\ cols[k] \in Column
  BY BaseIs DEF Limb
<1>1. E \in [(1..n) \X Limb -> Limb] /\ \A k \in 1..n, c \in Limb : E[<<k, c>>] = (cols[k] + c) \div Base
  <2>1. \A z \in (1..n) \X Limb : z[1] \in 1..n /\ z[2] \in Limb
    OBVIOUS
  <2>2. \A z \in (1..n) \X Limb : (cols[z[1]] + z[2]) \div Base \in Limb
    BY <1>0, <2>1, CarryLimb
  <2>3. \A k \in 1..n, c \in Limb : <<k, c>> \in (1..n) \X Limb /\ <<k, c>>[1] = k /\ <<k, c>>[2] = c
    OBVIOUS
  <2>. HIDE DEF n
  <2>4. E \in [(1..n) \X Limb -> Limb]
    BY <2>2
  <2>5. \A k \in 1..n, c \in Limb : E[<<k, c>>] = (cols[k] + c) \div Base
    BY <2>3
  <2>. QED
    BY <2>4, <2>5
<1>2. \E u : Fits(u)
  <2>. HIDE DEF E
  <2>1. PICK f : Loops(f, Limb, 0, E, n)
    BY <1>0, <1>1, LoopExists
  <2>2. f \in [0..n -> Limb] /\ f[0] = 0 /\ \A k \in 1..n : f[k] = E[<<k, f[k - 1]>>]
    BY <2>1 DEF Loops
  <2>3. \A k \in 1..n : f[k] = (cols[k] + f[k - 1]) \div Base
    BY <1>0, <1>1, <2>2
  <2>4. \A k \in 0..n : f[k] = CarryAt(f, cols, k)
    BY <2>2, <2>3 DEF CarryAt
  <2>. QED
    BY <2>2, <2>4
<1>3. Fits(chosen)
  BY <1>2
<1>4. Carries(cols) = chosen
  BY DEF Carries, CarryAt
<1>. HIDE DEF chosen
<1>5. chosen[0] = 0 /\ \A k \in 1..n : chosen[k] = (cols[k] + chosen[k - 1]) \div Base
  BY <1>0, <1>3 DEF CarryAt
<1>6. \A k \in 1..n : chosen[k - 1] \in Limb => chosen[k] \in Limb
  BY <1>0, <1>5, CarryLimb
<1>7. \A k \in 0..n : chosen[k] \in Limb
  BY <1>0, <1>5, <1>6, LoopTyped
<1>8. chosen \in [0..n -> Limb]
  BY <1>3, <1>7
<1>. QED
  BY <1>4, <1>5, <1>8

LEMMA ColumnsAre ==
  ASSUME NEW cols \in Seq(Column)
  PROVE  cols \in Seq(Int) /\ Len(cols) \in Nat /\ \A k \in 1..Len(cols) : cols[k] \in Column /\ cols[k] \in Nat
<1>1. Column \subseteq Nat
  <2>1. Base * (Base - 1) \in Nat
    BY BaseIs
  <2>. QED
    BY <2>1 DEF Column
<1>2. Column \subseteq Int
  BY <1>1
<1>3. Len(cols) \in Nat /\ \A k \in 1..Len(cols) : cols[k] \in Column
  OBVIOUS
<1>4. cols \in [1..Len(cols) -> Int]
  <2>1. cols \in [1..Len(cols) -> Column]
    OBVIOUS
  <2>2. \A k \in 1..Len(cols) : cols[k] \in Int
    BY <1>2, <1>3
  <2>. QED
    BY <2>1, <2>2
<1>5. cols \in Seq(Int)
  BY <1>3, <1>4
<1>. QED
  BY <1>1, <1>3, <1>5

(* Writing columns keeps the number; it ends in a limb that is not zero    *)
(* when the last column is not zero.                                       *)
LEMMA WrittenIs ==
  ASSUME NEW cols \in Seq(Column)
  PROVE  /\ Written(cols) \in Seq(Limb) /\ Mag(Written(cols)) = Mag(cols)
         /\ Len(Written(cols)) >= Len(cols) /\ Len(Written(cols)) \in Nat
         /\ (cols = <<>> => Written(cols) = <<>>)
         /\ (cols # <<>> /\ cols[Len(cols)] # 0 =>
                Written(cols) # <<>> /\ Written(cols)[Len(Written(cols))] # 0)
<1> DEFINE n == Len(cols)
           e == [k \in DOMAIN cols |-> (cols[k] + Carries(cols)[k - 1]) % Base]
<1>0. n \in Nat /\ DOMAIN cols = 1..n /\ cols \in Seq(Int) /\ \A k \in 1..n : cols[k] \in Column /\ cols[k] \in Nat
  BY ColumnsAre
<1>1. PICK c \in [0..n -> Limb] : c = Carries(cols)
  BY CarriesAre
<1>2. c[0] = 0 /\ \A k \in 1..n : c[k] = (cols[k] + c[k - 1]) \div Base
  BY <1>1, CarriesAre
<1>3. \A k \in 1..n : k - 1 \in 0..n /\ c[k - 1] \in Limb /\ (cols[k] + c[k - 1]) % Base \in Limb
  <2> SUFFICES ASSUME NEW k \in 1..n
               PROVE  k - 1 \in 0..n /\ c[k - 1] \in Limb /\ (cols[k] + c[k - 1]) % Base \in Limb
    OBVIOUS
  <2>1. k - 1 \in 0..n
    BY <1>0
  <2>2. c[k - 1] \in Limb
    BY <1>1, <2>1
  <2>. QED
    BY <1>0, <2>1, <2>2, CarryLimb
<1>4. e \in [1..n -> Limb] /\ \A k \in 1..n : e[k] = (cols[k] + c[k - 1]) % Base
  BY <1>0, <1>1, <1>3
<1>5. e \in Seq(Limb) /\ Len(e) = n
  BY <1>0, <1>4
<1>6. Written(cols) = Closed(e, c[n])
  BY <1>1 DEF Written, Carried
<1>. HIDE DEF e
<1>7. e \in Seq(Int) /\ \A k \in 1..n : e[k] \in Nat
  BY <1>5, LimbsAre
<1>8. c[n] \in Limb /\ c[n] \in Nat
  <2>1. n \in 0..n
    BY <1>0
  <2>. QED
    BY <1>1, <2>1, BaseIs DEF Limb
<1> DEFINE P == {k \in 0..n : Partials(cols)[k] = Partials(e)[k] + c[k] * Weight(k)}
<1>9. /\ Partials(cols) \in [0..n -> Int] /\ Partials(e) \in [0..n -> Int]
      /\ Partials(cols)[0] = 0 /\ Partials(e)[0] = 0
      /\ \A k \in 1..n : Partials(cols)[k] = Partials(cols)[k - 1] + cols[k] * Weight(k - 1)
      /\ \A k \in 1..n : Partials(e)[k] = Partials(e)[k - 1] + e[k] * Weight(k - 1)
  BY <1>0, <1>5, <1>7, PartialsAre
<1>10. 0 \in P
  <2>1. 0 \in 0..n /\ 0 * Weight(0) = 0
    BY <1>0, WeightIs
  <2>. QED
    BY <1>2, <1>9, <2>1
<1>11. ASSUME NEW k \in 1..n, k - 1 \in P PROVE k \in P
  <2>1. k - 1 \in Nat /\ (k - 1) + 1 = k /\ k \in 0..n /\ k - 1 \in 0..n
    BY <1>0
  <2>2. PICK w \in Nat : w = Weight(k - 1) /\ Weight(k) = Base * w
    BY <2>1, WeightIs
  <2>3. PICK a \in Nat : a = cols[k]
    BY <1>0
  <2>4. PICK u \in Nat : u = c[k - 1]
    BY <1>3, BaseIs DEF Limb
  <2>5. a + u = Base * c[k] + e[k]
    <3>1. a \in Column /\ u \in Limb
      BY <1>0, <1>3, <2>3, <2>4
    <3>. QED
      BY <1>2, <1>4, <2>3, <2>4, <3>1, CarryLimb
  <2>6. PICK q \in Nat : q = c[k]
    <3>1. c[k] \in Limb
      BY <1>1, <2>1
    <3>. QED
      BY <3>1, BaseIs DEF Limb
  <2>7. PICK r \in Nat : r = e[k]
    BY <1>7
  <2>8. PICK B \in Nat : B = Base
    BY BaseIs
  <2>9. PICK x \in Int : x = Partials(cols)[k - 1]
    BY <1>9, <2>1
  <2>10. PICK y \in Int : y = Partials(e)[k - 1]
    BY <1>9, <2>1
  <2>11. x = y + u * w
    BY <1>11, <2>2, <2>4, <2>9, <2>10
  <2>12. x + a * w = (y + r * w) + q * (B * w)
    <3>1. a + u = B * q + r
      BY <2>5, <2>6, <2>7, <2>8
    <3>2. (a + u) * w = (B * q + r) * w
      BY <3>1
    <3>3. (a + u) * w = a * w + u * w /\ (B * q + r) * w = q * (B * w) + r * w
      OBVIOUS
    <3>4. a * w \in Int /\ u * w \in Int /\ r * w \in Int /\ q * (B * w) \in Int
      OBVIOUS
    <3>. QED
      BY <2>11, <3>2, <3>3, <3>4
  <2>13. Partials(cols)[k] = x + a * w /\ Partials(e)[k] = y + r * w
    BY <1>9, <2>2, <2>3, <2>7, <2>9, <2>10
  <2>. QED
    BY <2>1, <2>2, <2>6, <2>8, <2>12, <2>13
<1>12. n \in P
  <2>. HIDE DEF P
  <2>1. 0..n \subseteq P
    BY <1>0, <1>10, <1>11, UpInduction
  <2>. QED
    BY <1>0, <2>1
<1>13. Mag(cols) = Mag(e) + c[n] * Weight(n)
  BY <1>0, <1>5, <1>7, <1>12, MagIs
<1>14. CASE c[n] = 0
  <2>1. Written(cols) = e
    BY <1>6, <1>14 DEF Closed
  <2>2. 0 * Weight(n) = 0 /\ Mag(e) \in Int
    BY <1>0, <1>7, WeightIs, MagIs
  <2>3. Mag(cols) = Mag(e)
    BY <1>13, <1>14, <2>2
  <2>4. cols # <<>> /\ cols[n] # 0 => e # <<>> /\ e[Len(e)] # 0
    <3>1. SUFFICES ASSUME cols # <<>>, cols[n] # 0 PROVE e # <<>> /\ e[Len(e)] # 0
      OBVIOUS
    <3>2. n \in 1..n
      BY <1>0, <3>1
    <3>3. PICK u \in Limb : u = c[n - 1]
      BY <1>3, <3>2
    <3>4. cols[n] + u = Base * c[n] + e[n]
      <4>1. cols[n] \in Column /\ c[n] = (cols[n] + u) \div Base
        BY <1>0, <1>2, <3>2, <3>3
      <4>2. e[n] = (cols[n] + u) % Base
        BY <1>4, <3>2, <3>3
      <4>. QED
        BY <4>1, <4>2, CarryLimb
    <3>5. cols[n] + u = e[n]
      <4>1. Base * 0 = 0 /\ e[n] \in Nat
        BY <1>7, <3>2, BaseIs
      <4>. QED
        BY <1>14, <3>4, <4>1
    <3>6. u \in Nat /\ cols[n] \in Nat
      BY <1>0, <3>2, BaseIs DEF Limb
    <3>. QED
      BY <1>5, <3>1, <3>2, <3>5, <3>6
  <2>5. cols = <<>> => e = <<>>
    BY <1>0, <1>5
  <2>. QED
    BY <1>5, <2>1, <2>3, <2>4, <2>5, <1>0
<1>15. CASE c[n] # 0
  <2>1. Written(cols) = Append(e, c[n])
    BY <1>6, <1>15 DEF Closed
  <2>2. Append(e, c[n]) \in Seq(Limb) /\ Len(Append(e, c[n])) = n + 1 /\ Append(e, c[n])[n + 1] = c[n]
    BY <1>5, <1>8
  <2>3. Mag(Append(e, c[n])) = Mag(cols)
    <3>1. c[n] \in Int
      BY <1>8
    <3>. QED
      BY <1>5, <1>7, <1>13, <3>1, MagAppend
  <2>4. Append(e, c[n]) # <<>>
    BY <2>2, <1>0
  <2>5. cols # <<>>
    <3>1. cols = <<>> => n = 0
      OBVIOUS
    <3>. QED
      BY <1>2, <1>15, <3>1
  <2>. QED
    BY <1>0, <1>15, <2>1, <2>2, <2>3, <2>4, <2>5
<1>. QED
  BY <1>8, <1>14, <1>15

-----------------------------------------------------------------------------
(* Sums.                                                                   *)
LEMMA Linear ==
  ASSUME NEW a \in Seq(Int), NEW b \in Seq(Int), NEW c \in Seq(Int), NEW p \in Int,
         Len(a) = Len(c), Len(b) = Len(c), \A k \in 1..Len(c) : c[k] = p * a[k] + b[k]
  PROVE  Mag(c) = p * Mag(a) + Mag(b)
<1> DEFINE n == Len(c)
<1>0. n \in Nat /\ \A k \in 1..n : a[k] \in Int /\ b[k] \in Int
  OBVIOUS
<1>1. /\ Partials(a) \in [0..n -> Int] /\ Partials(b) \in [0..n -> Int] /\ Partials(c) \in [0..n -> Int]
      /\ Partials(a)[0] = 0 /\ Partials(b)[0] = 0 /\ Partials(c)[0] = 0
      /\ \A k \in 1..n : Partials(a)[k] = Partials(a)[k - 1] + a[k] * Weight(k - 1)
      /\ \A k \in 1..n : Partials(b)[k] = Partials(b)[k - 1] + b[k] * Weight(k - 1)
      /\ \A k \in 1..n : Partials(c)[k] = Partials(c)[k - 1] + c[k] * Weight(k - 1)
  BY PartialsAre
<1> DEFINE P == {k \in 0..n : Partials(c)[k] = p * Partials(a)[k] + Partials(b)[k]}
<1>2. 0 \in P
  <2>1. 0 \in 0..n /\ p * 0 + 0 = 0
    BY <1>0
  <2>. QED
    BY <1>1, <2>1
<1>3. ASSUME NEW k \in 1..n, k - 1 \in P PROVE k \in P
  <2>1. k - 1 \in Nat /\ k - 1 \in 0..n /\ k \in 0..n
    BY <1>0
  <2>2. PICK w \in Int : w = Weight(k - 1)
    BY <2>1, WeightNat
  <2>3. PICK x \in Int : x = Partials(a)[k - 1]
    BY <1>1, <2>1
  <2>4. PICK y \in Int : y = Partials(b)[k - 1]
    BY <1>1, <2>1
  <2>5. PICK u \in Int : u = a[k]
    BY <1>0
  <2>6. PICK v \in Int : v = b[k]
    BY <1>0
  <2>7. Partials(c)[k - 1] = p * x + y /\ c[k] = p * u + v
    BY <1>3, <2>3, <2>4, <2>5, <2>6
  <2>8. Partials(c)[k] = (p * x + y) + (p * u + v) * w
    BY <1>1, <2>2, <2>7
  <2>9. Partials(a)[k] = x + u * w /\ Partials(b)[k] = y + v * w
    BY <1>1, <2>2, <2>3, <2>4, <2>5, <2>6
  <2>10. (p * x + y) + (p * u + v) * w = p * (x + u * w) + (y + v * w)
    <3>1. (p * u + v) * w = p * (u * w) + v * w /\ p * (x + u * w) = p * x + p * (u * w)
      OBVIOUS
    <3>2. p * (u * w) \in Int /\ v * w \in Int /\ p * x \in Int
      OBVIOUS
    <3>. QED
      BY <3>1, <3>2
  <2>. QED
    BY <2>1, <2>8, <2>9, <2>10
<1>4. n \in P
  <2>. HIDE DEF P
  <2>1. 0..n \subseteq P
    BY <1>0, <1>2, <1>3, UpInduction
  <2>. QED
    BY <1>0, <2>1
<1>. QED
  BY <1>4, MagIs

LEMMA ZerosAre ==
  ASSUME NEW n \in Nat
  PROVE  /\ Zeros(n) \in Seq(Limb) /\ Zeros(n) \in Seq(Int) /\ Len(Zeros(n)) = n /\ Mag(Zeros(n)) = 0
         /\ \A k \in 1..n : Zeros(n)[k] = 0
<1>1. 0 \in Limb
  BY BaseIs DEF Limb
<1>2. Zeros(n) \in [1..n -> Limb] /\ \A k \in 1..n : Zeros(n)[k] = 0
  BY <1>1 DEF Zeros
<1>3. Zeros(n) \in Seq(Limb) /\ Len(Zeros(n)) = n
  BY <1>2
<1>4. Zeros(n) \in Seq(Int)
  BY <1>3, LimbsAre
<1>5. Mag(Zeros(n)) = 0
  <2>1. 0 \in 0..n /\ \A k \in 0 + 1..n : Zeros(n)[k] = 0
    BY <1>2
  <2>. QED
    BY <1>3, <1>4, <2>1, ZerosAbove, PartialsAre
<1>. QED
  BY <1>2, <1>3, <1>4, <1>5

LEMMA Scaled ==
  ASSUME NEW a \in Seq(Int), NEW c \in Seq(Int), NEW p \in Int,
         Len(a) = Len(c), \A k \in 1..Len(c) : c[k] = a[k] * p
  PROVE  Mag(c) = Mag(a) * p
<1>1. Len(c) \in Nat
  OBVIOUS
<1>2. PICK b \in Seq(Int) : Len(b) = Len(c) /\ Mag(b) = 0 /\ \A k \in 1..Len(c) : b[k] = 0
  BY <1>1, ZerosAre
<1>3. \A k \in 1..Len(c) : c[k] = p * a[k] + b[k]
  <2> SUFFICES ASSUME NEW k \in 1..Len(c) PROVE c[k] = p * a[k] + b[k]
    OBVIOUS
  <2>1. PICK u \in Int : u = a[k]
    OBVIOUS
  <2>2. b[k] = 0 /\ c[k] = u * p
    BY <1>2, <2>1
  <2>3. u * p = p * u + 0
    OBVIOUS
  <2>. QED
    BY <2>1, <2>2, <2>3
<1>4. Mag(c) = p * Mag(a) + 0
  BY <1>2, <1>3, Linear
<1>5. Mag(a) \in Int
  BY MagIs
<1>. QED
  BY <1>4, <1>5

(* The limbs of a number, with zeros above.                                *)
Extended(x, n) == [k \in 1..n |-> limb(x, k)]
LEMMA ExtendedIs ==
  ASSUME NEW x \in Bigs, NEW n \in Nat, Len(x.d) <= n
  PROVE  /\ Extended(x, n) \in Seq(Limb) /\ Extended(x, n) \in Seq(Int) /\ Len(Extended(x, n)) = n
         /\ Mag(Extended(x, n)) = Mag(x.d) /\ \A k \in 1..n : Extended(x, n)[k] = limb(x, k)
<1> DEFINE e == Extended(x, n)
           m == Len(x.d)
<1>1. \A k \in 1..n : limb(x, k) \in Limb
  BY LimbIs
<1>2. e \in [1..n -> Limb] /\ \A k \in 1..n : e[k] = limb(x, k)
  BY <1>1 DEF Extended
<1>. HIDE DEF e
<1>3. e \in Seq(Limb) /\ Len(e) = n
  BY <1>2
<1>4. e \in Seq(Int) /\ x.d \in Seq(Int) /\ m \in Nat
  BY <1>3, LimbsAre, BigIs
<1>5. \A k \in 1..m : e[k] = x.d[k]
  <2>1. \A k \in 1..m : k \in 1..n /\ k \in Nat \ {0} /\ k <= Len(x.d)
    BY <1>4
  <2>. QED
    BY <1>2, <2>1, LimbIs
<1>6. \A k \in m + 1..n : e[k] = 0
  <2>1. \A k \in m + 1..n : k \in 1..n /\ k \in Nat \ {0} /\ k > Len(x.d)
    BY <1>4
  <2>. QED
    BY <1>2, <2>1, LimbIs
<1>7. Mag(e) = Partials(e)[m]
  <2>1. m \in 0..Len(e)
    BY <1>3, <1>4
  <2>. QED
    BY <1>3, <1>4, <1>6, <2>1, ZerosAbove
<1>8. Partials(e)[m] = Partials(x.d)[m]
  <2>1. m <= Len(e) /\ m <= Len(x.d)
    BY <1>3, <1>4
  <2>. QED
    BY <1>4, <1>5, <2>1, PartialsAgree
<1>. QED
  BY <1>2, <1>3, <1>4, <1>7, <1>8, MagIs DEF e

(* A number of more limbs is larger.                                       *)
LEMMA MoreLimbs ==
  ASSUME NEW x \in Bigs, NEW y \in Bigs, Mag(y.d) <= Mag(x.d)
  PROVE  Len(y.d) <= Len(x.d)
<1>0. /\ Len(x.d) \in Nat /\ Len(y.d) \in Nat /\ Mag(x.d) \in Nat /\ Mag(y.d) \in Nat
      /\ Mag(x.d) < Weight(Len(x.d)) /\ Weight(Len(x.d)) \in Nat
  BY BigIs, WeightIs
<1> SUFFICES ASSUME Len(x.d) < Len(y.d) PROVE FALSE
  BY <1>0
<1>1. y.d # <<>>
  BY <1>0
<1>2. PICK n \in Nat : \E l \in 1..Base - 1, low \in 0..Weight(n) - 1 :
            Len(y.d) = n + 1 /\ y.d[n + 1] = l /\ Last(y.d) = l /\ Mag(y.d) = low + l * Weight(n)
  BY <1>1, TopLimb
<1>3. PICK l \in 1..Base - 1, low \in 0..Weight(n) - 1 : Len(y.d) = n + 1 /\ Mag(y.d) = low + l * Weight(n)
  BY <1>2
<1>4. PICK w \in Nat : w = Weight(n)
  BY WeightNat
<1>5. w <= Mag(y.d)
  <2>1. l * w = w + (l - 1) * w /\ (l - 1) * w \in Nat /\ l * w \in Nat
    BY BaseIs
  <2>2. PICK t \in Nat : t = (l - 1) * w
    BY <2>1
  <2>3. low \in Nat
    BY WeightNat
  <2>4. Mag(y.d) = low + (w + t)
    BY <1>3, <1>4, <2>1, <2>2
  <2>. QED
    BY <2>3, <2>4
<1>6. Weight(Len(x.d)) <= w
  <2>1. Len(x.d) <= n
    BY <1>0, <1>3
  <2>2. CASE Len(x.d) = n
    BY <1>4, <2>2
  <2>3. CASE Len(x.d) < n
    <3>1. Power(Base, Len(x.d)) < Power(Base, n)
      BY <1>0, <2>3, BaseIs, PowerGrows
    <3>. QED
      BY <1>0, <1>4, <3>1 DEF Weight
  <2>. QED
    BY <1>0, <2>1, <2>2, <2>3
<1>. QED
  BY <1>0, <1>4, <1>5, <1>6

LEMMA AddMagIs ==
  ASSUME NEW x \in Bigs, NEW y \in Bigs
  PROVE  add_mag(x, y) \in Bigs /\ ~add_mag(x, y).neg /\ Mag(add_mag(x, y).d) = Mag(x.d) + Mag(y.d)
<1> DEFINE n == IF Len(x.d) > Len(y.d) THEN Len(x.d) ELSE Len(y.d)
           a == Extended(x, n)
           b == Extended(y, n)
           cols == [k \in 1..n |-> limb(x, k) + limb(y, k)]
<1>0. Len(x.d) \in Nat /\ Len(y.d) \in Nat
  BY BigIs
<1>1. n \in Nat /\ Len(x.d) <= n /\ Len(y.d) <= n /\ (n = Len(x.d) \/ n = Len(y.d))
  BY <1>0
<1>2. add_mag(x, y) = Big(FALSE, Written(cols))
  BY DEF add_mag
<1>. HIDE DEF n
<1>3. /\ a \in Seq(Int) /\ Len(a) = n /\ Mag(a) = Mag(x.d) /\ \A k \in 1..n : a[k] = limb(x, k)
      /\ b \in Seq(Int) /\ Len(b) = n /\ Mag(b) = Mag(y.d) /\ \A k \in 1..n : b[k] = limb(y, k)
  BY <1>1, ExtendedIs
<1>4. \A k \in 1..n : k \in Nat \ {0} /\ limb(x, k) \in 0..Base - 1 /\ limb(y, k) \in 0..Base - 1
  BY <1>1, LimbIs
<1>5. \A k \in 1..n : limb(x, k) + limb(y, k) \in Column
  <2> SUFFICES ASSUME NEW k \in 1..n PROVE limb(x, k) + limb(y, k) \in Column
    OBVIOUS
  <2>1. PICK B \in Nat : B = Base /\ B > 1
    BY BaseIs
  <2>2. PICK u, v \in 0..B - 1 : u = limb(x, k) /\ v = limb(y, k)
    BY <1>4, <2>1
  <2>3. B * (B - 1) = 2 * (B - 1) + (B - 2) * (B - 1) /\ (B - 2) * (B - 1) \in Nat
    BY <2>1
  <2>4. u + v \in 0..B * (B - 1)
    BY <2>3
  <2>. QED
    BY <2>1, <2>2, <2>4 DEF Column
<1>6. cols \in [1..n -> Column] /\ \A k \in 1..n : cols[k] = limb(x, k) + limb(y, k)
  BY <1>5
<1>. HIDE DEF cols
<1>7. cols \in Seq(Column) /\ Len(cols) = n
  BY <1>1, <1>6
<1>8. cols \in Seq(Int)
  BY <1>7, ColumnsAre
<1>9. Mag(cols) = Mag(x.d) + Mag(y.d)
  <2>1. \A k \in 1..Len(cols) : cols[k] = 1 * a[k] + b[k]
    <3>1. \A k \in 1..n : a[k] \in Int /\ b[k] \in Int
      BY <1>3
    <3>. QED
      BY <1>3, <1>6, <1>7, <3>1
  <2>2. Mag(cols) = 1 * Mag(a) + Mag(b)
    <3>1. a \in Seq(Int) /\ b \in Seq(Int) /\ cols \in Seq(Int) /\ 1 \in Int
          /\ Len(a) = Len(cols) /\ Len(b) = Len(cols)
      BY <1>3, <1>7, <1>8
    <3>. HIDE DEF a, b
    <3>. QED
      BY <2>1, <3>1, Linear
  <2>3. Mag(x.d) \in Int
    BY BigIs
  <2>. QED
    BY <1>3, <2>2, <2>3
<1>10. cols # <<>> => cols[n] # 0
  <2>1. SUFFICES ASSUME cols # <<>> PROVE cols[n] # 0
    OBVIOUS
  <2>2. n \in 1..n /\ n \in Nat \ {0}
    BY <1>1, <1>7, <2>1
  <2>3. n = Len(x.d) => limb(x, n) # 0
    <3>1. n = Len(x.d) => x.d # <<>> /\ limb(x, n) = x.d[n]
      BY <2>2, LimbIs
    <3>. QED
      BY <3>1, BigIs
  <2>4. n = Len(y.d) => limb(y, n) # 0
    <3>1. n = Len(y.d) => y.d # <<>> /\ limb(y, n) = y.d[n]
      BY <2>2, LimbIs
    <3>. QED
      BY <3>1, BigIs
  <2>5. limb(x, n) \in Nat /\ limb(y, n) \in Nat
    BY <2>2, LimbIs
  <2>. QED
    BY <1>1, <1>6, <2>2, <2>3, <2>4, <2>5
<1>11. /\ Written(cols) \in Seq(Limb) /\ Mag(Written(cols)) = Mag(cols)
       /\ Written(cols) # <<>> => Written(cols)[Len(Written(cols))] # 0
  BY <1>7, <1>10, WrittenIs
<1>12. Big(FALSE, Written(cols)) \in Bigs /\ Big(FALSE, Written(cols)).d = Written(cols)
       /\ Big(FALSE, Written(cols)).neg = FALSE
  BY <1>11, MadeBig
<1>. QED
  BY <1>2, <1>9, <1>11, <1>12

BorrowAt(u, x, y, k) == IF k = 0 THEN 0 ELSE IF x.d[k] - limb(y, k) - u[k - 1] < 0 THEN 1 ELSE 0

LEMMA BorrowsAre ==
  ASSUME NEW x \in Bigs, NEW y \in Bigs
  PROVE  /\ Borrows(x, y) \in [0..Len(x.d) -> {0, 1}] /\ Borrows(x, y)[0] = 0
         /\ \A k \in 1..Len(x.d) :
               Borrows(x, y)[k] = IF x.d[k] - limb(y, k) - Borrows(x, y)[k - 1] < 0 THEN 1 ELSE 0
<1> DEFINE n == Len(x.d)
           E == [z \in (1..n) \X {0, 1} |-> IF x.d[z[1]] - limb(y, z[1]) - z[2] < 0 THEN 1 ELSE 0]
           Fits(u) == u = [k \in 0..n |-> BorrowAt(u, x, y, k)]
           chosen == CHOOSE u : Fits(u)
<1>0. n \in Nat /\ 0 \in {0, 1}
  BY BigIs
<1>1. E \in [(1..n) \X {0, 1} -> {0, 1}]
      /\ \A k \in 1..n, c \in {0, 1} : E[<<k, c>>] = IF x.d[k] - limb(y, k) - c < 0 THEN 1 ELSE 0
  <2>. HIDE DEF n
  <2>3. \A k \in 1..n, c \in {0, 1} : <<k, c>> \in (1..n) \X {0, 1} /\ <<k, c>>[1] = k /\ <<k, c>>[2] = c
    OBVIOUS
  <2>4. E \in [(1..n) \X {0, 1} -> {0, 1}]
    OBVIOUS
  <2>5. \A k \in 1..n, c \in {0, 1} : E[<<k, c>>] = IF x.d[k] - limb(y, k) - c < 0 THEN 1 ELSE 0
    BY <2>3
  <2>. QED
    BY <2>4, <2>5
<1>2. \E u : Fits(u)
  <2>. HIDE DEF E
  <2>1. PICK f : Loops(f, {0, 1}, 0, E, n)
    BY <1>0, <1>1, LoopExists
  <2>2. f \in [0..n -> {0, 1}] /\ f[0] = 0 /\ \A k \in 1..n : f[k] = E[<<k, f[k - 1]>>]
    BY <2>1 DEF Loops
  <2>3. \A k \in 1..n : f[k - 1] \in {0, 1}
    <3>1. \A k \in 1..n : k - 1 \in 0..n
      BY <1>0
    <3>. QED
      BY <2>2, <3>1
  <2>4. \A k \in 1..n : f[k] = IF x.d[k] - limb(y, k) - f[k - 1] < 0 THEN 1 ELSE 0
    BY <1>1, <2>2, <2>3
  <2>5. \A k \in 0..n : f[k] = BorrowAt(f, x, y, k)
    BY <2>2, <2>4 DEF BorrowAt
  <2>. QED
    BY <2>2, <2>5
<1>3. Fits(chosen)
  BY <1>2
<1>4. Borrows(x, y) = chosen
  BY DEF Borrows, BorrowAt
<1>. HIDE DEF chosen
<1>5. chosen[0] = 0 /\ \A k \in 1..n : chosen[k] = IF x.d[k] - limb(y, k) - chosen[k - 1] < 0 THEN 1 ELSE 0
  <2>1. \A k \in 0..n : chosen[k] = BorrowAt(chosen, x, y, k)
    BY <1>3
  <2>2. 0 \in 0..n /\ \A k \in 1..n : k \in 0..n /\ k # 0
    BY <1>0
  <2>3. chosen[0] = 0
    BY <2>1, <2>2 DEF BorrowAt
  <2>4. ASSUME NEW k \in 1..n
        PROVE  chosen[k] = IF x.d[k] - limb(y, k) - chosen[k - 1] < 0 THEN 1 ELSE 0
    BY <2>1, <2>2 DEF BorrowAt
  <2>. QED
    BY <2>3, <2>4
<1>6. \A k \in 0..n : chosen[k] \in {0, 1}
  BY <1>0, <1>5
<1>7. chosen \in [0..n -> {0, 1}]
  BY <1>3, <1>6
<1>. QED
  BY <1>4, <1>5, <1>7

(* Whatever is subtracted, the result is a number; it is the difference    *)
(* when that is one.                                                       *)
LEMMA SubMagIs ==
  ASSUME NEW x \in Bigs, NEW y \in Bigs
  PROVE  /\ sub_mag(x, y) \in Bigs /\ ~sub_mag(x, y).neg /\ Len(sub_mag(x, y).d) <= Len(x.d)
         /\ Mag(y.d) <= Mag(x.d) => Mag(sub_mag(x, y).d) = Mag(x.d) - Mag(y.d)
<1> DEFINE n == Len(x.d)
           e == [k \in DOMAIN x.d |-> (x.d[k] - limb(y, k) - Borrows(x, y)[k - 1]) % Base]
<1>0. n \in Nat /\ DOMAIN x.d = 1..n /\ x.d \in Seq(Limb) /\ x.d \in Seq(Int)
  BY BigIs, LimbsAre
<1>1. PICK b \in [0..n -> {0, 1}] : b = Borrows(x, y)
  BY BorrowsAre
<1>2. b[0] = 0 /\ \A k \in 1..n : b[k] = IF x.d[k] - limb(y, k) - b[k - 1] < 0 THEN 1 ELSE 0
  BY <1>1, BorrowsAre
<1>3. ASSUME NEW k \in 1..n
      PROVE  /\ k - 1 \in 0..n /\ k \in 0..n /\ b[k - 1] \in Nat /\ b[k] \in Nat /\ limb(y, k) \in Nat
             /\ x.d[k] \in Nat /\ (x.d[k] - limb(y, k) - b[k - 1]) % Base \in Limb
             /\ x.d[k] - limb(y, k) - b[k - 1] + Base * b[k] = (x.d[k] - limb(y, k) - b[k - 1]) % Base
  <2>1. k - 1 \in 0..n /\ k \in 0..n /\ k \in Nat \ {0}
    BY <1>0
  <2>2. PICK c \in {0, 1} : c = b[k - 1]
    BY <2>1
  <2>3. PICK B \in Nat \ {0} : B = Base /\ B > 1
    BY BaseIs
  <2>4. PICK u \in 0..B - 1 : u = x.d[k]
    BY <1>0, <2>3, LimbsAre DEF Limb
  <2>5. PICK v \in 0..B - 1 : v = limb(y, k)
    BY <2>1, <2>3, LimbIs
  <2>6. PICK t \in {0, 1} : t = b[k] /\ t = IF u - v - c < 0 THEN 1 ELSE 0
    BY <1>2, <2>1, <2>2, <2>4, <2>5
  <2>7. u - v - c + B * t \in 0..B - 1
    BY <2>3, <2>6
  <2>8. PICK r \in 0..B - 1 : r = u - v - c + B * t
    BY <2>7
  <2>9. u - v - c \in Int /\ -t \in Int /\ u - v - c = B * (-t) + r
    BY <2>6, <2>8
  <2>10. (u - v - c) % B = r
    BY <2>9, DivIs
  <2>11. r \in Limb
    BY <2>3, <2>8 DEF Limb
  <2>12. x.d[k] - limb(y, k) - b[k - 1] = u - v - c
    BY <2>2, <2>4, <2>5
  <2>13. (x.d[k] - limb(y, k) - b[k - 1]) % Base = r
    BY <2>3, <2>10, <2>12
  <2>14. u - v - c + B * t = x.d[k] - limb(y, k) - b[k - 1] + Base * b[k]
    BY <2>3, <2>6, <2>12
  <2>15. b[k - 1] \in Nat /\ b[k] \in Nat /\ limb(y, k) \in Nat /\ x.d[k] \in Nat
    BY <2>2, <2>4, <2>5, <2>6
  <2>. QED
    BY <2>1, <2>8, <2>11, <2>13, <2>14, <2>15
<1>4. e \in [1..n -> Limb] /\ \A k \in 1..n : e[k] = (x.d[k] - limb(y, k) - b[k - 1]) % Base
  BY <1>0, <1>1, <1>3
<1>5. e \in Seq(Limb) /\ Len(e) = n
  BY <1>0, <1>4
<1>6. sub_mag(x, y) = normalize(Big(FALSE, e))
  BY DEF sub_mag, Lent
<1>. HIDE DEF e
<1>7. /\ sub_mag(x, y) \in Bigs /\ ~sub_mag(x, y).neg /\ Len(sub_mag(x, y).d) <= Len(x.d)
      /\ Mag(sub_mag(x, y).d) = Mag(e)
  BY <1>5, <1>6, NormalizeIs
<1>8. ASSUME Mag(y.d) <= Mag(x.d) PROVE Mag(e) = Mag(x.d) - Mag(y.d)
  <2> DEFINE a == Extended(y, n)
  <2>1. Len(y.d) <= n
    BY <1>8, MoreLimbs
  <2>2. a \in Seq(Int) /\ Len(a) = n /\ Mag(a) = Mag(y.d) /\ \A k \in 1..n : a[k] = limb(y, k)
    BY <1>0, <2>1, ExtendedIs
  <2>. HIDE DEF a
  <2>3. e \in Seq(Int)
    BY <1>5, LimbsAre
  <2>4. /\ Partials(x.d) \in [0..n -> Int] /\ Partials(e) \in [0..n -> Int] /\ Partials(a) \in [0..n -> Int]
        /\ Partials(x.d)[0] = 0 /\ Partials(e)[0] = 0 /\ Partials(a)[0] = 0
        /\ \A k \in 1..n : Partials(x.d)[k] = Partials(x.d)[k - 1] + x.d[k] * Weight(k - 1)
        /\ \A k \in 1..n : Partials(e)[k] = Partials(e)[k - 1] + e[k] * Weight(k - 1)
        /\ \A k \in 1..n : Partials(a)[k] = Partials(a)[k - 1] + a[k] * Weight(k - 1)
    BY <1>0, <1>5, <2>2, <2>3, PartialsAre
  <2> DEFINE P == {k \in 0..n : Partials(e)[k] = Partials(x.d)[k] - Partials(a)[k] + b[k] * Weight(k)}
  <2>5. 0 \in P
    <3>1. 0 \in 0..n /\ 0 * Weight(0) = 0
      BY <1>0, WeightIs
    <3>. QED
      BY <1>2, <2>4, <3>1
  <2>6. ASSUME NEW k \in 1..n, k - 1 \in P PROVE k \in P
    <3>1. k - 1 \in Nat /\ (k - 1) + 1 = k /\ k \in 0..n /\ k - 1 \in 0..n
      BY <1>0
    <3>2. PICK w \in Nat : w = Weight(k - 1) /\ Weight(k) = Base * w
      BY <3>1, WeightIs
    <3>3. PICK B \in Nat : B = Base
      BY BaseIs
    <3>4. PICK u \in Nat : u = x.d[k]
      BY <1>3
    <3>5. PICK v \in Nat : v = limb(y, k) /\ a[k] = v
      BY <1>3, <2>2
    <3>6. PICK c \in Nat : c = b[k - 1]
      BY <1>3
    <3>7. PICK t \in Nat : t = b[k]
      BY <1>3
    <3>8. e[k] = u - v - c + B * t
      <4>1. x.d[k] - limb(y, k) - b[k - 1] + Base * b[k] = (x.d[k] - limb(y, k) - b[k - 1]) % Base
        BY <1>3
      <4>. QED
        BY <1>4, <3>3, <3>4, <3>5, <3>6, <3>7, <4>1
    <3>9. PICK p \in Int : p = Partials(x.d)[k - 1]
      BY <2>4, <3>1
    <3>10. PICK q \in Int : q = Partials(a)[k - 1]
      BY <2>4, <3>1
    <3>11. Partials(e)[k - 1] = p - q + c * w
      BY <2>6, <3>2, <3>6, <3>9, <3>10
    <3>12. Partials(e)[k] = (p - q + c * w) + (u - v - c + B * t) * w
      BY <2>4, <3>2, <3>8, <3>11
    <3>13. Partials(x.d)[k] = p + u * w /\ Partials(a)[k] = q + v * w
      BY <2>4, <3>2, <3>4, <3>5, <3>9, <3>10
    <3>14. (p - q + c * w) + (u - v - c + B * t) * w = (p + u * w) - (q + v * w) + t * (B * w)
      <4>1. (u - v - c + B * t) * w = u * w - v * w - c * w + t * (B * w)
        OBVIOUS
      <4>2. u * w \in Int /\ v * w \in Int /\ c * w \in Int /\ t * (B * w) \in Int
        OBVIOUS
      <4>. QED
        BY <4>1, <4>2
    <3>. QED
      BY <3>1, <3>2, <3>3, <3>7, <3>12, <3>13, <3>14
  <2>7. n \in P
    <3>. HIDE DEF P
    <3>1. 0..n \subseteq P
      BY <1>0, <2>5, <2>6, UpInduction
    <3>. QED
      BY <1>0, <3>1
  <2>8. Mag(e) = Mag(x.d) - Mag(y.d) + b[n] * Weight(n)
    BY <1>0, <1>5, <2>2, <2>3, <2>7, MagIs
  <2>9. Mag(e) < Weight(n) /\ Mag(e) \in Nat /\ Mag(x.d) \in Nat /\ Mag(y.d) \in Nat /\ Weight(n) \in Nat
    BY <1>0, <1>5, MagBelow, BigIs, WeightIs
  <2>10. b[n] = 0 \/ b[n] = 1
    <3>1. n \in 0..n
      BY <1>0
    <3>. QED
      BY <3>1
  <2>. QED
    BY <1>8, <2>8, <2>9, <2>10
<1>. QED
  BY <1>7, <1>8

-----------------------------------------------------------------------------
(* Signs.                                                                  *)
LEMMA NegIs ==
  ASSUME NEW x \in Bigs
  PROVE  neg_(x) \in Bigs /\ IntOf(neg_(x)) = -IntOf(x) /\ neg_(x).d = x.d
<1>1. x.neg \in BOOLEAN /\ x.d \in Seq(Limb) /\ Mag(x.d) \in Nat /\ (x.d # <<>> => x.d[Len(x.d)] \in 1..Base - 1)
      /\ (x.d = <<>> => ~x.neg) /\ <<>> \in Seq(Limb)
  BY BigIs
<1>2. (x.neg => IntOf(x) = -Mag(x.d)) /\ (~x.neg => IntOf(x) = Mag(x.d)) /\ (is_zero(x) => IntOf(x) = 0)
  BY IntOfIs
<1>3. CASE x.d = <<>>
  <2>1. neg_(x) = Big(FALSE, <<>>)
    BY <1>3 DEF neg_, is_zero, zero
  <2>2. Big(FALSE, <<>>) \in Bigs /\ Big(FALSE, <<>>).d = <<>> /\ IntOf(Big(FALSE, <<>>)) = Mag(<<>>)
    BY <1>1, MadeBig
  <2>3. Mag(x.d) = 0 /\ ~x.neg /\ Mag(<<>>) = 0
    <3>1. <<>> \in Seq(Int) /\ Len(<<>>) = 0
      OBVIOUS
    <3>. QED
      BY <1>1, <1>3, <3>1, BitLenOf, MagIs, PartialsAre
  <2>4. IntOf(x) = 0 /\ IntOf(neg_(x)) = 0
    BY <1>2, <2>1, <2>2, <2>3
  <2>5. neg_(x) \in Bigs /\ neg_(x).d = x.d
    BY <1>3, <2>1, <2>2
  <2>6. IntOf(neg_(x)) = -IntOf(x)
    <3>1. PICK z \in Int : z = IntOf(x)
      BY <2>4
    <3>2. z <= 0 /\ z >= 0
      BY <2>4, <3>1
    <3>3. -z = z
      BY <3>2
    <3>. QED
      BY <2>4, <3>1, <3>3
  <2>. QED
    BY <2>5, <2>6
<1>4. CASE x.d # <<>>
  <2>1. PICK s \in BOOLEAN : s = ~x.neg
    OBVIOUS
  <2>2. neg_(x) = Big(s, x.d)
    BY <1>4, <2>1 DEF neg_, is_zero
  <2>3. x.d[Len(x.d)] # 0
    BY <1>1, <1>4
  <2>4. Big(s, x.d) \in Bigs /\ Big(s, x.d).d = x.d /\ IntOf(Big(s, x.d)) = IF s THEN -Mag(x.d) ELSE Mag(x.d)
    BY <1>1, <1>4, <2>3, MadeBig
  <2>5. (IF s THEN -Mag(x.d) ELSE Mag(x.d)) = -IntOf(x)
    <3>1. CASE x.neg
      <4>1. ~s /\ IntOf(x) = -Mag(x.d)
        BY <1>2, <2>1, <3>1
      <4>. QED
        BY <1>1, <4>1
    <3>2. CASE ~x.neg
      <4>1. s /\ IntOf(x) = Mag(x.d)
        BY <1>2, <2>1, <3>2
      <4>. QED
        BY <1>1, <4>1
    <3>. QED
      BY <3>1, <3>2
  <2>. QED
    BY <2>2, <2>4, <2>5
<1>. QED
  BY <1>3, <1>4

LEMMA AbsIs ==
  ASSUME NEW x \in Bigs
  PROVE  abs(x) \in Bigs /\ IntOf(abs(x)) = Mag(x.d) /\ ~abs(x).neg /\ abs(x).d = x.d
<1>1. x.d \in Seq(Limb) /\ (x.d # <<>> => x.d[Len(x.d)] # 0)
  BY BigIs
<1>2. Big(FALSE, x.d) \in Bigs /\ Big(FALSE, x.d).d = x.d /\ Big(FALSE, x.d).neg = FALSE
      /\ IntOf(Big(FALSE, x.d)) = Mag(x.d)
  BY <1>1, MadeBig
<1>. QED
  BY <1>2 DEF abs

LEMMA SignedIs ==
  ASSUME NEW neg \in BOOLEAN, NEW m \in Bigs
  PROVE  Signed(neg, m) \in Bigs /\ IntOf(Signed(neg, m)) = (IF neg THEN -Mag(m.d) ELSE Mag(m.d))
<1>1. m.d \in Seq(Limb) /\ Mag(m.d) \in Nat /\ (m.d # <<>> => m.d[Len(m.d)] # 0) /\ (m.d = <<>> => Mag(m.d) = 0)
  BY BigIs, BitLenOf
<1>2. PICK s \in BOOLEAN : s = (neg /\ m.d # <<>>)
  OBVIOUS
<1>3. Signed(neg, m) = Big(s, m.d)
  BY <1>2 DEF Signed, is_zero
<1>4. m.d = <<>> => ~s
  BY <1>2
<1>5. Big(s, m.d) \in Bigs /\ IntOf(Big(s, m.d)) = IF s THEN -Mag(m.d) ELSE Mag(m.d)
  BY <1>1, <1>4, MadeBig
<1>6. (IF s THEN -Mag(m.d) ELSE Mag(m.d)) = IF neg THEN -Mag(m.d) ELSE Mag(m.d)
  BY <1>1, <1>2
<1>. QED
  BY <1>3, <1>5, <1>6

(* The sum of numbers of any sign.                                         *)
LEMMA AddIs ==
  ASSUME NEW x \in Bigs, NEW y \in Bigs
  PROVE  add(x, y) \in Bigs /\ IntOf(add(x, y)) = IntOf(x) + IntOf(y)
<1>1. PICK a \in Nat : a = Mag(x.d)
  BY BigIs
<1>2. PICK b \in Nat : b = Mag(y.d)
  BY BigIs
<1>3. PICK s \in BOOLEAN : s = x.neg
  BY BigIs
<1>4. PICK t \in BOOLEAN : t = y.neg
  BY BigIs
<1>5. IntOf(x) = (IF s THEN -a ELSE a) /\ IntOf(y) = (IF t THEN -b ELSE b)
  BY <1>1, <1>2, <1>3, <1>4 DEF IntOf
<1>6. cmp_mag(x, y) >= 0 <=> b <= a
  <2>1. cmp_mag(x, y) = Cmp(a, b)
    BY <1>1, <1>2, CmpMagIs
  <2>. QED
    BY <2>1 DEF Cmp
<1>7. CASE s = t
  <2>1. add(x, y) = Signed(s, add_mag(x, y))
    BY <1>3, <1>4, <1>7 DEF add
  <2>2. add_mag(x, y) \in Bigs /\ Mag(add_mag(x, y).d) = a + b
    BY <1>1, <1>2, AddMagIs
  <2>3. add(x, y) \in Bigs /\ IntOf(add(x, y)) = IF s THEN -(a + b) ELSE a + b
    BY <2>1, <2>2, SignedIs
  <2>. QED
    BY <1>5, <1>7, <2>3
<1>8. CASE s # t /\ b <= a
  <2>1. add(x, y) = Signed(s, sub_mag(x, y))
    BY <1>3, <1>4, <1>6, <1>8 DEF add
  <2>2. sub_mag(x, y) \in Bigs /\ Mag(sub_mag(x, y).d) = a - b
    BY <1>1, <1>2, <1>8, SubMagIs
  <2>3. add(x, y) \in Bigs /\ IntOf(add(x, y)) = IF s THEN -(a - b) ELSE a - b
    BY <2>1, <2>2, SignedIs
  <2>. QED
    BY <1>5, <1>8, <2>3
<1>9. CASE s # t /\ ~(b <= a)
  <2>1. add(x, y) = Signed(t, sub_mag(y, x))
    BY <1>3, <1>4, <1>6, <1>9 DEF add
  <2>2. sub_mag(y, x) \in Bigs /\ Mag(sub_mag(y, x).d) = b - a
    BY <1>1, <1>2, <1>9, SubMagIs
  <2>3. add(x, y) \in Bigs /\ IntOf(add(x, y)) = IF t THEN -(b - a) ELSE b - a
    BY <2>1, <2>2, SignedIs
  <2>. QED
    BY <1>5, <1>9, <2>3
<1>. QED
  BY <1>7, <1>8, <1>9

LEMMA SubIs ==
  ASSUME NEW x \in Bigs, NEW y \in Bigs
  PROVE  sub(x, y) \in Bigs /\ IntOf(sub(x, y)) = IntOf(x) - IntOf(y)
<1>1. neg_(y) \in Bigs /\ IntOf(neg_(y)) = -IntOf(y)
  BY NegIs
<1>2. add(x, neg_(y)) \in Bigs /\ IntOf(add(x, neg_(y))) = IntOf(x) + (-IntOf(y))
  BY <1>1, AddIs
<1>3. IntOf(x) \in Int /\ IntOf(y) \in Int
  BY IntOfIs
<1>. QED
  BY <1>2, <1>3 DEF sub

-----------------------------------------------------------------------------
(* Machine ints.                                                           *)
LEMMA IntSize ==
  /\ IntBits \in Nat /\ IntBits - 1 \in Nat /\ Power(2, IntBits - 1) \in Nat \ {0}
  /\ Power(2, IntBits) = Base * Base /\ 2 * Power(2, IntBits - 1) = Base * Base
  /\ Weight(2) = Base * Base
<1>1. LimbBits \in Nat \ {0}
  BY WidthAssumption
<1>2. IntBits \in Nat /\ IntBits - 1 \in Nat /\ IntBits = LimbBits + LimbBits /\ (IntBits - 1) + 1 = IntBits
  BY <1>1 DEF IntBits
<1>3. Power(2, IntBits - 1) \in Nat \ {0}
  BY <1>2, PowerNat
<1>4. Power(2, LimbBits + LimbBits) = Power(2, LimbBits) * Power(2, LimbBits)
  BY <1>1, PowerAdd
<1>5. Power(2, IntBits) = 2 * Power(2, IntBits - 1)
  BY <1>2, PowerNext
<1>6. Weight(2) = Base * Base
  <2>1. 1 \in Nat /\ 1 + 1 = 2
    OBVIOUS
  <2>. QED
    BY <2>1, WeightIs
<1>. QED
  BY <1>2, <1>3, <1>4, <1>5, <1>6 DEF Base

LEMMA ShortMags ==
  /\ Mag(<<>>) = 0 /\ \A a \in Int : Mag(<<a>>) = a
  /\ \A a, b \in Int : Mag(<<a, b>>) = a + b * Base
<1>1. <<>> \in Seq(Int) /\ Len(<<>>) = 0
  OBVIOUS
<1>2. Mag(<<>>) = 0
  BY <1>1, MagIs, PartialsAre
<1>3. ASSUME NEW a \in Int PROVE Mag(<<a>>) = a
  <2>1. Append(<<>>, a) = <<a>>
    OBVIOUS
  <2>2. Mag(Append(<<>>, a)) = 0 + a * Weight(0)
    BY <1>1, <1>2, MagAppend
  <2>. QED
    BY <2>1, <2>2, WeightIs
<1>4. ASSUME NEW a \in Int, NEW b \in Int PROVE Mag(<<a, b>>) = a + b * Base
  <2> DEFINE t == <<a, b>>
  <2>1. t \in Seq(Int) /\ Len(t) = 2 /\ t[1] = a /\ t[2] = b
    OBVIOUS
  <2>. HIDE DEF t
  <2>2. /\ Mag(t) = Partials(t)[2] /\ Partials(t)[0] = 0
        /\ Partials(t)[1] = Partials(t)[1 - 1] + t[1] * Weight(1 - 1)
        /\ Partials(t)[2] = Partials(t)[2 - 1] + t[2] * Weight(2 - 1)
    <3>1. /\ Partials(t)[0] = 0
          /\ \A k \in 1..2 : Partials(t)[k] = Partials(t)[k - 1] + t[k] * Weight(k - 1)
      BY <2>1, PartialsAre
    <3>2. 1 \in 1..2 /\ 2 \in 1..2
      OBVIOUS
    <3>3. Mag(t) = Partials(t)[2]
      BY <2>1, MagIs
    <3>. QED
      BY <3>1, <3>2, <3>3
  <2>3. 1 - 1 = 0 /\ 2 - 1 = 1
    OBVIOUS
  <2>4. PICK B \in Nat : B = Base
    BY BaseIs
  <2>5. Partials(t)[1] = 0 + a * 1 /\ Mag(t) = Partials(t)[1] + b * B
    BY <2>1, <2>2, <2>3, <2>4, WeightIs
  <2>6. Mag(t) = a + b * B
    BY <2>5
  <2>. QED
    BY <2>4, <2>6 DEF t
<1>. QED
  BY <1>2, <1>3, <1>4

LEMMA ZeroIs == zero \in Bigs /\ IntOf(zero) = 0 /\ is_zero(zero) /\ zero.d = <<>> /\ Mag(zero.d) = 0 /\ ~zero.neg
<1>1. <<>> \in Seq(Limb)
  OBVIOUS
<1>2. Big(FALSE, <<>>) \in Bigs /\ Big(FALSE, <<>>).d = <<>> /\ Big(FALSE, <<>>).neg = FALSE
      /\ IntOf(Big(FALSE, <<>>)) = Mag(<<>>)
  BY <1>1, MadeBig
<1>. QED
  BY <1>2, ShortMags DEF zero, is_zero

LEMMA FromU64 ==
  ASSUME NEW n \in Nat, n < Base * Base
  PROVE  from_u64(n) \in Bigs /\ IntOf(from_u64(n)) = n /\ ~from_u64(n).neg /\ Mag(from_u64(n).d) = n
<1>1. PICK B \in Nat \ {0} : B = Base /\ B > 1
  BY BaseIs
<1>0. n \div B \in Int /\ n % B \in 0..B - 1 /\ n = B * (n \div B) + (n % B)
  <2>1. n \in Int
    OBVIOUS
  <2>. QED
    BY <2>1, DivMod
<1>2. PICK q \in Int : q = n \div B
  BY <1>0
<1>3. PICK r \in 0..B - 1 : r = n % B
  BY <1>0
<1>4. n = B * q + r
  BY <1>0, <1>2, <1>3
<1>5. q \in 0..B - 1
  <2>1. B * q < B * B
    <3>1. B * q \in Int /\ B * B \in Int /\ n < B * B
      BY <1>1
    <3>. QED
      BY <1>4, <3>1
  <2>2. q < B
    <3>1. B \in Int
      OBVIOUS
    <3>. QED
      BY <2>1, <3>1, Less
  <2>3. ~(q < 0)
    <3>1. SUFFICES ASSUME q < 0 PROVE FALSE
      OBVIOUS
    <3>2. 0 \in Int /\ B * 0 = 0 /\ B * q \in Int
      OBVIOUS
    <3>3. B * q + B <= 0
      BY <3>1, <3>2, Less
    <3>. QED
      BY <1>4, <3>2, <3>3
  <2>. QED
    BY <2>2, <2>3
<1>6. CASE n = 0
  BY <1>6, ZeroIs DEF from_u64
<1>7. CASE n # 0 /\ q = 0
  <2>1. from_u64(n) = Big(FALSE, <<r>>)
    BY <1>1, <1>2, <1>3, <1>7 DEF from_u64
  <2>2. <<r>> \in Seq(Limb) /\ Len(<<r>>) = 1 /\ <<r>>[1] = r /\ <<r>> # <<>>
    BY <1>1 DEF Limb
  <2>3. r = n
    BY <1>4, <1>7
  <2>4. Mag(<<r>>) = r
    BY ShortMags
  <2>. QED
    BY <1>7, <2>1, <2>2, <2>3, <2>4, MadeBig
<1>8. CASE n # 0 /\ q # 0
  <2>1. from_u64(n) = Big(FALSE, <<r, q>>)
    BY <1>1, <1>2, <1>3, <1>8 DEF from_u64
  <2>2. <<r, q>> \in Seq(Limb) /\ Len(<<r, q>>) = 2 /\ <<r, q>>[2] = q /\ <<r, q>> # <<>>
    BY <1>1, <1>5 DEF Limb
  <2>3. Mag(<<r, q>>) = r + q * B
    BY <1>1, ShortMags
  <2>4. r + q * B = n
    BY <1>4
  <2>. QED
    BY <1>8, <2>1, <2>2, <2>3, <2>4, MadeBig
<1>. QED
  BY <1>6, <1>7, <1>8

LEMMA FromI64 ==
  ASSUME NEW n \in Int, n < Base * Base, -n < Base * Base
  PROVE  from_i64(n) \in Bigs /\ IntOf(from_i64(n)) = n
<1>1. CASE n >= 0
  <2>1. n \in Nat
    BY <1>1
  <2>. QED
    BY <1>1, <2>1, FromU64 DEF from_i64
<1>2. CASE ~(n >= 0)
  <2>1. PICK m \in Nat : m = -n /\ m < Base * Base
    BY <1>2
  <2>2. from_u64(m) \in Bigs /\ IntOf(from_u64(m)) = m
    BY <2>1, FromU64
  <2>3. neg_(from_u64(m)) \in Bigs /\ IntOf(neg_(from_u64(m))) = -m
    BY <2>2, NegIs
  <2>4. from_i64(n) = neg_(from_u64(m))
    BY <1>2, <2>1 DEF from_i64
  <2>. QED
    BY <2>1, <2>3, <2>4
<1>. QED
  BY <1>1, <1>2

LEMMA OneIs == one \in Bigs /\ IntOf(one) = 1 /\ ~one.neg /\ Mag(one.d) = 1
<1>1. 1 \in Nat /\ 1 < Base * Base
  <2>1. PICK B \in Nat : B = Base /\ B > 1
    BY BaseIs
  <2>2. B * B = B + (B - 1) * B /\ (B - 1) * B \in Nat
    BY <2>1
  <2>. QED
    BY <2>1, <2>2
<1>. QED
  BY <1>1, FromU64 DEF one

-----------------------------------------------------------------------------
(* Limbs moved up.                                                         *)
LEMMA WeightAdd == \A m, n \in Nat : Weight(m + n) = Weight(m) * Weight(n)
<1>1. Base \in Int
  BY BaseIs
<1>. QED
  BY <1>1, PowerAdd DEF Weight

LEMMA MovedUp ==
  ASSUME NEW q \in Nat, NEW d \in Seq(Int), NEW c \in Seq(Int), Len(c) = q + Len(d),
         \A k \in 1..q : c[k] = 0, \A k \in 1..Len(d) : c[q + k] = d[k]
  PROVE  Mag(c) = Weight(q) * Mag(d)
<1> DEFINE n == Len(d)
           P == {k \in 0..n : Partials(c)[q + k] = Weight(q) * Partials(d)[k]}
<1>0. n \in Nat /\ Len(c) \in Nat
  OBVIOUS
<1>1. /\ Partials(c) \in [0..Len(c) -> Int] /\ Partials(d) \in [0..n -> Int]
      /\ Partials(c)[0] = 0 /\ Partials(d)[0] = 0
      /\ \A k \in 1..Len(c) : Partials(c)[k] = Partials(c)[k - 1] + c[k] * Weight(k - 1)
      /\ \A k \in 1..n : Partials(d)[k] = Partials(d)[k - 1] + d[k] * Weight(k - 1)
  BY PartialsAre
<1>2. 0 \in P
  <2> DEFINE Q == {k \in 0..q : Partials(c)[k] = 0}
  <2>1. 0 \in Q
    BY <1>1
  <2>2. ASSUME NEW k \in 1..q, k - 1 \in Q PROVE k \in Q
    <3>1. k \in 1..Len(c) /\ k \in 0..q /\ k - 1 \in Nat
      BY <1>0
    <3>2. PICK w \in Int : w = Weight(k - 1)
      BY <3>1, WeightNat
    <3>3. Partials(c)[k] = Partials(c)[k - 1] + c[k] * Weight(k - 1)
      BY <1>1, <3>1
    <3>4. Partials(c)[k - 1] = 0 /\ c[k] = 0
      BY <2>2
    <3>5. Partials(c)[k] = 0 + 0 * w
      BY <3>2, <3>3, <3>4, Zenon
    <3>6. 0 + 0 * w = 0
      OBVIOUS
    <3>. QED
      BY <3>1, <3>5, <3>6
  <2>3. q \in Q
    <3>. HIDE DEF Q
    <3>1. 0..q \subseteq Q
      BY <2>1, <2>2, UpInduction
    <3>. QED
      BY <3>1
  <2>4. Partials(c)[q] = 0 /\ q + 0 = q /\ 0 \in 0..n
    BY <1>0, <2>3
  <2>5. Weight(q) * 0 = 0
    BY WeightIs
  <2>. QED
    BY <1>1, <2>4, <2>5
<1>3. ASSUME NEW k \in 1..n, k - 1 \in P PROVE k \in P
  <2>1. /\ k - 1 \in Nat /\ q + k \in 1..Len(c) /\ (q + k) - 1 = q + (k - 1) /\ k \in 0..n /\ k - 1 \in 0..n
    BY <1>0
  <2>2. PICK v \in Int : v = Weight(q)
    BY WeightNat
  <2>3. PICK w \in Int : w = Weight(k - 1)
    BY <2>1, WeightNat
  <2>4. Weight(q + (k - 1)) = v * w
    BY <2>1, <2>2, <2>3, WeightAdd
  <2>5. PICK a \in Int : a = d[k]
    OBVIOUS
  <2>6. PICK p \in Int : p = Partials(d)[k - 1]
    BY <1>1, <2>1
  <2>7. Partials(c)[q + k] = v * p + a * (v * w)
    BY <1>1, <1>3, <2>1, <2>2, <2>4, <2>5, <2>6
  <2>8. Partials(d)[k] = p + a * w
    BY <1>1, <2>3, <2>5, <2>6
  <2>9. v * p + a * (v * w) = v * (p + a * w)
    OBVIOUS
  <2>. QED
    BY <2>1, <2>2, <2>7, <2>8, <2>9
<1>4. n \in P
  <2>. HIDE DEF P
  <2>1. 0..n \subseteq P
    BY <1>0, <1>2, <1>3, UpInduction
  <2>. QED
    BY <1>0, <2>1
<1>. QED
  BY <1>4, MagIs

(* A factor below Base.                                                    *)
LEMMA TimesIs ==
  ASSUME NEW x \in Bigs, ~is_zero(x), NEW m \in 1..Base - 1
  PROVE  LET e == Written([k \in DOMAIN x.d |-> x.d[k] * m])
         IN  e \in Seq(Limb) /\ Mag(e) = Mag(x.d) * m /\ e # <<>> /\ e[Len(e)] # 0
<1> DEFINE n == Len(x.d)
           c == [k \in DOMAIN x.d |-> x.d[k] * m]
<1>0. n \in Nat \ {0} /\ x.d # <<>> /\ x.d[n] # 0 /\ x.d \in Seq(Int) /\ DOMAIN x.d = 1..n
      /\ \A k \in 1..n : x.d[k] \in Limb /\ x.d[k] \in Nat
  BY BigIs, LimbsAre DEF is_zero
<1>1. \A k \in 1..n : x.d[k] * m \in Column
  <2> SUFFICES ASSUME NEW k \in 1..n PROVE x.d[k] * m \in Column
    OBVIOUS
  <2>1. PICK B \in Nat : B = Base /\ B > 1
    BY BaseIs
  <2>2. PICK u \in 0..B - 1 : u = x.d[k]
    BY <1>0, <2>1 DEF Limb
  <2>3. B - 1 - u \in Nat /\ B - m \in Nat
    BY <2>1
  <2>4. B * (B - 1) = u * m + (B - 1 - u) * m + (B - 1) * (B - m)
    OBVIOUS
  <2>5. u * m \in Nat /\ (B - 1 - u) * m \in Nat /\ (B - 1) * (B - m) \in Nat /\ B * (B - 1) \in Nat
    BY <2>1, <2>3
  <2>6. u * m \in 0..B * (B - 1)
    BY <2>4, <2>5
  <2>. QED
    BY <2>1, <2>2, <2>6 DEF Column
<1>2. c \in [1..n -> Column] /\ \A k \in 1..n : c[k] = x.d[k] * m
  BY <1>0, <1>1
<1>. HIDE DEF c
<1>3. c \in Seq(Column) /\ Len(c) = n
  <2>. HIDE DEF n
  <2>. QED
    BY <1>0, <1>2
<1>4. c \in Seq(Int) /\ m \in Int
  BY <1>3, ColumnsAre, BaseIs
<1>5. Mag(c) = Mag(x.d) * m
  <2>1. Len(x.d) = Len(c) /\ \A k \in 1..Len(c) : c[k] = x.d[k] * m
    BY <1>2, <1>3
  <2>. QED
    BY <1>0, <1>4, <2>1, Scaled
<1>6. c # <<>> /\ c[n] # 0
  <2>1. PICK u \in Nat \ {0} : u = x.d[n]
    BY <1>0
  <2>2. m \in Nat \ {0}
    BY BaseIs
  <2>3. u * m # 0
    BY <2>2
  <2>4. n \in 1..n
    BY <1>0
  <2>6. c[n] = u * m
    BY <1>2, <2>1, <2>4, Zenon
  <2>5. c # <<>>
    BY <1>0, <1>3
  <2>. QED
    BY <2>3, <2>5, <2>6, Zenon
<1>7. /\ Written(c) \in Seq(Limb) /\ Mag(Written(c)) = Mag(c)
      /\ Written(c) # <<>> /\ Written(c)[Len(Written(c))] # 0
  BY <1>3, <1>6, WrittenIs
<1>. QED
  BY <1>5, <1>7 DEF c

LEMMA MulU32Is ==
  ASSUME NEW x \in Bigs, NEW m \in Limb
  PROVE  mul_u32(x, m) \in Bigs /\ IntOf(mul_u32(x, m)) = IntOf(x) * m /\ (~x.neg => ~mul_u32(x, m).neg)
<1>0. m \in Nat /\ IntOf(x) \in Int /\ x.neg \in BOOLEAN /\ (is_zero(x) => IntOf(x) = 0)
  BY BaseIs, IntOfIs, BigIs DEF Limb
<1>1. CASE is_zero(x) \/ m = 0
  <2>1. mul_u32(x, m) = zero
    BY <1>1 DEF mul_u32
  <2>2. PICK a \in Int : a = IntOf(x)
    BY <1>0
  <2>3. a * m = 0
    <3>1. a = 0 \/ m = 0
      BY <1>0, <1>1, <2>2
    <3>. QED
      BY <1>0, <3>1
  <2>. QED
    BY <2>1, <2>2, <2>3, ZeroIs
<1>2. CASE ~is_zero(x) /\ m # 0
  <2> DEFINE e == Written([k \in DOMAIN x.d |-> x.d[k] * m])
  <2>1. m \in 1..Base - 1
    BY <1>0, <1>2, BaseIs DEF Limb
  <2>2. e \in Seq(Limb) /\ Mag(e) = Mag(x.d) * m /\ e # <<>> /\ e[Len(e)] # 0
    BY <1>2, <2>1, TimesIs
  <2>3. mul_u32(x, m) = Big(x.neg, e)
    BY <1>2 DEF mul_u32
  <2>. HIDE DEF e
  <2>4. /\ Big(x.neg, e) \in Bigs /\ IntOf(Big(x.neg, e)) = (IF x.neg THEN -Mag(e) ELSE Mag(e))
        /\ Big(x.neg, e).neg = x.neg
    BY <1>0, <2>2, MadeBig
  <2>5. (IF x.neg THEN -Mag(e) ELSE Mag(e)) = IntOf(x) * m
    <3>1. PICK a \in Nat : a = Mag(x.d)
      BY BigIs
    <3>2. (-a) * m = -(a * m)
      BY <1>0
    <3>3. x.neg => IntOf(x) = -a
      BY <3>1, IntOfIs
    <3>4. ~x.neg => IntOf(x) = a
      BY <3>1, IntOfIs
    <3>. QED
      BY <2>2, <3>1, <3>2, <3>3, <3>4
  <2>. QED
    BY <2>3, <2>4, <2>5
<1>. QED
  BY <1>1, <1>2

(* Bits moved up.                                                          *)
LEMMA BitsSplit ==
  ASSUME NEW bits \in Nat
  PROVE  /\ bits \div LimbBits \in Nat /\ bits % LimbBits \in 0..LimbBits - 1
         /\ Power(2, bits % LimbBits) \in 1..Base - 1
         /\ Power(2, bits) = Weight(bits \div LimbBits) * Power(2, bits % LimbBits)
<1>1. PICK L \in Nat \ {0} : L = LimbBits
  BY WidthAssumption
<1>2. bits \div L \in Int /\ bits % L \in 0..L - 1 /\ bits = L * (bits \div L) + (bits % L)
  <2>1. bits \in Int
    OBVIOUS
  <2>. QED
    BY <2>1, DivMod
<1>3. PICK q \in Int : q = bits \div L
  BY <1>2
<1>4. PICK r \in 0..L - 1 : r = bits % L
  BY <1>2
<1>5. bits = L * q + r
  BY <1>2, <1>3, <1>4
<1>6. q \in Nat
  <2>1. ~(q < 0)
    <3>1. SUFFICES ASSUME q < 0 PROVE FALSE
      OBVIOUS
    <3>2. 0 \in Int /\ L * 0 = 0 /\ L * q \in Int
      OBVIOUS
    <3>3. L * q + L <= 0
      BY <3>1, <3>2, Less
    <3>. QED
      BY <1>5, <3>2, <3>3
  <2>. QED
    BY <2>1
<1>7. L * q \in Nat /\ r \in Nat
  BY <1>6
<1>8. Power(2, bits) = Power(2, L * q) * Power(2, r)
  <2>1. 2 \in Int
    OBVIOUS
  <2>2. Power(2, L * q + r) = Power(2, L * q) * Power(2, r)
    BY <1>7, <2>1, PowerAdd
  <2>. QED
    BY <1>5, <2>2
<1>9. Weight(q) = Power(2, L * q)
  BY <1>1, <1>6, WeightBits
<1>10. Power(2, r) \in 1..Base - 1
  <2>1. Power(2, r) \in Nat \ {0}
    BY <1>7, PowerNat
  <2>2. Power(2, r) < Power(2, L)
    <3>1. 2 \in Nat /\ 2 > 1 /\ L \in Nat /\ r < L
      BY <1>4
    <3>. QED
      BY <1>7, <3>1, PowerGrows
  <2>3. Power(2, L) = Base /\ Base \in Nat
    BY <1>1, BaseIs DEF Base
  <2>. QED
    BY <2>1, <2>2, <2>3
<1>. QED
  BY <1>1, <1>3, <1>4, <1>6, <1>8, <1>9, <1>10

LEMMA ShlIs ==
  ASSUME NEW x \in Bigs, NEW bits \in Nat
  PROVE  /\ shl(x, bits) \in Bigs /\ IntOf(shl(x, bits)) = IntOf(x) * Power(2, bits)
         /\ shl(x, bits).neg = x.neg
<1>0. x.neg \in BOOLEAN /\ IntOf(x) \in Int /\ Power(2, bits) \in Nat \ {0} /\ (is_zero(x) => IntOf(x) = 0)
  BY BigIs, IntOfIs, PowerNat
<1>1. CASE is_zero(x) \/ bits = 0
  <2>1. shl(x, bits) = x
    BY <1>1 DEF shl
  <2>2. PICK a \in Int : a = IntOf(x)
    BY <1>0
  <2>3. PICK p \in Nat : p = Power(2, bits)
    BY <1>0
  <2>4. a * p = a
    <3>1. CASE a = 0
      BY <3>1
    <3>2. CASE bits = 0
      <4>1. p = 1
        BY <2>3, <3>2, PowerZero
      <4>. QED
        BY <4>1
    <3>. QED
      BY <1>0, <1>1, <2>2, <3>1, <3>2
  <2>. QED
    BY <2>1, <2>2, <2>3, <2>4
<1>2. CASE ~is_zero(x) /\ bits # 0
  <2>1. PICK q \in Nat : q = bits \div LimbBits
    BY BitsSplit
  <2>2. PICK m \in 1..Base - 1 : m = Power(2, bits % LimbBits)
    BY BitsSplit
  <2>3. Power(2, bits) = Weight(q) * m
    BY <2>1, <2>2, BitsSplit
  <2> DEFINE e == Written([k \in DOMAIN x.d |-> x.d[k] * m])
             z == Zeros(q)
             d == z \o e
  <2>4. e \in Seq(Limb) /\ Mag(e) = Mag(x.d) * m /\ e # <<>> /\ e[Len(e)] # 0
    BY <1>2, TimesIs
  <2>5. shl(x, bits) = Big(x.neg, d)
    BY <1>2, <2>1, <2>2 DEF shl
  <2>. HIDE DEF e
  <2>6. z \in Seq(Limb) /\ Len(z) = q /\ \A k \in 1..q : z[k] = 0
    BY ZerosAre
  <2>. HIDE DEF z
  <2>7. d \in Seq(Limb) /\ Len(d) = q + Len(e) /\ Len(e) \in Nat \ {0}
    BY <2>4, <2>6
  <2>8. (\A k \in 1..q : d[k] = 0) /\ \A k \in 1..Len(e) : d[q + k] = e[k]
    <3>1. \A k \in 1..q : d[k] = z[k]
      BY <2>4, <2>6
    <3>2. \A k \in 1..Len(e) : d[q + k] = e[k]
      BY <2>4, <2>6
    <3>. QED
      BY <2>6, <3>1, <3>2
  <2>. HIDE DEF d
  <2>9. d # <<>> /\ d[Len(d)] # 0
    <3>1. Len(e) \in 1..Len(e)
      BY <2>7
    <3>2. d[q + Len(e)] = e[Len(e)]
      BY <2>8, <3>1
    <3>3. Len(d) # 0
      BY <2>7
    <3>4. d # <<>>
      BY <3>3
    <3>. QED
      BY <2>4, <2>7, <3>2, <3>4
  <2>10. Mag(d) = Weight(q) * Mag(e)
    <3>1. d \in Seq(Int) /\ e \in Seq(Int)
      BY <2>4, <2>7, LimbsAre
    <3>. QED
      BY <2>7, <2>8, <3>1, MovedUp
  <2>11. /\ Big(x.neg, d) \in Bigs /\ IntOf(Big(x.neg, d)) = (IF x.neg THEN -Mag(d) ELSE Mag(d))
         /\ Big(x.neg, d).neg = x.neg
    BY <1>0, <2>7, <2>9, MadeBig
  <2>12. (IF x.neg THEN -Mag(d) ELSE Mag(d)) = IntOf(x) * Power(2, bits)
    <3>1. PICK a \in Nat : a = Mag(x.d)
      BY BigIs
    <3>2. PICK w \in Nat : w = Weight(q)
      BY WeightNat
    <3>3. PICK u \in Nat : u = m
      BY BaseIs
    <3>4. w * (a * u) = a * (w * u) /\ (-a) * (w * u) = -(w * (a * u))
      OBVIOUS
    <3>5. Mag(d) = w * (a * u) /\ Power(2, bits) = w * u
      BY <2>3, <2>4, <2>10, <3>1, <3>2, <3>3
    <3>6. x.neg => IntOf(x) = -a
      BY <3>1, IntOfIs
    <3>7. ~x.neg => IntOf(x) = a
      BY <3>1, IntOfIs
    <3>. QED
      BY <3>4, <3>5, <3>6, <3>7
  <2>. QED
    BY <2>5, <2>11, <2>12
<1>. QED
  BY <1>1, <1>2

-----------------------------------------------------------------------------
(* The limbs of y, from limb i of n limbs on.                              *)
Placed(y, n, i) == [k \in 1..n |-> IF k - i + 1 \in DOMAIN y.d THEN y.d[k - i + 1] ELSE 0]

LEMMA PlacedIs ==
  ASSUME NEW y \in Bigs, NEW n \in Nat, NEW i \in Nat \ {0}, i - 1 + Len(y.d) <= n
  PROVE  /\ Placed(y, n, i) \in Seq(Limb) /\ Placed(y, n, i) \in Seq(Int) /\ Len(Placed(y, n, i)) = n
         /\ Mag(Placed(y, n, i)) = Weight(i - 1) * Mag(y.d)
         /\ \A k \in 1..n : Placed(y, n, i)[k] = IF k - i + 1 \in DOMAIN y.d THEN y.d[k - i + 1] ELSE 0
<1> DEFINE p == Placed(y, n, i)
           m == Len(y.d)
           q == i - 1
           t == q + m
           c == SubSeq(p, 1, t)
<1>0. /\ m \in Nat /\ DOMAIN y.d = 1..m /\ y.d \in Seq(Int) /\ \A k \in 1..m : y.d[k] \in Limb
      /\ 0 \in Limb /\ q \in Nat /\ t \in Nat /\ t <= n
  BY BigIs, LimbsAre, BaseIs DEF Limb
<1>1. p \in [1..n -> Limb] /\ \A k \in 1..n : p[k] = IF k - i + 1 \in DOMAIN y.d THEN y.d[k - i + 1] ELSE 0
  BY <1>0 DEF Placed
<1>. HIDE DEF p
<1>2. p \in Seq(Limb) /\ Len(p) = n
  BY <1>1
<1>3. p \in Seq(Int)
  BY <1>2, LimbsAre
<1>4. \A k \in 1..q : p[k] = 0
  <2>1. \A k \in 1..q : k \in 1..n /\ ~(k - i + 1 \in 1..m)
    BY <1>0
  <2>. QED
    BY <1>0, <1>1, <2>1
<1>5. \A k \in 1..m : p[q + k] = y.d[k]
  <2> SUFFICES ASSUME NEW k \in 1..m PROVE p[q + k] = y.d[k]
    OBVIOUS
  <2>1. PICK j \in 1..n : j = q + k /\ j - i + 1 = k
    BY <1>0
  <2>2. p[j] = y.d[j - i + 1]
    BY <1>0, <1>1, <2>1
  <2>. QED
    BY <2>1, <2>2
<1>6. \A k \in t + 1..n : p[k] = 0
  <2>1. \A k \in t + 1..n : k \in 1..n /\ ~(k - i + 1 \in 1..m)
    BY <1>0
  <2>. QED
    BY <1>0, <1>1, <2>1
<1>. HIDE DEF m, q, t
<1>7. Mag(p) = Partials(p)[t]
  <2>1. t \in 0..Len(p)
    BY <1>0, <1>2
  <2>. QED
    BY <1>2, <1>3, <1>6, <2>1, ZerosAbove
<1>8. c \in Seq(Int) /\ Len(c) = t /\ \A k \in 1..t : c[k] = p[k]
  BY <1>0, <1>2, <1>3
<1>. HIDE DEF c
<1>9. Partials(p)[t] = Mag(c)
  <2>1. t <= Len(p) /\ t <= Len(c) /\ \A k \in 1..t : p[k] = c[k]
    BY <1>0, <1>2, <1>8
  <2>2. Partials(p)[t] = Partials(c)[t]
    BY <1>0, <1>3, <1>8, <2>1, PartialsAgree
  <2>. QED
    BY <1>8, <2>2, MagIs
<1>10. Mag(c) = Weight(q) * Mag(y.d)
  <2>1. Len(c) = q + Len(y.d)
    BY <1>8 DEF t, m
  <2>2. \A k \in 1..q : c[k] = 0
    <3>1. \A k \in 1..q : k \in 1..t
      BY <1>0 DEF t
    <3>. QED
      BY <1>4, <1>8, <3>1
  <2>3. \A k \in 1..Len(y.d) : c[q + k] = y.d[k]
    <3>1. \A k \in 1..m : q + k \in 1..t
      BY <1>0 DEF t
    <3>. QED
      BY <1>5, <1>8, <3>1 DEF m
  <2>. QED
    BY <1>0, <1>8, <2>1, <2>2, <2>3, MovedUp
<1>. QED
  BY <1>1, <1>2, <1>3, <1>7, <1>9, <1>10 DEF p, q

LEMMA LengthsAre ==
  ASSUME NEW x \in Bigs, NEW y \in Bigs
  PROVE  /\ Len(x.d) \in Nat /\ Len(y.d) \in Nat /\ Len(x.d) + Len(y.d) \in Nat
         /\ \A i \in 1..Len(x.d) : i \in Nat \ {0} /\ i - 1 \in Nat /\ i - 1 + Len(y.d) <= Len(x.d) + Len(y.d)
<1>1. PICK a \in Nat : a = Len(x.d)
  BY BigIs
<1>2. PICK b \in Nat : b = Len(y.d)
  BY BigIs
<1>3. a + b \in Nat /\ \A i \in 1..a : i \in Nat \ {0} /\ i - 1 \in Nat /\ i - 1 + b <= a + b
  OBVIOUS
<1>. QED
  BY <1>1, <1>2, <1>3

(* One row of the product.                                                 *)
LEMMA MulRowIs ==
  ASSUME NEW x \in Bigs, NEW y \in Bigs, NEW i \in 1..Len(x.d),
         NEW d \in Seq(Limb), Len(x.d) + Len(y.d) <= Len(d)
  PROVE  /\ MulRow(x, y, d, i) \in Seq(Limb) /\ Len(x.d) + Len(y.d) <= Len(MulRow(x, y, d, i))
         /\ Mag(MulRow(x, y, d, i)) = Mag(d) + (x.d[i] * Weight(i - 1)) * Mag(y.d)
<1> DEFINE n == Len(d)
           p == Placed(y, n, i)
           cols == [k \in DOMAIN d |-> d[k] + IF k - i + 1 \in DOMAIN y.d THEN x.d[i] * y.d[k - i + 1] ELSE 0]
<1>0. /\ n \in Nat /\ DOMAIN d = 1..n /\ d \in Seq(Int) /\ Len(x.d) \in Nat /\ Len(y.d) \in Nat
      /\ \A k \in 1..n : d[k] \in Limb
      /\ x.d[i] \in Limb /\ i \in Nat \ {0} /\ i - 1 + Len(y.d) <= n
  <2>1. Len(d) \in Nat /\ Len(x.d) \in Nat /\ Len(y.d) \in Nat
    BY LimbsAre, BigIs
  <2>2. i \in Nat \ {0} /\ i - 1 + Len(y.d) <= Len(d)
    <3>1. PICK s \in Nat : s = Len(x.d) + Len(y.d)
      BY LengthsAre
    <3>2. PICK v \in Nat : v = Len(y.d)
      BY LengthsAre
    <3>3. i \in Nat \ {0} /\ i - 1 + v <= s
      BY <3>1, <3>2, LengthsAre
    <3>4. s <= Len(d)
      BY <3>1
    <3>. QED
      BY <2>1, <3>2, <3>3, <3>4
  <2>3. x.d[i] \in Limb
    BY BigIs, LimbsAre
  <2>. QED
    BY <2>1, <2>2, <2>3, LimbsAre
<1>1. /\ p \in Seq(Limb) /\ p \in Seq(Int) /\ Len(p) = n /\ Mag(p) = Weight(i - 1) * Mag(y.d)
      /\ \A k \in 1..n : p[k] = IF k - i + 1 \in DOMAIN y.d THEN y.d[k - i + 1] ELSE 0
  BY <1>0, PlacedIs
<1>. HIDE DEF n, p
<1>2. \A k \in 1..n : p[k] \in Limb
  BY <1>1, LimbsAre
<1>3. PICK B \in Nat : B = Base /\ B > 1
  BY BaseIs
<1>4. PICK u \in 0..B - 1 : u = x.d[i]
  BY <1>0, <1>3 DEF Limb
<1>5. ASSUME NEW k \in 1..n
      PROVE  /\ (IF k - i + 1 \in DOMAIN y.d THEN x.d[i] * y.d[k - i + 1] ELSE 0) = u * p[k]
             /\ d[k] + u * p[k] \in Column
  <2>1. PICK v \in 0..B - 1 : v = p[k]
    BY <1>2, <1>3 DEF Limb
  <2>2. PICK w \in 0..B - 1 : w = d[k]
    BY <1>0, <1>3 DEF Limb
  <2>3. (IF k - i + 1 \in DOMAIN y.d THEN x.d[i] * y.d[k - i + 1] ELSE 0) = u * p[k]
    <3>1. CASE k - i + 1 \in DOMAIN y.d
      BY <1>1, <1>4, <3>1
    <3>2. CASE k - i + 1 \notin DOMAIN y.d
      <4>1. p[k] = 0 /\ u * 0 = 0
        BY <1>1, <3>2
      <4>. QED
        BY <3>2, <4>1
    <3>. QED
      BY <3>1, <3>2
  <2>4. w + u * v \in 0..B * (B - 1)
    <3>1. B - 1 - u \in Nat /\ B - 1 - v \in Nat /\ B - 1 - w \in Nat
      OBVIOUS
    <3>2. B * (B - 1) = (w + u * v) + (B - 1 - u) * v + (B - 1) * (B - 1 - v) + (B - 1 - w)
      OBVIOUS
    <3>3. u * v \in Nat /\ (B - 1 - u) * v \in Nat /\ (B - 1) * (B - 1 - v) \in Nat /\ B * (B - 1) \in Nat
      BY <1>3, <3>1
    <3>. QED
      BY <3>1, <3>2, <3>3
  <2>. QED
    BY <1>3, <2>1, <2>2, <2>3, <2>4 DEF Column
<1>6. cols \in [1..n -> Column] /\ \A k \in 1..n : cols[k] = d[k] + u * p[k]
  BY <1>0, <1>5
<1>7. MulRow(x, y, d, i) = Written(cols)
  BY DEF MulRow
<1>. HIDE DEF cols
<1>8. cols \in Seq(Column) /\ Len(cols) = n
  BY <1>0, <1>6
<1>9. cols \in Seq(Int)
  BY <1>8, ColumnsAre
<1>10. Mag(cols) = u * Mag(p) + Mag(d)
  <2>1. \A k \in 1..Len(cols) : cols[k] = u * p[k] + d[k]
    <3> SUFFICES ASSUME NEW k \in 1..n PROVE cols[k] = u * p[k] + d[k]
      BY <1>8
    <3>1. PICK v \in Int : v = p[k]
      BY <1>1
    <3>2. PICK w \in Int : w = d[k]
      BY <1>0
    <3>3. w + u * v = u * v + w
      OBVIOUS
    <3>. QED
      BY <1>6, <3>1, <3>2, <3>3
  <2>2. Len(p) = Len(cols) /\ Len(d) = Len(cols) /\ u \in Int
    BY <1>1, <1>8 DEF n
  <2>. QED
    BY <1>0, <1>1, <1>9, <2>1, <2>2, Linear
<1>11. Mag(cols) = Mag(d) + (x.d[i] * Weight(i - 1)) * Mag(y.d)
  <2>1. i - 1 \in Nat
    BY <1>0
  <2>2. PICK w \in Int : w = Weight(i - 1)
    BY <2>1, WeightNat
  <2>3. PICK m \in Int : m = Mag(y.d)
    BY BigIs
  <2>4. PICK a \in Int : a = Mag(d)
    BY <1>0, MagIs
  <2>5. u * (w * m) + a = a + (u * w) * m
    OBVIOUS
  <2>. QED
    BY <1>1, <1>4, <1>10, <2>2, <2>3, <2>4, <2>5
<1>12. Len(x.d) + Len(y.d) <= Len(Written(cols))
  <2>1. PICK l \in Nat : l = Len(Written(cols)) /\ n <= l
    BY <1>8, WrittenIs, <1>0
  <2>2. PICK s \in Nat : s = Len(x.d) + Len(y.d)
    BY LengthsAre
  <2>3. s <= n
    BY <2>2 DEF n
  <2>4. s <= l
    BY <1>0, <2>1, <2>3
  <2>. QED
    BY <2>1, <2>2, <2>4
<1>. QED
  BY <1>7, <1>8, <1>11, <1>12, WrittenIs

RowAt(u, x, y, i) == IF i = 0 THEN Zeros(Len(x.d) + Len(y.d)) ELSE MulRow(x, y, u[i - 1], i)

LEMMA RowsAre ==
  ASSUME NEW x \in Bigs, NEW y \in Bigs
  PROVE  /\ Rows(x, y)[0] = Zeros(Len(x.d) + Len(y.d))
         /\ \A i \in 1..Len(x.d) : Rows(x, y)[i] = MulRow(x, y, Rows(x, y)[i - 1], i)
         /\ \A i \in 0..Len(x.d) :
               Rows(x, y)[i] \in Seq(Limb) /\ Len(x.d) + Len(y.d) <= Len(Rows(x, y)[i])
<1> DEFINE n == Len(x.d)
           m == Len(x.d) + Len(y.d)
           V == {d \in Seq(Limb) : m <= Len(d)}
           E == [z \in (1..n) \X V |-> MulRow(x, y, z[2], z[1])]
           Fits(u) == u = [i \in 0..n |-> RowAt(u, x, y, i)]
           chosen == CHOOSE u : Fits(u)
<1>0. n \in Nat /\ m \in Nat
  BY LengthsAre
<1>1. Zeros(m) \in V
  <2>1. PICK s \in Nat : s = m
    BY <1>0
  <2>2. Zeros(s) \in Seq(Limb) /\ Len(Zeros(s)) = s
    BY ZerosAre
  <2>3. s <= Len(Zeros(s))
    BY <2>2
  <2>. QED
    BY <2>1, <2>2, <2>3
<1>2. \A i \in 1..n, d \in V : MulRow(x, y, d, i) \in V
  BY MulRowIs
<1>3. E \in [(1..n) \X V -> V] /\ \A i \in 1..n, d \in V : E[<<i, d>>] = MulRow(x, y, d, i)
  <2>1. \A z \in (1..n) \X V : z[1] \in 1..n /\ z[2] \in V
    OBVIOUS
  <2>2. \A i \in 1..n, d \in V : <<i, d>> \in (1..n) \X V /\ <<i, d>>[1] = i /\ <<i, d>>[2] = d
    OBVIOUS
  <2>. HIDE DEF n, m, V
  <2>3. E \in [(1..n) \X V -> V]
    BY <1>2, <2>1
  <2>4. \A i \in 1..n, d \in V : E[<<i, d>>] = MulRow(x, y, d, i)
    BY <2>2
  <2>. QED
    BY <2>3, <2>4
<1>4. \E u : Fits(u)
  <2>. HIDE DEF E, V, n
  <2>1. PICK f : Loops(f, V, Zeros(m), E, n)
    BY <1>0, <1>1, <1>3, LoopExists
  <2>2. f \in [0..n -> V] /\ f[0] = Zeros(m) /\ \A i \in 1..n : f[i] = E[<<i, f[i - 1]>>]
    BY <2>1 DEF Loops
  <2>3. \A i \in 1..n : f[i - 1] \in V
    <3>1. \A i \in 1..n : i - 1 \in 0..n
      BY <1>0
    <3>. QED
      BY <2>2, <3>1
  <2>4. \A i \in 1..n : f[i] = MulRow(x, y, f[i - 1], i)
    BY <1>3, <2>2, <2>3
  <2>5. \A i \in 0..n : f[i] = RowAt(f, x, y, i)
    <3> SUFFICES ASSUME NEW i \in 0..n PROVE f[i] = RowAt(f, x, y, i)
      OBVIOUS
    <3>1. CASE i = 0
      BY <2>2, <3>1 DEF RowAt
    <3>2. CASE i # 0
      <4>1. i \in 1..n
        BY <1>0, <3>2
      <4>. QED
        BY <2>4, <3>2, <4>1 DEF RowAt
    <3>. QED
      BY <3>1, <3>2
  <2>. QED
    BY <2>2, <2>5
<1>5. Fits(chosen)
  BY <1>4
<1>6. Rows(x, y) = chosen
  BY DEF Rows, RowAt
<1>. HIDE DEF chosen
<1>7. chosen[0] = Zeros(m) /\ \A i \in 1..n : chosen[i] = MulRow(x, y, chosen[i - 1], i)
  BY <1>0, <1>5 DEF RowAt
<1>8. \A i \in 0..n : chosen[i] \in V
  <2>. HIDE DEF V
  <2>1. \A i \in 1..n : chosen[i - 1] \in V => chosen[i] \in V
    BY <1>2, <1>7
  <2>. QED
    BY <1>0, <1>1, <1>7, <2>1, LoopTyped
<1>. QED
  BY <1>6, <1>7, <1>8

(* Schoolbook multiplication.                                              *)
LEMMA MulIs ==
  ASSUME NEW x \in Bigs, NEW y \in Bigs
  PROVE  mul(x, y) \in Bigs /\ IntOf(mul(x, y)) = IntOf(x) * IntOf(y)
<1>0. IntOf(x) \in Int /\ IntOf(y) \in Int
  BY IntOfIs
<1>1. CASE is_zero(x) \/ is_zero(y)
  <2>1. mul(x, y) = zero
    BY <1>1 DEF mul
  <2>2. PICK a \in Int : a = IntOf(x)
    BY <1>0
  <2>3. PICK b \in Int : b = IntOf(y)
    BY <1>0
  <2>4. a = 0 \/ b = 0
    BY <1>1, <2>2, <2>3, IntOfIs
  <2>5. a * b = 0
    BY <2>4
  <2>. QED
    BY <2>1, <2>2, <2>3, <2>5, ZeroIs
<1>2. CASE ~is_zero(x) /\ ~is_zero(y)
  <2> DEFINE n == Len(x.d)
             r == Rows(x, y)
             b == Mag(y.d)
             P == {i \in 0..n : Mag(r[i]) = Partials(x.d)[i] * b}
  <2>1. n \in Nat /\ b \in Nat /\ x.d \in Seq(Int) /\ x.d \in Seq(Limb) /\ Len(y.d) \in Nat
    BY BigIs
  <2>2. /\ r[0] = Zeros(Len(x.d) + Len(y.d))
        /\ \A i \in 1..n : r[i] = MulRow(x, y, r[i - 1], i)
        /\ \A i \in 0..n : r[i] \in Seq(Limb) /\ Len(x.d) + Len(y.d) <= Len(r[i])
    BY RowsAre
  <2>3. /\ Partials(x.d) \in [0..n -> Int] /\ Partials(x.d)[0] = 0
        /\ \A k \in 1..n : Partials(x.d)[k] = Partials(x.d)[k - 1] + x.d[k] * Weight(k - 1)
    BY <2>1, PartialsAre
  <2>. HIDE DEF r, b
  <2>4. 0 \in P
    <3>1. Mag(r[0]) = 0
      <4>1. Len(x.d) + Len(y.d) \in Nat
        BY LengthsAre
      <4>. QED
        BY <2>2, <4>1, ZerosAre
    <3>2. 0 \in 0..n /\ 0 * b = 0
      BY <2>1
    <3>. QED
      BY <2>3, <3>1, <3>2
  <2>5. ASSUME NEW i \in 1..n, i - 1 \in P PROVE i \in P
    <3>1. i - 1 \in 0..n /\ i \in 0..n /\ i - 1 \in Nat
      BY <2>1
    <3>2. r[i - 1] \in Seq(Limb) /\ Len(x.d) + Len(y.d) <= Len(r[i - 1])
      BY <2>2, <3>1
    <3>3. Mag(MulRow(x, y, r[i - 1], i)) = Mag(r[i - 1]) + (x.d[i] * Weight(i - 1)) * Mag(y.d)
      BY <3>2, MulRowIs
    <3>4. PICK p \in Int : p = Partials(x.d)[i - 1]
      BY <2>3, <3>1
    <3>5. PICK w \in Int : w = Weight(i - 1)
      BY <3>1, WeightNat
    <3>6. PICK u \in Int : u = x.d[i]
      BY <2>1
    <3>7. Mag(r[i]) = p * b + (u * w) * b
      BY <2>2, <2>5, <3>3, <3>4, <3>5, <3>6 DEF b
    <3>8. p * b + (u * w) * b = (p + u * w) * b
      BY <2>1
    <3>9. Partials(x.d)[i] = p + u * w
      BY <2>3, <3>4, <3>5, <3>6
    <3>. QED
      BY <3>1, <3>7, <3>8, <3>9
  <2>6. n \in P
    <3>. HIDE DEF P
    <3>1. 0..n \subseteq P
      BY <2>1, <2>4, <2>5, UpInduction
    <3>. QED
      BY <2>1, <3>1
  <2>7. Mag(r[n]) = Mag(x.d) * b
    BY <2>1, <2>6, MagIs
  <2>8. r[n] \in Seq(Limb)
    <3>1. n \in 0..n
      BY <2>1
    <3>. QED
      BY <2>2, <3>1
  <2>9. PICK s \in BOOLEAN : s = (x.neg # y.neg)
    OBVIOUS
  <2>10. mul(x, y) = normalize(Big(s, r[n]))
    BY <1>2, <2>9 DEF mul, r
  <2>11. mul(x, y) \in Bigs /\ IntOf(mul(x, y)) = IF s THEN -Mag(r[n]) ELSE Mag(r[n])
    BY <2>8, <2>10, NormalizeIs
  <2>12. (IF s THEN -Mag(r[n]) ELSE Mag(r[n])) = IntOf(x) * IntOf(y)
    <3>1. PICK a \in Nat : a = Mag(x.d)
      BY BigIs
    <3>2. PICK c \in Nat : c = b
      BY <2>1
    <3>3. x.neg \in BOOLEAN /\ y.neg \in BOOLEAN
      BY BigIs
    <3>4. (x.neg => IntOf(x) = -a) /\ (~x.neg => IntOf(x) = a) /\ (y.neg => IntOf(y) = -c) /\ (~y.neg => IntOf(y) = c)
      BY <3>1, <3>2, IntOfIs DEF b
    <3>5. (-a) * c = -(a * c) /\ a * (-c) = -(a * c) /\ (-a) * (-c) = a * c
      OBVIOUS
    <3>6. Mag(r[n]) = a * c
      BY <2>7, <3>1, <3>2
    <3>7. CASE x.neg /\ y.neg
      BY <2>9, <3>4, <3>5, <3>6, <3>7
    <3>8. CASE x.neg /\ ~y.neg
      BY <2>9, <3>3, <3>4, <3>5, <3>6, <3>8
    <3>9. CASE ~x.neg /\ y.neg
      BY <2>9, <3>3, <3>4, <3>5, <3>6, <3>9
    <3>10. CASE ~x.neg /\ ~y.neg
      BY <2>9, <3>3, <3>4, <3>5, <3>6, <3>10
    <3>. QED
      BY <3>3, <3>7, <3>8, <3>9, <3>10
  <2>. QED
    BY <2>11, <2>12
<1>. QED
  BY <1>1, <1>2

-----------------------------------------------------------------------------
(* Powers of two as divisors.                                              *)
LEMMA QuotNat ==
  ASSUME NEW a \in Nat, NEW b \in Nat \ {0}
  PROVE  a \div b \in Nat /\ a % b \in 0..b - 1 /\ a = b * (a \div b) + (a % b) /\ a \div b <= a
<1>1. a \div b \in Int /\ a % b \in 0..b - 1 /\ a = b * (a \div b) + (a % b)
  <2>1. a \in Int
    OBVIOUS
  <2>. QED
    BY <2>1, DivMod
<1>2. PICK q \in Int : q = a \div b
  BY <1>1
<1>3. PICK r \in 0..b - 1 : r = a % b
  BY <1>1
<1>4. a = b * q + r
  BY <1>1, <1>2, <1>3
<1>5. ~(q < 0)
  <2>1. SUFFICES ASSUME q < 0 PROVE FALSE
    OBVIOUS
  <2>2. 0 \in Int /\ b * 0 = 0 /\ b * q \in Int
    OBVIOUS
  <2>3. b * q + b <= 0
    BY <2>1, <2>2, Less
  <2>. QED
    BY <1>4, <2>2, <2>3
<1>6. q \in Nat
  BY <1>5
<1>7. q <= a
  <2>1. b * q = q + (b - 1) * q /\ (b - 1) * q \in Nat
    BY <1>6
  <2>. QED
    BY <1>4, <1>6, <2>1
<1>. QED
  BY <1>1, <1>2, <1>6, <1>7

LEMMA TwoAdd ==
  ASSUME NEW m \in Nat, NEW n \in Nat
  PROVE  Power(2, m + n) = Power(2, m) * Power(2, n)
<1>1. 2 \in Int
  OBVIOUS
<1>. QED
  BY <1>1, PowerAdd

LEMMA HalfOf ==
  ASSUME NEW n \in Nat, NEW i \in Nat
  PROVE  /\ Power(2, i) \in Nat \ {0} /\ n \div Power(2, i) \in Nat /\ n \div Power(2, i + 1) \in Nat
         /\ (n \div Power(2, i)) % 2 \in 0..1
         /\ n \div Power(2, i) = 2 * (n \div Power(2, i + 1)) + ((n \div Power(2, i)) % 2)
<1>1. PICK p \in Nat \ {0} : p = Power(2, i)
  BY PowerNat
<1>2. Power(2, i + 1) = 2 * p /\ 2 * p \in Nat \ {0}
  <2>1. 2 \in Int
    OBVIOUS
  <2>2. Power(2, i + 1) = 2 * Power(2, i)
    BY <2>1, PowerNext
  <2>. QED
    BY <1>1, <2>2
<1>3. PICK q \in Nat : q = n \div p
  BY <1>1, QuotNat
<1>4. PICK r \in 0..p - 1 : r = n % p
  BY <1>1, QuotNat
<1>5. n = p * q + r
  <2>1. n = p * (n \div p) + (n % p)
    BY ONLY QuotNat
  <2>. QED
    BY ONLY <1>3, <1>4, <2>1, Zenon
<1>6. PICK h \in Nat : h = q \div 2
  BY QuotNat
<1>7. q % 2 \in 0..1 /\ q = 2 * h + (q % 2)
  <2>1. 2 \in Nat \ {0} /\ 2 - 1 = 1
    OBVIOUS
  <2>. QED
    BY <1>6, <2>1, QuotNat
<1>8. PICK u \in 0..1 : u = q % 2
  BY <1>7
<1>9. q = 2 * h + u
  BY <1>7, <1>8
<1>10. n = (2 * p) * h + (p * u + r) /\ p * u + r \in 0..2 * p - 1
  <2>1. p * (2 * h + u) = (2 * p) * h + p * u /\ (2 * p) * h \in Nat /\ p * u \in Nat
    OBVIOUS
  <2>2. p * u <= p
    <3>1. u = 0 \/ u = 1
      OBVIOUS
    <3>. QED
      BY <3>1
  <2>. QED
    BY <1>5, <1>9, <2>1, <2>2
<1>11. n \div (2 * p) = h
  <2>1. n \in Int /\ h \in Int
    OBVIOUS
  <2>2. PICK w \in Nat \ {0} : w = 2 * p
    OBVIOUS
  <2>3. PICK t \in 0..w - 1 : t = p * u + r
    BY <1>10, <2>2
  <2>4. n = w * h + t
    BY <1>10, <2>2, <2>3
  <2>5. n \div w = h
    BY <2>1, <2>4, DivIs
  <2>. QED
    BY <2>2, <2>5
<1>. QED
  BY <1>1, <1>2, <1>3, <1>8, <1>9, <1>11

-----------------------------------------------------------------------------
(* The limbs above limb k.                                                 *)
LEMMA Above ==
  ASSUME NEW d \in Seq(Limb), NEW k \in 0..Len(d)
  PROVE  \E h \in Nat : Mag(d) = Partials(d)[k] + Weight(k) * h
<1> DEFINE n == Len(d)
           P == {j \in 0..n - k : \E h \in Nat : Partials(d)[k + j] = Partials(d)[k] + Weight(k) * h}
<1>0. n \in Nat /\ n - k \in Nat /\ d \in Seq(Int)
  BY LimbsAre
<1>1. /\ Partials(d) \in [0..n -> Int]
      /\ \A i \in 1..n : Partials(d)[i] = Partials(d)[i - 1] + d[i] * Weight(i - 1)
  BY <1>0, PartialsAre
<1>2. 0 \in P
  <2>1. k + 0 = k /\ 0 \in 0..n - k
    BY <1>0
  <2>2. PICK w \in Int : w = Weight(k)
    BY WeightNat
  <2>3. PICK p \in Int : p = Partials(d)[k]
    BY <1>1
  <2>4. p = p + w * 0
    OBVIOUS
  <2>5. 0 \in Nat /\ Partials(d)[k + 0] = Partials(d)[k] + Weight(k) * 0
    BY <2>1, <2>2, <2>3, <2>4
  <2>. QED
    BY <2>1, <2>5
<1>3. ASSUME NEW j \in 1..n - k, j - 1 \in P PROVE j \in P
  <2>1. /\ j \in 0..n - k /\ k + j \in 1..n /\ (k + j) - 1 = k + (j - 1) /\ j - 1 \in Nat /\ k \in Nat
    BY <1>0
  <2>2. PICK h \in Nat : Partials(d)[k + (j - 1)] = Partials(d)[k] + Weight(k) * h
    BY <1>3
  <2>3. PICK w \in Nat : w = Weight(k)
    BY <2>1, WeightNat
  <2>4. PICK v \in Nat : v = Weight(j - 1)
    BY <2>1, WeightNat
  <2>5. Weight(k + (j - 1)) = w * v
    BY <2>1, <2>3, <2>4, WeightAdd
  <2>6. PICK a \in Nat : a = d[k + j]
    BY <2>1, LimbsAre
  <2>7. PICK p \in Int : p = Partials(d)[k]
    BY <1>1
  <2>8. Partials(d)[k + j] = (p + w * h) + a * (w * v)
    BY <1>1, <2>1, <2>2, <2>3, <2>5, <2>6, <2>7
  <2>9. (p + w * h) + a * (w * v) = p + w * (h + a * v) /\ h + a * v \in Nat
    <3>1. w * (h + a * v) = w * h + a * (w * v) /\ a * v \in Nat
      OBVIOUS
    <3>2. w * h \in Int /\ a * (w * v) \in Int
      OBVIOUS
    <3>. QED
      BY <3>1, <3>2
  <2>10. PICK g \in Nat : g = h + a * v
    BY <2>9
  <2>11. Partials(d)[k + j] = Partials(d)[k] + Weight(k) * g
    BY <2>3, <2>7, <2>8, <2>9, <2>10
  <2>. QED
    BY <2>1, <2>11
<1>4. n - k \in P
  <2>. HIDE DEF P
  <2>1. 0..n - k \subseteq P
    BY <1>0, <1>2, <1>3, UpInduction
  <2>. QED
    BY <1>0, <2>1
<1>5. k + (n - k) = n
  BY <1>0
<1>. QED
  BY <1>0, <1>4, <1>5, MagIs

(* Where bit i of a number lies.                                           *)
LEMMA BitSplit ==
  ASSUME NEW i \in Nat
  PROVE  \E q \in Nat : \E j \in 0..LimbBits - 1 :
            /\ q = i \div LimbBits /\ j = i % LimbBits
            /\ Power(2, i) = Weight(q) * Power(2, j)
            /\ Base = 2 * Power(2, j) * Power(2, LimbBits - 1 - j)
            /\ Power(2, j) \in Nat \ {0} /\ Power(2, LimbBits - 1 - j) \in Nat \ {0}
<1>1. PICK L \in Nat \ {0} : L = LimbBits
  BY WidthAssumption
<1>2. PICK q \in Nat : q = i \div LimbBits
  BY BitsSplit
<1>3. PICK j \in 0..L - 1 : j = i % LimbBits
  BY <1>1, BitsSplit
<1>4. Power(2, i) = Weight(q) * Power(2, j)
  BY <1>2, <1>3, BitsSplit
<1>5. j \in Nat /\ L - 1 - j \in Nat /\ L = (j + (L - 1 - j)) + 1 /\ j + (L - 1 - j) \in Nat
  OBVIOUS
<1>6. Power(2, L) = 2 * Power(2, j + (L - 1 - j))
  BY <1>5, PowerNext
<1>7. 2 \in Int
  OBVIOUS
<1>8. Power(2, j + (L - 1 - j)) = Power(2, j) * Power(2, L - 1 - j)
  BY <1>5, <1>7, PowerAdd
<1>9. PICK a \in Nat \ {0} : a = Power(2, j)
  BY <1>5, PowerNat
<1>10. PICK b \in Nat \ {0} : b = Power(2, L - 1 - j)
  BY <1>5, PowerNat
<1>11. Base = 2 * a * b
  <2>1. 2 * (a * b) = 2 * a * b
    OBVIOUS
  <2>2. Base = Power(2, L)
    BY <1>1 DEF Base
  <2>. QED
    BY <1>6, <1>8, <1>9, <1>10, <2>1, <2>2
<1>. QED
  BY <1>1, <1>2, <1>3, <1>4, <1>9, <1>10, <1>11

(* A bit is the bit of the number.                                         *)
LEMMA BitIs ==
  ASSUME NEW x \in Bigs, NEW i \in Nat
  PROVE  bit(x, i) <=> (Mag(x.d) \div Power(2, i)) % 2 = 1
<1>1. PICK q \in Nat, j \in 0..LimbBits - 1 :
            /\ q = i \div LimbBits /\ j = i % LimbBits
            /\ Power(2, i) = Weight(q) * Power(2, j)
            /\ Base = 2 * Power(2, j) * Power(2, LimbBits - 1 - j)
            /\ Power(2, j) \in Nat \ {0} /\ Power(2, LimbBits - 1 - j) \in Nat \ {0}
  BY BitSplit
<1>2. PICK u \in Nat \ {0} : u = Power(2, j)
  BY <1>1
<1>3. PICK v \in Nat \ {0} : v = Power(2, LimbBits - 1 - j)
  BY <1>1
<1>4. PICK w \in Nat \ {0} : w = Weight(q)
  BY <1>1, WeightNat
<1>5. Power(2, i) = w * u /\ Base = 2 * u * v
  BY <1>1, <1>2, <1>3, <1>4
<1>6. PICK n \in Nat : n = Len(x.d)
  BY BigIs
<1>7. PICK m \in Nat : m = Mag(x.d)
  BY BigIs
<1>8. x.d \in Seq(Limb) /\ x.d \in Seq(Int)
  BY BigIs
<1>9. bit(x, i) <=> q + 1 <= n /\ (x.d[q + 1] \div u) % 2 = 1
  BY <1>1, <1>2, <1>6 DEF bit
<1>10. w * u \in Nat \ {0}
  OBVIOUS
<1>11. CASE ~(q + 1 <= n)
  <2>1. m < w
    <3>1. m < Weight(n)
      BY <1>6, <1>7, BigIs
    <3>2. CASE n = q
      BY <1>4, <3>1, <3>2
    <3>3. CASE n < q
      <4>1. Power(Base, n) < Power(Base, q)
        BY <1>1, <1>6, <3>3, BaseIs, PowerGrows
      <4>2. Weight(n) < w
        BY <1>4, <4>1 DEF Weight
      <4>3. Weight(n) \in Nat
        BY WeightIs
      <4>. QED
        BY <3>1, <4>2, <4>3
    <3>. QED
      BY <1>11, <3>2, <3>3
  <2>2. w <= w * u
    <3>1. w * u = w + w * (u - 1) /\ w * (u - 1) \in Nat
      OBVIOUS
    <3>. QED
      BY <3>1
  <2>3. m \div (w * u) = 0
    <3>1. PICK b \in Nat \ {0} : b = w * u
      BY <1>10
    <3>2. m \in 0..b - 1 /\ m = b * 0 + m /\ 0 \in Int /\ m \in Int
      BY <2>1, <2>2, <3>1
    <3>3. m \div b = 0
      BY <3>2, DivIs
    <3>. QED
      BY <3>1, <3>3
  <2>4. 0 % 2 = 0
    OBVIOUS
  <2>5. ~((Mag(x.d) \div Power(2, i)) % 2 = 1)
    BY <1>5, <1>7, <2>3, <2>4
  <2>. QED
    BY <1>9, <1>11, <2>5
<1>12. CASE q + 1 <= n
  <2>1. q + 1 \in 1..n /\ (q + 1) - 1 = q /\ q \in 0..n /\ q + 1 \in 0..n
    BY <1>12
  <2>2. PICK a \in Nat : a = x.d[q + 1]
    BY <1>6, <1>8, <2>1, LimbsAre
  <2>3. PICK p \in 0..w - 1 : p = Partials(x.d)[q]
    BY <1>4, <1>6, <1>8, <2>1, PartialsBelow
  <2>4. Partials(x.d)[q + 1] = p + a * w
    <3>1. \A k \in 1..n : Partials(x.d)[k] = Partials(x.d)[k - 1] + x.d[k] * Weight(k - 1)
      BY <1>6, <1>8, PartialsAre
    <3>. QED
      BY <1>4, <2>1, <2>2, <2>3, <3>1
  <2>5. PICK h \in Nat : m = Partials(x.d)[q + 1] + Weight(q + 1) * h
    BY <1>6, <1>7, <1>8, <2>1, Above
  <2>6. Weight(q + 1) = (2 * u * v) * w
    BY <1>4, <1>5, <1>1, WeightIs
  <2>7. PICK c \in Nat : c = a \div u
    BY QuotNat
  <2>8. PICK r \in 0..u - 1 : r = a % u
    BY QuotNat
  <2>9. a = u * c + r
    BY <2>7, <2>8, QuotNat
  <2>10. m = (w * u) * (c + 2 * (v * h)) + (w * r + p)
    <3>1. m = (p + a * w) + ((2 * u * v) * w) * h
      BY <2>4, <2>5, <2>6
    <3>2. (p + (u * c + r) * w) + ((2 * u * v) * w) * h = (w * u) * (c + 2 * (v * h)) + (w * r + p)
      OBVIOUS
    <3>. QED
      BY <2>9, <3>1, <3>2
  <2>11. w * r + p \in 0..w * u - 1
    <3>1. w * u = w * r + w * (u - 1 - r) + w /\ w * (u - 1 - r) \in Nat /\ w * r \in Nat
      OBVIOUS
    <3>. QED
      BY <3>1
  <2>12. m \div (w * u) = c + 2 * (v * h)
    <3>1. PICK b \in Nat \ {0} : b = w * u
      BY <1>10
    <3>2. PICK t \in 0..b - 1 : t = w * r + p
      BY <2>11, <3>1
    <3>3. PICK g \in Nat : g = c + 2 * (v * h)
      OBVIOUS
    <3>4. m = b * g + t /\ m \in Int /\ g \in Int
      BY <2>10, <3>1, <3>2, <3>3
    <3>5. m \div b = g
      BY <3>4, DivIs
    <3>. QED
      BY <3>1, <3>3, <3>5
  <2>13. (c + 2 * (v * h)) % 2 = c % 2
    <3>1. PICK g \in Nat : g = v * h
      OBVIOUS
    <3>2. (c + 2 * g) % 2 = c % 2
      OBVIOUS
    <3>. QED
      BY <3>1, <3>2
  <2>14. (Mag(x.d) \div Power(2, i)) % 2 = c % 2
    BY <1>5, <1>7, <2>12, <2>13
  <2>. QED
    BY <1>9, <1>12, <2>2, <2>7, <2>14
<1>. QED
  BY <1>11, <1>12

-----------------------------------------------------------------------------
(* One limb that grows.                                                    *)
LEMMA OneLimb ==
  ASSUME NEW d \in Seq(Int), NEW e \in Seq(Int), Len(e) = Len(d), NEW k \in 1..Len(d), NEW a \in Int,
         e[k] = d[k] + a, \A i \in 1..Len(d) : i # k => e[i] = d[i]
  PROVE  Mag(e) = Mag(d) + a * Weight(k - 1)
<1> DEFINE n == Len(d)
           P == {j \in 0..n - k : Partials(e)[k + j] = Partials(d)[k + j] + a * Weight(k - 1)}
<1>0. n \in Nat /\ n - k \in Nat /\ k - 1 \in Nat
  OBVIOUS
<1>1. /\ Partials(d) \in [0..n -> Int] /\ Partials(e) \in [0..n -> Int]
      /\ \A i \in 1..n : Partials(d)[i] = Partials(d)[i - 1] + d[i] * Weight(i - 1)
      /\ \A i \in 1..n : Partials(e)[i] = Partials(e)[i - 1] + e[i] * Weight(i - 1)
  BY PartialsAre
<1>2. Partials(e)[k - 1] = Partials(d)[k - 1]
  <2>1. k - 1 <= Len(e) /\ k - 1 <= Len(d)
    OBVIOUS
  <2>2. \A i \in 1..k - 1 : i \in 1..Len(d) /\ i # k
    OBVIOUS
  <2>3. \A i \in 1..k - 1 : e[i] = d[i]
    BY <2>2
  <2>. QED
    BY <1>0, <2>1, <2>3, PartialsAgree
<1>3. PICK w \in Int : w = Weight(k - 1)
  BY <1>0, WeightNat
<1>4. 0 \in P
  <2>1. PICK p \in Int : p = Partials(d)[k - 1]
    <3>1. k - 1 \in 0..n
      BY <1>0
    <3>. QED
      BY <1>1, <3>1
  <2>2. PICK u \in Int : u = d[k]
    OBVIOUS
  <2>3. Partials(e)[k] = p + (u + a) * w /\ Partials(d)[k] = p + u * w
    BY <1>1, <1>2, <1>3, <2>1, <2>2
  <2>4. p + (u + a) * w = (p + u * w) + a * w
    <3>1. (u + a) * w = u * w + a * w /\ u * w \in Int /\ a * w \in Int
      OBVIOUS
    <3>. QED
      BY <3>1
  <2>5. 0 \in 0..n - k /\ k + 0 = k
    BY <1>0
  <2>. QED
    BY <1>3, <2>3, <2>4, <2>5
<1>5. ASSUME NEW j \in 1..n - k, j - 1 \in P PROVE j \in P
  <2>1. /\ j \in 0..n - k /\ k + j \in 1..n /\ (k + j) - 1 = k + (j - 1) /\ (k + j) - 1 \in Nat
        /\ (k + j) - 1 \in 0..n /\ k + j # k
    BY <1>0
  <2>2. PICK v \in Int : v = Weight((k + j) - 1)
    BY <2>1, WeightNat
  <2>3. PICK u \in Int : u = d[k + j]
    BY <2>1
  <2>4. e[k + j] = u
    BY <2>1, <2>3
  <2>5. PICK p \in Int : p = Partials(d)[(k + j) - 1]
    BY <1>1, <2>1
  <2>6. Partials(e)[(k + j) - 1] = p + a * w
    BY <1>3, <1>5, <2>1, <2>5
  <2>7. Partials(e)[k + j] = (p + a * w) + u * v /\ Partials(d)[k + j] = p + u * v
    BY <1>1, <2>1, <2>2, <2>3, <2>4, <2>5, <2>6
  <2>8. (p + a * w) + u * v = (p + u * v) + a * w
    <3>1. a * w \in Int /\ u * v \in Int
      OBVIOUS
    <3>. QED
      BY <3>1
  <2>. QED
    BY <1>3, <2>1, <2>7, <2>8
<1>6. n - k \in P
  <2>. HIDE DEF P
  <2>1. 0..n - k \subseteq P
    BY <1>0, <1>4, <1>5, UpInduction
  <2>2. n - k \in 0..n - k
    BY <1>0
  <2>. QED
    BY <2>1, <2>2
<1>7. k + (n - k) = n
  BY <1>0
<1>. QED
  BY <1>6, <1>7, MagIs

LEMMA JoinIs ==
  ASSUME NEW y \in Seq(Limb), NEW z \in Seq(Limb)
  PROVE  /\ y \o z \in Seq(Limb) /\ Len(y \o z) = Len(y) + Len(z)
         /\ \A i \in 1..Len(y) : (y \o z)[i] = y[i]
         /\ \A i \in Len(y) + 1..Len(y) + Len(z) : (y \o z)[i] = z[i - Len(y)]
<1>1. y \o z \in Seq(Limb) /\ Len(y \o z) = Len(y) + Len(z)
  OBVIOUS
<1>2. \A i \in 1..Len(y) : (y \o z)[i] = y[i]
  OBVIOUS
<1>3. \A i \in Len(y) + 1..Len(y) + Len(z) : (y \o z)[i] = z[i - Len(y)]
  OBVIOUS
<1>. QED
  BY <1>1, <1>2, <1>3

(* The limbs that set_bit changes.                                         *)
Wide(x, k) == IF k > Len(x.d) THEN x.d \o Zeros(k - Len(x.d)) ELSE x.d
LEMMA WideIs ==
  ASSUME NEW x \in Bigs, NEW k \in Nat \ {0}
  PROVE  /\ Wide(x, k) \in Seq(Limb) /\ k \in 1..Len(Wide(x, k)) /\ Mag(Wide(x, k)) = Mag(x.d)
         /\ Wide(x, k)[k] = limb(x, k)
         /\ k > Len(x.d) => Len(Wide(x, k)) = k
         /\ k <= Len(x.d) => Len(Wide(x, k)) = Len(x.d) /\ Wide(x, k) = x.d
<1>0. PICK n \in Nat : n = Len(x.d)
  BY BigIs
<1>1. x.d \in Seq(Limb)
  BY BigIs
<1>2. CASE k > n
  <2>1. PICK z \in Seq(Limb) : z = Zeros(k - n) /\ Len(z) = k - n /\ \A i \in 1..k - n : z[i] = 0
    <3>1. k - n \in Nat
      BY <1>2
    <3>. QED
      BY <3>1, ZerosAre
  <2>2. Wide(x, k) = x.d \o z
    BY <1>0, <1>2, <2>1 DEF Wide
  <2>0. PICK y \in Seq(Limb) : y = x.d /\ Len(y) = n
    BY <1>0, <1>1
  <2>3. PICK e : e = y \o z
    OBVIOUS
  <2>4. e \in Seq(Limb) /\ Len(e) = k
    <3>1. e \in Seq(Limb) /\ Len(e) = Len(y) + Len(z)
      BY <2>3, JoinIs
    <3>. QED
      BY <1>2, <2>0, <2>1, <3>1
  <2>5. \A i \in 1..n : e[i] = y[i]
    BY <2>0, <2>3, JoinIs
  <2>6. \A i \in n + 1..k : e[i] = 0
    <3> SUFFICES ASSUME NEW i \in n + 1..k PROVE e[i] = 0
      OBVIOUS
    <3>1. i \in n + 1..n + Len(z) /\ i - n \in 1..k - n
      BY <1>2, <2>1
    <3>2. e[i] = z[i - n]
      <4>1. \A m \in n + 1..n + Len(z) : (y \o z)[m] = z[m - n]
        BY <2>0, JoinIs
      <4>. QED
        BY <2>3, <3>1, <4>1
    <3>. QED
      BY <2>1, <3>1, <3>2
  <2>7. e \in Seq(Int) /\ x.d \in Seq(Int)
    BY <1>1, <2>4, LimbsAre
  <2>8. Mag(e) = Partials(e)[n]
    <3>1. n \in 0..Len(e) /\ \A i \in n + 1..Len(e) : e[i] = 0
      BY <1>2, <2>4, <2>6
    <3>. QED
      BY <2>7, <3>1, ZerosAbove
  <2>9. Partials(e)[n] = Mag(x.d)
    <3>1. n <= Len(e) /\ n <= Len(x.d)
      BY <1>0, <1>2, <2>4
    <3>2. Partials(e)[n] = Partials(x.d)[n]
      BY <2>0, <2>5, <2>7, <3>1, PartialsAgree
    <3>. QED
      BY <1>0, <2>7, <3>2, MagIs
  <2>10. e[k] = 0 /\ limb(x, k) = 0
    <3>1. k \in n + 1..k
      BY <1>2
    <3>. QED
      BY <1>0, <1>2, <2>6, <3>1, LimbIs
  <2>. QED
    BY <1>0, <1>2, <2>0, <2>2, <2>3, <2>4, <2>8, <2>9, <2>10
<1>3. CASE ~(k > n)
  <2>1. Wide(x, k) = x.d
    BY <1>0, <1>3 DEF Wide
  <2>2. k <= Len(x.d) /\ k \in 1..Len(x.d) /\ limb(x, k) = x.d[k]
    BY <1>0, <1>3, LimbIs
  <2>. QED
    BY <1>0, <1>1, <1>3, <2>1, <2>2
<1>. QED
  BY <1>2, <1>3

LEMMA SetBitIs ==
  ASSUME NEW x \in Bigs, NEW i \in Nat
  PROVE  /\ set_bit(x, i) \in Bigs /\ set_bit(x, i).neg = x.neg
         /\ ~bit(x, i) => Mag(set_bit(x, i).d) = Mag(x.d) + Power(2, i)
<1>1. PICK q \in Nat, j \in 0..LimbBits - 1 :
            /\ q = i \div LimbBits /\ j = i % LimbBits
            /\ Power(2, i) = Weight(q) * Power(2, j)
            /\ Base = 2 * Power(2, j) * Power(2, LimbBits - 1 - j)
            /\ Power(2, j) \in Nat \ {0} /\ Power(2, LimbBits - 1 - j) \in Nat \ {0}
  BY BitSplit
<1>2. PICK u \in Nat \ {0} : u = Power(2, j)
  BY <1>1
<1>3. PICK v \in Nat \ {0} : v = Power(2, LimbBits - 1 - j)
  BY <1>1
<1>4. PICK k \in Nat \ {0} : k = q + 1
  OBVIOUS
<1>5. PICK a \in Nat : a = IF bit(x, i) THEN 0 ELSE u
  OBVIOUS
<1> DEFINE d == Wide(x, k)
           e == [d EXCEPT ![k] = @ + a]
<1>6. set_bit(x, i) = Big(x.neg, e)
  BY <1>1, <1>2, <1>4, <1>5 DEF set_bit, Wide
<1>7. /\ d \in Seq(Limb) /\ k \in 1..Len(d) /\ Mag(d) = Mag(x.d) /\ d[k] = limb(x, k)
      /\ k > Len(x.d) => Len(d) = k
      /\ k <= Len(x.d) => Len(d) = Len(x.d) /\ d = x.d
  BY WideIs
<1>. HIDE DEF d
<1>8. Len(d) \in Nat /\ d \in Seq(Int) /\ DOMAIN d = 1..Len(d) /\ \A m \in 1..Len(d) : d[m] \in Limb
  BY <1>7, LimbsAre
<1>9. PICK l \in Nat : l = limb(x, k)
  BY LimbIs
<1>10. l + a \in Limb
  <2>1. Base = 2 * u * v /\ l \in 0..Base - 1
    BY <1>1, <1>2, <1>3, <1>9, LimbIs
  <2>2. CASE bit(x, i)
    <3>1. a = 0
      BY <1>5, <2>2
    <3>. QED
      BY <2>1, <3>1 DEF Limb
  <2>3. CASE ~bit(x, i)
    <3>1. a = u
      BY <1>5, <2>3
    <3>2. PICK c \in Nat : c = l \div u
      BY QuotNat
    <3>3. PICK r \in 0..u - 1 : r = l % u
      BY QuotNat
    <3>4. l = u * c + r
      BY <3>2, <3>3, QuotNat
    <3>5. c % 2 # 1
      <4>1. CASE k <= Len(x.d)
        <5>1. limb(x, k) = x.d[k]
          BY <4>1, LimbIs
        <5>2. bit(x, i) <=> (l \div u) % 2 = 1
          BY <1>1, <1>2, <1>4, <1>9, <4>1, <5>1 DEF bit
        <5>. QED
          BY <2>3, <3>2, <5>2
      <4>2. CASE ~(k <= Len(x.d))
        <5>1. Len(x.d) \in Nat
          BY BigIs
        <5>2. l = 0
          BY <1>9, <4>2, <5>1, LimbIs
        <5>3. c = 0
          <6>1. u * c \in Nat
            OBVIOUS
          <6>2. u * c = 0
            BY <3>4, <5>2, <6>1
          <6>3. u * c = c + (u - 1) * c /\ (u - 1) * c \in Nat
            OBVIOUS
          <6>. QED
            BY <6>2, <6>3
        <5>. QED
          BY <5>3
      <4>. QED
        BY <4>1, <4>2
    <3>6. PICK h \in Nat : h = c \div 2
      BY QuotNat
    <3>7. c = 2 * h
      <4>1. 2 \in Nat \ {0} /\ 2 - 1 = 1
        OBVIOUS
      <4>2. c % 2 \in 0..1 /\ c = 2 * h + (c % 2)
        BY <3>6, <4>1, QuotNat
      <4>. QED
        BY <3>5, <4>2
    <3>8. h < v
      <4>1. SUFFICES ASSUME v <= h PROVE FALSE
        OBVIOUS
      <4>2. u * (2 * h) = 2 * u * v + (2 * u) * (h - v) /\ (2 * u) * (h - v) \in Nat /\ 2 * u * v \in Nat
        BY <4>1
      <4>. QED
        BY <2>1, <3>4, <3>7, <4>2
    <3>9. 2 * u * v = (u * (2 * h) + 2 * u) + (2 * u) * (v - 1 - h) /\ (2 * u) * (v - 1 - h) \in Nat
      BY <3>8
    <3>10. u * (2 * h) \in Nat /\ 2 * u * v \in Nat
      OBVIOUS
    <3>11. l + u \in 0..2 * u * v - 1
      BY <3>4, <3>7, <3>9, <3>10
    <3>. QED
      BY <2>1, <3>1, <3>11 DEF Limb
  <2>. QED
    BY <2>2, <2>3
<1>11. /\ e \in [1..Len(d) -> Limb] /\ e[k] = d[k] + a
       /\ \A m \in 1..Len(d) : m # k => e[m] = d[m]
  <2>1. d \in [1..Len(d) -> Limb]
    <3>1. \A s \in Seq(Limb) : s \in [1..Len(s) -> Limb]
      OBVIOUS
    <3>. QED
      BY <1>8, <3>1
  <2>2. d[k] + a \in Limb
    BY <1>7, <1>9, <1>10
  <2>. QED
    BY <1>7, <2>1, <2>2
<1>. HIDE DEF e
<1>12. e \in Seq(Limb) /\ Len(e) = Len(d)
  BY <1>8, <1>11
<1>13. e # <<>> /\ e[Len(e)] # 0
  <2>1. PICK n \in Nat : n = Len(d) /\ k \in 1..n
    BY <1>7, <1>8
  <2>2. CASE k <= Len(x.d)
    <3>1. d = x.d /\ x.d # <<>> /\ x.d[n] \in 1..Base - 1
      <4>1. d = x.d
        BY <1>7, <2>2
      <4>2. x.d # <<>>
        BY <2>1, <4>1
      <4>. QED
        BY <2>1, <4>1, <4>2, BigIs
    <3>2. PICK t \in Nat : t = d[n] /\ t # 0
      BY <3>1, BaseIs
    <3>3. e[n] = t \/ e[n] = t + a
      <4>1. n \in 1..n
        BY <2>1
      <4>. QED
        BY <1>11, <2>1, <3>2, <4>1
    <3>4. e[n] # 0
      BY <3>2, <3>3
    <3>. QED
      BY <1>12, <2>1, <3>4
  <2>3. CASE ~(k <= Len(x.d))
    <3>1. Len(x.d) \in Nat
      BY BigIs
    <3>2. n = k
      BY <1>7, <2>1, <2>3, <3>1
    <3>3. d[k] = 0
      BY <1>7, <2>3, <3>1, LimbIs
    <3>4. ~bit(x, i)
      BY <1>1, <1>4, <2>3 DEF bit
    <3>5. a = u
      BY <1>5, <3>4
    <3>6. e[k] = u
      BY <1>11, <3>3, <3>5
    <3>7. e[n] # 0
      BY <3>2, <3>6
    <3>. QED
      BY <1>12, <2>1, <3>7
  <2>. QED
    BY <2>2, <2>3
<1>14. x.neg \in BOOLEAN
  BY BigIs
<1>15. Big(x.neg, e) \in Bigs /\ Big(x.neg, e).d = e /\ Big(x.neg, e).neg = x.neg
  BY <1>12, <1>13, <1>14, MadeBig
<1>16. ASSUME ~bit(x, i) PROVE Mag(e) = Mag(x.d) + Power(2, i)
  <2>1. a = u /\ a \in Int
    BY <1>5, <1>16
  <2>2. e \in Seq(Int)
    BY <1>12, LimbsAre
  <2>3. Mag(e) = Mag(d) + a * Weight(k - 1)
    <3>1. d \in Seq(Int) /\ e \in Seq(Int) /\ Len(e) = Len(d) /\ k \in 1..Len(d) /\ a \in Int
      BY <1>7, <1>8, <1>12, <2>1, <2>2
    <3>2. e[k] = d[k] + a /\ \A m \in 1..Len(d) : m # k => e[m] = d[m]
      BY <1>11, <3>1
    <3>. QED
      BY ONLY <3>1, <3>2, OneLimb
  <2>4. k - 1 = q
    BY <1>4
  <2>5. PICK w \in Nat : w = Weight(q)
    BY WeightNat
  <2>6. u * w = w * u
    OBVIOUS
  <2>. QED
    BY <1>1, <1>2, <1>7, <2>1, <2>3, <2>4, <2>5, <2>6
<1>. QED
  BY <1>6, <1>15, <1>16

-----------------------------------------------------------------------------
(* The numbers that are not below zero.                                    *)
Nats == {x \in Bigs : ~x.neg}

LEMMA NatIs ==
  ASSUME NEW x \in Nats
  PROVE  /\ x \in Bigs /\ ~x.neg /\ IntOf(x) = Mag(x.d) /\ IntOf(x) \in Nat /\ Mag(x.d) \in Nat
         /\ (is_zero(x) <=> IntOf(x) = 0)
<1>1. x \in Bigs /\ ~x.neg
  BY DEF Nats
<1>. QED
  BY <1>1, IntOfIs, BigIs

LEMMA IsNat ==
  ASSUME NEW x \in Bigs, IntOf(x) \in Nat
  PROVE  x \in Nats
<1>1. ~(IntOf(x) < 0)
  OBVIOUS
<1>. QED
  BY <1>1, IntOfIs DEF Nats

LEMMA ZeroNat == zero \in Nats /\ one \in Nats
  BY ZeroIs, OneIs DEF Nats

(* One bit of the quotient.                                                *)
LEMMA NextBitIs ==
  ASSUME NEW r \in Nats, NEW c \in BOOLEAN
  PROVE  NextBit(shl(r, 1), c) \in Nats /\ IntOf(NextBit(shl(r, 1), c)) = 2 * IntOf(r) + IF c THEN 1 ELSE 0
<1>1. PICK n \in Nat : n = IntOf(r)
  BY NatIs
<1>2. shl(r, 1) \in Bigs /\ IntOf(shl(r, 1)) = n * 2
  <2>1. 1 \in Nat /\ Power(2, 1) = 2 /\ r \in Bigs
    BY PowerOne, NatIs
  <2>. QED
    BY <1>1, <2>1, ShlIs
<1>3. PICK t \in Bigs : t = shl(r, 1) /\ IntOf(t) = n * 2
  BY <1>2
<1>4. CASE c
  <2>1. NextBit(t, c) = add(t, one)
    BY <1>4 DEF NextBit
  <2>2. add(t, one) \in Bigs /\ IntOf(add(t, one)) = n * 2 + 1
    BY <1>3, OneIs, AddIs
  <2>3. IntOf(add(t, one)) \in Nat
    BY <2>2
  <2>4. 2 * n + 1 = n * 2 + 1
    OBVIOUS
  <2>. QED
    BY <1>1, <1>3, <1>4, <2>1, <2>2, <2>3, <2>4, IsNat
<1>5. CASE ~c
  <2>1. NextBit(t, c) = t
    BY <1>5 DEF NextBit
  <2>2. IntOf(t) \in Nat /\ n * 2 = 2 * n + 0
    BY <1>3
  <2>. QED
    BY <1>1, <1>3, <1>5, <2>1, <2>2, IsNat
<1>. QED
  BY <1>4, <1>5

LEMMA SetBitNat ==
  ASSUME NEW q \in Nats, NEW i \in Nat
  PROVE  set_bit(q, i) \in Nats /\ (~bit(q, i) => IntOf(set_bit(q, i)) = IntOf(q) + Power(2, i))
<1>1. q \in Bigs /\ ~q.neg /\ IntOf(q) = Mag(q.d)
  BY NatIs
<1>2. set_bit(q, i) \in Bigs /\ set_bit(q, i).neg = q.neg
  BY <1>1, SetBitIs
<1>3. set_bit(q, i) \in Nats
  BY <1>1, <1>2 DEF Nats
<1>4. IntOf(set_bit(q, i)) = Mag(set_bit(q, i).d)
  BY <1>3, NatIs
<1>. QED
  BY <1>1, <1>3, <1>4, SetBitIs

LEMMA SubNat ==
  ASSUME NEW x \in Nats, NEW y \in Nats
  PROVE  sub_mag(x, y) \in Nats /\ (IntOf(y) <= IntOf(x) => IntOf(sub_mag(x, y)) = IntOf(x) - IntOf(y))
<1>1. x \in Bigs /\ y \in Bigs /\ IntOf(x) = Mag(x.d) /\ IntOf(y) = Mag(y.d)
  BY NatIs
<1>2. sub_mag(x, y) \in Bigs /\ ~sub_mag(x, y).neg
  BY <1>1, SubMagIs
<1>3. sub_mag(x, y) \in Nats
  BY <1>2 DEF Nats
<1>4. IntOf(sub_mag(x, y)) = Mag(sub_mag(x, y).d)
  BY <1>3, NatIs
<1>. QED
  BY <1>1, <1>3, <1>4, SubMagIs

LEMMA CmpNat ==
  ASSUME NEW x \in Nats, NEW y \in Nats
  PROVE  cmp_mag(x, y) \in -1..1 /\ (cmp_mag(x, y) >= 0 <=> IntOf(y) <= IntOf(x))
<1>1. x \in Bigs /\ y \in Bigs /\ IntOf(x) = Mag(x.d) /\ IntOf(y) = Mag(y.d)
  BY NatIs
<1>2. PICK m \in Nat : m = IntOf(x)
  BY NatIs
<1>3. PICK n \in Nat : n = IntOf(y)
  BY NatIs
<1>4. cmp_mag(x, y) = Cmp(m, n)
  BY <1>1, <1>2, <1>3, CmpMagIs
<1>. QED
  BY <1>2, <1>3, <1>4 DEF Cmp

LEMMA DivStepNat ==
  ASSUME NEW q \in Nats, NEW r \in Nats, NEW a \in Nats, NEW b \in Nats, NEW i \in Nat
  PROVE  DivStep(<<q, r>>, a, i, b) \in Nats \X Nats
<1>1. PICK c \in BOOLEAN : c = bit(a, i)
  BY DEF bit
<1>2. PICK t \in Nats : t = NextBit(shl(r, 1), c)
  BY NextBitIs
<1>3. DivStep(<<q, r>>, a, i, b) = IF cmp_mag(t, b) >= 0 THEN <<set_bit(q, i), sub_mag(t, b)>> ELSE <<q, t>>
  BY <1>1, <1>2 DEF DivStep, DivBit
<1>4. set_bit(q, i) \in Nats /\ sub_mag(t, b) \in Nats
  BY SetBitNat, SubNat
<1>. QED
  BY <1>3, <1>4

(* What is divided when bit i is the last one done.                        *)
Halfway(q, r, a, b, i) ==
  /\ IntOf(r) < IntOf(b)
  /\ \E Q \in Nat : IntOf(q) = Q * Power(2, i) /\ IntOf(a) \div Power(2, i) = Q * IntOf(b) + IntOf(r)

LEMMA DivStepIs ==
  ASSUME NEW q \in Nats, NEW r \in Nats, NEW a \in Nats, NEW b \in Nats, NEW i \in Nat,
         Halfway(q, r, a, b, i + 1)
  PROVE  \E s \in Nats, t \in Nats : DivStep(<<q, r>>, a, i, b) = <<s, t>> /\ Halfway(s, t, a, b, i)
<1>1. PICK c \in BOOLEAN : c = bit(a, i)
  BY DEF bit
<1>2. PICK u \in 0..1 : u = IF c THEN 1 ELSE 0
  OBVIOUS
<1>3. PICK t \in Nats : t = NextBit(shl(r, 1), c)
  BY NextBitIs
<1>4. DivStep(<<q, r>>, a, i, b) = IF cmp_mag(t, b) >= 0 THEN <<set_bit(q, i), sub_mag(t, b)>> ELSE <<q, t>>
  BY <1>1, <1>3 DEF DivStep, DivBit
<1>5. PICK p \in Nat \ {0} : p = Power(2, i) /\ Power(2, i + 1) = 2 * p
  <2>1. 2 \in Int /\ 2 \in Nat \ {0}
    OBVIOUS
  <2>2. Power(2, i) \in Nat \ {0} /\ Power(2, i + 1) = 2 * Power(2, i)
    BY <2>1, PowerNat, PowerNext
  <2>. QED
    BY <2>2
<1>6. PICK R \in Nat : R = IntOf(r)
  BY NatIs
<1>7. PICK B \in Nat : B = IntOf(b)
  BY NatIs
<1>8. PICK A \in Nat : A = IntOf(a) /\ A = Mag(a.d)
  BY NatIs
<1>9. PICK Q \in Nat : IntOf(q) = Q * (2 * p) /\ A \div (2 * p) = Q * B + R
  BY <1>5, <1>6, <1>7, <1>8 DEF Halfway
<1>10. R < B
  BY <1>6, <1>7 DEF Halfway
<1>11. IntOf(t) = 2 * R + u
  BY <1>2, <1>3, <1>6, NextBitIs
<1>12. A \div p = 2 * (Q * B + R) + u
  <2>1. PICK g \in Nat : g = A \div p
    BY <1>5, QuotNat
  <2>2. g % 2 \in 0..1 /\ g = 2 * (Q * B + R) + (g % 2)
    BY <1>5, <1>9, <2>1, HalfOf
  <2>3. c <=> g % 2 = 1
    <3>1. a \in Bigs
      BY NatIs
    <3>. QED
      BY <1>1, <1>5, <1>8, <2>1, <3>1, BitIs
  <2>4. g % 2 = u
    BY <1>2, <2>2, <2>3
  <2>. QED
    BY <2>1, <2>2, <2>4
<1>13. CASE cmp_mag(t, b) >= 0
  <2>1. B <= 2 * R + u
    BY <1>7, <1>11, <1>13, CmpNat
  <2>2. sub_mag(t, b) \in Nats /\ IntOf(sub_mag(t, b)) = 2 * R + u - B
    BY <1>7, <1>11, <2>1, SubNat
  <2>3. ~bit(q, i)
    <3>1. PICK m \in Nat : m = IntOf(q) /\ m = Mag(q.d) /\ q \in Bigs
      BY NatIs
    <3>2. m = p * (2 * Q) + 0
      <4>1. Q * (2 * p) = p * (2 * Q) + 0
        OBVIOUS
      <4>. QED
        BY <1>9, <3>1, <4>1
    <3>3. m \div p = 2 * Q
      <4>1. PICK g \in Nat : g = 2 * Q
        OBVIOUS
      <4>2. m \in Int /\ g \in Int /\ 0 \in 0..p - 1 /\ m = p * g + 0
        BY <3>2, <4>1
      <4>3. m \div p = g
        BY <4>2, DivIs
      <4>. QED
        BY <4>1, <4>3
    <3>4. (2 * Q) % 2 = 0
      OBVIOUS
    <3>. QED
      BY <1>5, <3>1, <3>3, <3>4, BitIs
  <2>4. set_bit(q, i) \in Nats /\ IntOf(set_bit(q, i)) = Q * (2 * p) + p
    BY <1>5, <1>9, <2>3, SetBitNat
  <2>5. PICK g \in Nat : g = 2 * Q + 1
    OBVIOUS
  <2>6. Q * (2 * p) + p = g * p /\ 2 * (Q * B + R) + u = g * B + (2 * R + u - B)
    <3>1. (2 * Q + 1) * p = Q * (2 * p) + p /\ (2 * Q + 1) * B = 2 * (Q * B) + B
      OBVIOUS
    <3>2. Q * B \in Nat
      OBVIOUS
    <3>. QED
      BY <2>5, <3>1, <3>2
  <2>7. Halfway(set_bit(q, i), sub_mag(t, b), a, b, i)
    <3>1. 2 * R + u - B < B
      BY <1>10
    <3>2. IntOf(set_bit(q, i)) = g * Power(2, i)
      BY <1>5, <2>4, <2>6
    <3>3. IntOf(a) \div Power(2, i) = g * IntOf(b) + IntOf(sub_mag(t, b))
      BY <1>5, <1>7, <1>8, <1>12, <2>2, <2>6
    <3>. QED
      BY <1>7, <2>2, <3>1, <3>2, <3>3 DEF Halfway
  <2>. QED
    BY <1>4, <1>13, <2>2, <2>4, <2>7
<1>14. CASE ~(cmp_mag(t, b) >= 0)
  <2>1. 2 * R + u < B
    <3>1. ~(B <= 2 * R + u)
      BY <1>7, <1>11, <1>14, CmpNat
    <3>. QED
      BY <3>1
  <2>2. PICK g \in Nat : g = 2 * Q
    OBVIOUS
  <2>3. Q * (2 * p) = g * p /\ 2 * (Q * B + R) + u = g * B + (2 * R + u)
    <3>1. (2 * Q) * p = Q * (2 * p) /\ (2 * Q) * B = 2 * (Q * B)
      OBVIOUS
    <3>2. Q * B \in Nat
      OBVIOUS
    <3>. QED
      BY <2>2, <3>1, <3>2
  <2>4. Halfway(q, t, a, b, i)
    <3>1. IntOf(q) = g * Power(2, i)
      BY <1>5, <1>9, <2>3
    <3>2. IntOf(a) \div Power(2, i) = g * IntOf(b) + IntOf(t)
      BY <1>5, <1>7, <1>8, <1>11, <1>12, <2>3
    <3>. QED
      BY <1>7, <1>11, <2>1, <3>1, <3>2 DEF Halfway
  <2>. QED
    BY <1>4, <1>14, <2>4
<1>. QED
  BY <1>13, <1>14

DividedAt(u, a, b, k) == IF k = 0 THEN <<zero, zero>> ELSE DivStep(u[k - 1], a, bit_len(a) - k, b)

LEMMA DividedAre ==
  ASSUME NEW a \in Nats, NEW b \in Nats
  PROVE  /\ bit_len(a) \in Nat /\ Divided(a, b)[0] = <<zero, zero>>
         /\ \A k \in 1..bit_len(a) : Divided(a, b)[k] = DivStep(Divided(a, b)[k - 1], a, bit_len(a) - k, b)
         /\ \A k \in 0..bit_len(a) : Divided(a, b)[k] \in Nats \X Nats
<1> DEFINE n == bit_len(a)
           V == Nats \X Nats
           E == [z \in (1..n) \X V |-> DivStep(z[2], a, n - z[1], b)]
           Fits(u) == u = [k \in 0..n |-> DividedAt(u, a, b, k)]
           chosen == CHOOSE u : Fits(u)
<1>0. n \in Nat /\ <<zero, zero>> \in V
  BY NatIs, BitLenOf, ZeroNat
<1>2. \A k \in 1..n, v \in V : DivStep(v, a, n - k, b) \in V
  <2> SUFFICES ASSUME NEW k \in 1..n, NEW v \in V PROVE DivStep(v, a, n - k, b) \in V
    OBVIOUS
  <2>1. PICK q \in Nats, r \in Nats : v = <<q, r>>
    OBVIOUS
  <2>2. n - k \in Nat
    BY <1>0
  <2>3. DivStep(<<q, r>>, a, n - k, b) \in V
    BY <2>2, DivStepNat
  <2>. QED
    BY <2>1, <2>3
<1>3. E \in [(1..n) \X V -> V] /\ \A k \in 1..n, v \in V : E[<<k, v>>] = DivStep(v, a, n - k, b)
  <2>1. \A z \in (1..n) \X V : z[1] \in 1..n /\ z[2] \in V
    OBVIOUS
  <2>2. \A k \in 1..n, v \in V : <<k, v>> \in (1..n) \X V /\ <<k, v>>[1] = k /\ <<k, v>>[2] = v
    OBVIOUS
  <2>. HIDE DEF n, V
  <2>3. E \in [(1..n) \X V -> V]
    BY <1>2, <2>1
  <2>4. \A k \in 1..n, v \in V : E[<<k, v>>] = DivStep(v, a, n - k, b)
    BY <2>2
  <2>. QED
    BY <2>3, <2>4
<1>4. \E u : Fits(u)
  <2>. HIDE DEF E, V
  <2>1. PICK f : Loops(f, V, <<zero, zero>>, E, n)
    <3>. HIDE DEF n
    <3>. QED
      BY <1>0, <1>3, LoopExists
  <2>2. f \in [0..n -> V] /\ f[0] = <<zero, zero>> /\ \A k \in 1..n : f[k] = E[<<k, f[k - 1]>>]
    BY <2>1 DEF Loops
  <2>3. \A k \in 1..n : f[k - 1] \in V
    <3>1. \A k \in 1..n : k - 1 \in 0..n
      BY <1>0
    <3>. QED
      BY <2>2, <3>1
  <2>4. \A k \in 1..n : f[k] = DivStep(f[k - 1], a, n - k, b)
    BY <1>3, <2>2, <2>3
  <2>5. \A k \in 0..n : f[k] = DividedAt(f, a, b, k)
    <3> SUFFICES ASSUME NEW k \in 0..n PROVE f[k] = DividedAt(f, a, b, k)
      OBVIOUS
    <3>1. CASE k = 0
      BY <2>2, <3>1 DEF DividedAt
    <3>2. CASE k # 0
      <4>1. k \in 1..n
        BY <1>0, <3>2
      <4>. QED
        BY <2>4, <3>2, <4>1 DEF DividedAt
    <3>. QED
      BY <3>1, <3>2
  <2>. QED
    BY <2>2, <2>5
<1>5. Fits(chosen)
  BY <1>4
<1>6. Divided(a, b) = chosen
  BY DEF Divided, DividedAt
<1>. HIDE DEF chosen
<1>7. chosen[0] = <<zero, zero>> /\ \A k \in 1..n : chosen[k] = DivStep(chosen[k - 1], a, n - k, b)
  <2>1. 0 \in 0..n /\ \A k \in 1..n : k \in 0..n /\ k # 0
    BY <1>0
  <2>2. \A k \in 0..n : chosen[k] = DividedAt(chosen, a, b, k)
    BY <1>5
  <2>3. chosen[0] = <<zero, zero>>
    BY <2>1, <2>2 DEF DividedAt
  <2>. QED
    BY <2>1, <2>2, <2>3 DEF DividedAt
<1>8. \A k \in 0..n : chosen[k] \in V
  <2>. HIDE DEF V, n
  <2>1. \A k \in 1..n : chosen[k - 1] \in V => chosen[k] \in V
    BY <1>2, <1>7
  <2>. QED
    BY <1>0, <1>7, <2>1, LoopTyped
<1>. QED
  BY <1>0, <1>6, <1>7, <1>8

(* Long division is division.                                              *)
LEMMA DivModMagIs ==
  ASSUME NEW a \in Nats, NEW b \in Nats
  PROVE  /\ divmod_mag(a, b) \in Nats \X Nats
         /\ IntOf(b) # 0 =>
               /\ IntOf(a) = IntOf(divmod_mag(a, b)[1]) * IntOf(b) + IntOf(divmod_mag(a, b)[2])
               /\ IntOf(divmod_mag(a, b)[2]) < IntOf(b)
<1>1. PICK A \in Nat : A = IntOf(a) /\ A = Mag(a.d)
  BY NatIs
<1>2. PICK B \in Nat : B = IntOf(b)
  BY NatIs
<1>3. CASE cmp_mag(a, b) < 0
  <2>1. divmod_mag(a, b) = <<zero, a>>
    BY <1>3 DEF divmod_mag
  <2>2. A < B
    <3>1. ~(cmp_mag(a, b) >= 0)
      BY <1>3, CmpNat
    <3>2. ~(B <= A)
      BY <1>1, <1>2, <3>1, CmpNat
    <3>. QED
      BY <3>2
  <2>3. 0 * B + A = A
    OBVIOUS
  <2>4. divmod_mag(a, b)[1] = zero /\ divmod_mag(a, b)[2] = a /\ divmod_mag(a, b) \in Nats \X Nats
    BY <2>1, ZeroNat
  <2>5. IntOf(zero) = 0
    BY ZeroIs
  <2>6. IntOf(a) = IntOf(divmod_mag(a, b)[1]) * IntOf(b) + IntOf(divmod_mag(a, b)[2])
    BY <1>1, <1>2, <2>3, <2>4, <2>5
  <2>. QED
    BY <1>1, <1>2, <2>2, <2>4, <2>6
<1>4. CASE ~(cmp_mag(a, b) < 0)
  <2> DEFINE n == bit_len(a)
             f == Divided(a, b)
  <2>1. divmod_mag(a, b) = f[n]
    BY <1>4 DEF divmod_mag
  <2>2. /\ n \in Nat /\ f[0] = <<zero, zero>>
        /\ \A k \in 1..n : f[k] = DivStep(f[k - 1], a, n - k, b)
        /\ \A k \in 0..n : f[k] \in Nats \X Nats
    BY DividedAre
  <2>. HIDE DEF f
  <2>3. f[n] \in Nats \X Nats
    <3>1. n \in 0..n
      BY <2>2
    <3>. QED
      BY <2>2, <3>1
  <2>4. ASSUME IntOf(b) # 0
        PROVE  IntOf(a) = IntOf(f[n][1]) * IntOf(b) + IntOf(f[n][2]) /\ IntOf(f[n][2]) < IntOf(b)
    <3> DEFINE P == {k \in 0..n : Halfway(f[k][1], f[k][2], a, b, n - k)}
    <3>1. 0 \in P
      <4>1. A < Power(2, n) /\ Power(2, n) \in Nat \ {0}
        <5>1. a \in Bigs /\ 2 \in Nat \ {0}
          BY NatIs
        <5>. QED
          BY <1>1, <2>2, <5>1, BitLenOf, PowerNat
      <4>2. PICK p \in Nat \ {0} : p = Power(2, n) /\ A < p
        BY <4>1
      <4>3. A \in 0..p - 1 /\ A = p * 0 + A /\ 0 \in Int /\ A \in Int
        BY <4>2
      <4>4. A \div p = 0
        BY <4>3, DivIs
      <4>5. 0 * p = 0 /\ 0 * B + 0 = 0 /\ 0 < B
        BY <1>2, <2>4
      <4>6. n - 0 = n /\ 0 \in 0..n
        BY <2>2
      <4>7. f[0][1] = zero /\ f[0][2] = zero /\ IntOf(zero) = 0
        BY <2>2, ZeroIs
      <4>8. Halfway(zero, zero, a, b, n)
        <5>1. 0 \in Nat /\ IntOf(zero) = 0 * Power(2, n) /\ IntOf(a) \div Power(2, n) = 0 * IntOf(b) + IntOf(zero)
          BY <1>1, <1>2, <4>2, <4>4, <4>5, <4>7
        <5>. QED
          BY <1>2, <4>5, <4>7, <5>1 DEF Halfway
      <4>. QED
        BY <4>6, <4>7, <4>8
    <3>2. ASSUME NEW k \in 1..n, k - 1 \in P PROVE k \in P
      <4>1. n - k \in Nat /\ (n - k) + 1 = n - (k - 1) /\ k \in 0..n /\ k - 1 \in 0..n
        BY <2>2
      <4>2. PICK q \in Nats, r \in Nats : f[k - 1] = <<q, r>>
        BY <2>2, <4>1
      <4>3. Halfway(q, r, a, b, (n - k) + 1)
        BY <3>2, <4>1, <4>2
      <4>4. PICK s \in Nats, t \in Nats :
               DivStep(<<q, r>>, a, n - k, b) = <<s, t>> /\ Halfway(s, t, a, b, n - k)
        BY <4>1, <4>3, DivStepIs
      <4>5. f[k] = <<s, t>>
        BY <2>2, <4>2, <4>4
      <4>. QED
        BY <4>1, <4>4, <4>5
    <3>3. n \in P
      <4>. HIDE DEF P
      <4>1. 0..n \subseteq P
        BY <2>2, <3>1, <3>2, UpInduction
      <4>. QED
        BY <2>2, <4>1
    <3>4. n - n = 0
      BY <2>2
    <3>5. Halfway(f[n][1], f[n][2], a, b, 0)
      BY <3>3, <3>4
    <3>6. PICK q \in Nats, r \in Nats : f[n] = <<q, r>>
      BY <2>3
    <3>7. PICK Q \in Nat : IntOf(q) = Q * Power(2, 0) /\ A \div Power(2, 0) = Q * B + IntOf(r)
      BY <1>1, <1>2, <3>5, <3>6 DEF Halfway
    <3>8. Power(2, 0) = 1 /\ A \div 1 = A /\ Q * 1 = Q
      BY PowerZero
    <3>9. IntOf(q) = Q /\ A = Q * B + IntOf(r)
      BY <3>7, <3>8
    <3>10. IntOf(r) < B
      BY <1>2, <3>5, <3>6 DEF Halfway
    <3>. QED
      BY <1>1, <1>2, <3>6, <3>9, <3>10
  <2>. QED
    BY <2>1, <2>3, <2>4
<1>. QED
  <2>1. cmp_mag(a, b) \in Int
    BY CmpNat
  <2>. QED
    BY <1>3, <1>4

LEMMA AbsNat ==
  ASSUME NEW x \in Bigs
  PROVE  /\ abs(x) \in Nats /\ IntOf(abs(x)) \in Nat
         /\ (x.neg => IntOf(x) = -IntOf(abs(x))) /\ (~x.neg => IntOf(x) = IntOf(abs(x)))
         /\ (IntOf(x) = 0 <=> IntOf(abs(x)) = 0)
<1>1. abs(x) \in Bigs /\ IntOf(abs(x)) = Mag(x.d) /\ ~abs(x).neg
  BY AbsIs
<1>2. Mag(x.d) \in Nat /\ (IntOf(x) = 0 <=> Mag(x.d) = 0)
  BY BigIs, IntOfIs, MagZero
<1>. QED
  BY <1>1, <1>2, IntOfIs DEF Nats

LEMMA NegIfIs ==
  ASSUME NEW s \in BOOLEAN, NEW x \in Bigs
  PROVE  NegIf(s, x) \in Bigs /\ IntOf(NegIf(s, x)) = IF s THEN -IntOf(x) ELSE IntOf(x)
BY NegIs DEF NegIf

(* Python's floor division.                                                *)
LEMMA FloorOfIs ==
  ASSUME NEW a \in Bigs, NEW b \in Bigs, NEW q \in Nats, NEW r \in Nats
  PROVE  /\ FloorOf(a, b, q, r) \in Bigs \X Bigs
         /\ (/\ IntOf(b) # 0 /\ IntOf(r) < IntOf(abs(b))
             /\ IntOf(abs(a)) = IntOf(q) * IntOf(abs(b)) + IntOf(r)) =>
               /\ IntOf(a) = IntOf(FloorOf(a, b, q, r)[1]) * IntOf(b) + IntOf(FloorOf(a, b, q, r)[2])
               /\ IntOf(b) > 0 => IntOf(FloorOf(a, b, q, r)[2]) \in 0..IntOf(b) - 1
               /\ IntOf(b) < 0 => -IntOf(FloorOf(a, b, q, r)[2]) \in 0..-IntOf(b) - 1
<1>1. PICK A \in Nat : A = IntOf(abs(a))
  BY AbsNat
<1>2. PICK B \in Nat : B = IntOf(abs(b))
  BY AbsNat
<1>3. PICK Q \in Nat : Q = IntOf(q)
  BY NatIs
<1>4. PICK R \in Nat : R = IntOf(r) /\ (is_zero(r) <=> R = 0)
  BY NatIs
<1>5. PICK s \in BOOLEAN : s = a.neg
  BY BigIs
<1>6. PICK t \in BOOLEAN : t = b.neg
  BY BigIs
<1>7. PICK m \in Int : m = IntOf(a)
  BY IntOfIs
<1>8. PICK n \in Int : n = IntOf(b)
  BY IntOfIs
<1>9. m = (IF s THEN -A ELSE A) /\ n = (IF t THEN -B ELSE B) /\ (n = 0 <=> B = 0)
  BY <1>1, <1>2, <1>5, <1>6, <1>7, <1>8, AbsNat
<1>10. q \in Bigs /\ r \in Bigs
  BY NatIs
<1> DEFINE f == FloorOf(a, b, q, r)
           Exact == n # 0 /\ R < B /\ A = Q * B + R
<1>11. CASE s = t
  <2>1. f = <<q, NegIf(s, r)>>
    BY <1>5, <1>6, <1>11 DEF FloorOf
  <2>2. NegIf(s, r) \in Bigs /\ IntOf(NegIf(s, r)) = IF s THEN -R ELSE R
    BY <1>4, <1>10, NegIfIs
  <2>. HIDE DEF f
  <2>3. f \in Bigs \X Bigs /\ IntOf(f[1]) = Q /\ IntOf(f[2]) = IF s THEN -R ELSE R
    BY <1>3, <1>10, <2>1, <2>2
  <2>4. ASSUME Exact
        PROVE  /\ m = Q * n + (IF s THEN -R ELSE R)
               /\ n > 0 => (IF s THEN -R ELSE R) \in 0..n - 1
               /\ n < 0 => -(IF s THEN -R ELSE R) \in 0..-n - 1
    <3>1. CASE s
      <4>1. m = -A /\ n = -B
        BY <1>9, <1>11, <3>1
      <4>2. Q * (-B) = -(Q * B) /\ Q * B \in Int
        OBVIOUS
      <4>3. m = Q * n + (-R)
        BY <2>4, <4>1, <4>2
      <4>4. -(-R) = R
        OBVIOUS
      <4>. QED
        BY <2>4, <3>1, <4>1, <4>3, <4>4
    <3>2. CASE ~s
      <4>1. m = A /\ n = B
        BY <1>9, <1>11, <3>2
      <4>. QED
        BY <2>4, <3>2, <4>1
    <3>. QED
      BY <3>1, <3>2
  <2>. QED
    BY <1>1, <1>2, <1>3, <1>4, <1>7, <1>8, <2>3, <2>4 DEF f
<1>12. CASE s # t /\ R = 0
  <2>1. f = <<neg_(q), zero>>
    BY <1>4, <1>5, <1>6, <1>12 DEF FloorOf
  <2>2. neg_(q) \in Bigs /\ IntOf(neg_(q)) = -Q /\ zero \in Bigs /\ IntOf(zero) = 0
    BY <1>3, <1>10, NegIs, ZeroIs
  <2>. HIDE DEF f
  <2>3. f \in Bigs \X Bigs /\ IntOf(f[1]) = -Q /\ IntOf(f[2]) = 0
    BY <2>1, <2>2
  <2>4. ASSUME Exact PROVE m = (-Q) * n + 0
    <3>1. CASE s
      <4>1. m = -A /\ n = B
        BY <1>9, <1>12, <3>1
      <4>2. (-Q) * B = -(Q * B) /\ Q * B \in Int
        OBVIOUS
      <4>. QED
        BY <1>12, <2>4, <4>1, <4>2
    <3>2. CASE ~s
      <4>1. m = A /\ n = -B
        BY <1>9, <1>12, <3>2
      <4>2. (-Q) * (-B) = Q * B /\ Q * B \in Int
        OBVIOUS
      <4>. QED
        BY <1>12, <2>4, <4>1, <4>2
    <3>. QED
      BY <3>1, <3>2
  <2>5. (n > 0 => 0 \in 0..n - 1) /\ (n < 0 => 0 \in 0..-n - 1)
    OBVIOUS
  <2>6. PICK z \in Int : z = IntOf(f[2]) /\ z <= 0 /\ z >= 0
    BY <2>3
  <2>7. n < 0 => -z \in 0..-n - 1
    BY <2>6
  <2>8. ASSUME Exact
        PROVE  /\ m = IntOf(f[1]) * n + IntOf(f[2]) /\ (n > 0 => IntOf(f[2]) \in 0..n - 1)
               /\ n < 0 => -IntOf(f[2]) \in 0..-n - 1
    BY <2>3, <2>4, <2>5, <2>6, <2>7, <2>8
  <2>. QED
    BY <1>1, <1>2, <1>3, <1>4, <1>7, <1>8, <2>3, <2>8 DEF f
<1>13. CASE s # t /\ R # 0
  <2>1. f = <<neg_(add(q, one)), NegIf(t, sub(abs(b), r))>>
    BY <1>4, <1>5, <1>6, <1>13 DEF FloorOf
  <2>2. add(q, one) \in Bigs /\ IntOf(add(q, one)) = Q + 1
    BY <1>3, <1>10, OneIs, AddIs
  <2>3. neg_(add(q, one)) \in Bigs /\ IntOf(neg_(add(q, one))) = -(Q + 1)
    BY <2>2, NegIs
  <2>4. sub(abs(b), r) \in Bigs /\ IntOf(sub(abs(b), r)) = B - R
    <3>1. abs(b) \in Bigs
      BY AbsIs
    <3>. QED
      BY <1>2, <1>4, <1>10, <3>1, SubIs
  <2>5. NegIf(t, sub(abs(b), r)) \in Bigs /\ IntOf(NegIf(t, sub(abs(b), r))) = IF t THEN -(B - R) ELSE B - R
    BY <2>4, NegIfIs
  <2>. HIDE DEF f
  <2>6. f \in Bigs \X Bigs /\ IntOf(f[1]) = -(Q + 1) /\ IntOf(f[2]) = IF t THEN -(B - R) ELSE B - R
    BY <2>1, <2>3, <2>5
  <2>7. ASSUME Exact
        PROVE  /\ m = (-(Q + 1)) * n + (IF t THEN -(B - R) ELSE B - R)
               /\ n > 0 => (IF t THEN -(B - R) ELSE B - R) \in 0..n - 1
               /\ n < 0 => -(IF t THEN -(B - R) ELSE B - R) \in 0..-n - 1
    <3>1. CASE t
      <4>1. m = A /\ n = -B
        BY <1>9, <1>13, <3>1
      <4>2. (-(Q + 1)) * (-B) = Q * B + B /\ Q * B \in Int
        OBVIOUS
      <4>3. m = (-(Q + 1)) * n + (-(B - R))
        BY <2>7, <4>1, <4>2
      <4>4. -(-(B - R)) = B - R
        OBVIOUS
      <4>. QED
        BY <1>13, <2>7, <3>1, <4>1, <4>3, <4>4
    <3>2. CASE ~t
      <4>1. m = -A /\ n = B
        BY <1>9, <1>13, <3>2
      <4>2. (-(Q + 1)) * B = -(Q * B) - B /\ Q * B \in Int
        OBVIOUS
      <4>3. m = (-(Q + 1)) * n + (B - R)
        BY <2>7, <4>1, <4>2
      <4>. QED
        BY <1>13, <2>7, <3>2, <4>1, <4>3
    <3>. QED
      BY <3>1, <3>2
  <2>. QED
    BY <1>1, <1>2, <1>3, <1>4, <1>7, <1>8, <2>6, <2>7 DEF f
<1>. QED
  BY <1>11, <1>12, <1>13

LEMMA DivModFloorIs ==
  ASSUME NEW a \in Bigs, NEW b \in Bigs
  PROVE  /\ divmod_floor(a, b) \in Bigs \X Bigs
         /\ IntOf(b) # 0 =>
               /\ IntOf(a) = IntOf(divmod_floor(a, b)[1]) * IntOf(b) + IntOf(divmod_floor(a, b)[2])
               /\ IntOf(b) > 0 => IntOf(divmod_floor(a, b)[2]) \in 0..IntOf(b) - 1
               /\ IntOf(b) < 0 => -IntOf(divmod_floor(a, b)[2]) \in 0..-IntOf(b) - 1
<1>1. abs(a) \in Nats /\ abs(b) \in Nats /\ (IntOf(b) # 0 => IntOf(abs(b)) # 0)
  BY AbsNat
<1>2. divmod_mag(abs(a), abs(b)) \in Nats \X Nats
  BY <1>1, DivModMagIs
<1>3. PICK q \in Nats, r \in Nats : divmod_mag(abs(a), abs(b)) = <<q, r>>
  BY <1>2
<1>4. divmod_floor(a, b) = FloorOf(a, b, q, r)
  BY <1>3 DEF divmod_floor, OfPair
<1>5. IntOf(b) # 0 => IntOf(abs(a)) = IntOf(q) * IntOf(abs(b)) + IntOf(r) /\ IntOf(r) < IntOf(abs(b))
  <2>1. divmod_mag(abs(a), abs(b))[1] = q /\ divmod_mag(abs(a), abs(b))[2] = r
    BY <1>3
  <2>. QED
    BY <1>1, <2>1, DivModMagIs
<1>. QED
  BY <1>4, <1>5, FloorOfIs

(* The quotient and the remainder that the integers have.                  *)
LEMMA FloorIs ==
  ASSUME NEW a \in Bigs, NEW b \in Bigs, IntOf(b) # 0
  PROVE  LET m == IntOf(a)
             n == IntOf(b)
             q == IF n > 0 THEN m \div n ELSE (-m) \div (-n)
         IN  IntOf(divmod_floor(a, b)[1]) = q /\ IntOf(divmod_floor(a, b)[2]) = m - n * q
<1>1. PICK q \in Bigs, r \in Bigs : divmod_floor(a, b) = <<q, r>>
  BY DivModFloorIs
<1>2. divmod_floor(a, b)[1] = q /\ divmod_floor(a, b)[2] = r
  BY <1>1
<1>3. PICK m \in Int : m = IntOf(a)
  BY IntOfIs
<1>4. PICK n \in Int : n = IntOf(b) /\ n # 0
  BY IntOfIs
<1>5. PICK Q \in Int : Q = IntOf(q)
  BY IntOfIs
<1>6. PICK R \in Int : R = IntOf(r)
  BY IntOfIs
<1>7. m = Q * n + R /\ (n > 0 => R \in 0..n - 1) /\ (n < 0 => -R \in 0..-n - 1)
  BY <1>2, <1>3, <1>4, <1>5, <1>6, DivModFloorIs
<1>8. Q * n = n * Q /\ n * Q \in Int
  OBVIOUS
<1>9. CASE n > 0
  <2>1. PICK p \in Nat \ {0} : p = n
    BY <1>9
  <2>2. R \in 0..p - 1 /\ m = p * Q + R
    BY <1>7, <1>8, <1>9, <2>1
  <2>3. m \div p = Q
    BY <2>2, DivIs
  <2>4. R = m - n * Q
    BY <1>7, <1>8
  <2>. QED
    BY <1>2, <1>3, <1>4, <1>5, <1>6, <1>9, <2>1, <2>3, <2>4
<1>10. CASE n < 0
  <2>1. PICK p \in Nat \ {0} : p = -n
    BY <1>10
  <2>2. PICK k \in Int : k = -m
    OBVIOUS
  <2>3. PICK S \in 0..p - 1 : S = -R
    BY <1>7, <1>10, <2>1
  <2>4. k = p * Q + S
    <3>1. p * Q = -(n * Q)
      BY <2>1
    <3>. QED
      BY <1>7, <1>8, <2>2, <2>3, <3>1
  <2>5. k \div p = Q
    BY <2>4, DivIs
  <2>6. R = m - n * Q
    BY <1>7, <1>8
  <2>7. (-m) \div (-n) = Q
    BY <2>1, <2>2, <2>5
  <2>. QED
    BY <1>2, <1>3, <1>4, <1>5, <1>6, <1>10, <2>6, <2>7
<1>. QED
  BY <1>4, <1>9, <1>10

-----------------------------------------------------------------------------
(* Square and multiply.                                                    *)
SquaredAt(u, x, exp, k) ==
  IF k = 0 THEN <<one, x>>
  ELSE PowStep(u[k - 1], k = BitLen(exp), (exp \div Power(2, k - 1)) % 2 = 1)

LEMMA PowStepBig ==
  ASSUME NEW r \in Bigs, NEW s \in Bigs, NEW last \in BOOLEAN, NEW odd \in BOOLEAN
  PROVE  /\ PowStep(<<r, s>>, last, odd) \in Bigs \X Bigs
         /\ IntOf(PowStep(<<r, s>>, last, odd)[1]) = IF odd THEN IntOf(r) * IntOf(s) ELSE IntOf(r)
         /\ ~last => IntOf(PowStep(<<r, s>>, last, odd)[2]) = IntOf(s) * IntOf(s)
<1>1. mul(r, s) \in Bigs /\ IntOf(mul(r, s)) = IntOf(r) * IntOf(s)
  BY MulIs
<1>2. mul(s, s) \in Bigs /\ IntOf(mul(s, s)) = IntOf(s) * IntOf(s)
  BY MulIs
<1>3. PowStep(<<r, s>>, last, odd) = <<IF odd THEN mul(r, s) ELSE r, IF last THEN s ELSE mul(s, s)>>
  BY DEF PowStep
<1>. QED
  BY <1>1, <1>2, <1>3

LEMMA SquaredAre ==
  ASSUME NEW x \in Bigs, NEW exp \in Nat
  PROVE  /\ Squared(x, exp)[0] = <<one, x>>
         /\ \A k \in 1..BitLen(exp) : Squared(x, exp)[k] =
               PowStep(Squared(x, exp)[k - 1], k = BitLen(exp), (exp \div Power(2, k - 1)) % 2 = 1)
         /\ \A k \in 0..BitLen(exp) : Squared(x, exp)[k] \in Bigs \X Bigs
<1> DEFINE n == BitLen(exp)
           V == Bigs \X Bigs
           Step(v, k) == PowStep(v, k = n, (exp \div Power(2, k - 1)) % 2 = 1)
           E == [z \in (1..n) \X V |-> Step(z[2], z[1])]
           Fits(u) == u = [k \in 0..n |-> SquaredAt(u, x, exp, k)]
           chosen == CHOOSE u : Fits(u)
<1>0. n \in Nat /\ <<one, x>> \in V
  BY BitLenIs, OneIs
<1>2. \A k \in 1..n, v \in V : Step(v, k) \in V
  <2> SUFFICES ASSUME NEW k \in 1..n, NEW v \in V PROVE Step(v, k) \in V
    OBVIOUS
  <2>1. PICK q \in Bigs, r \in Bigs : v = <<q, r>>
    OBVIOUS
  <2>2. PICK last \in BOOLEAN : last = (k = n)
    OBVIOUS
  <2>3. PICK odd \in BOOLEAN : odd = ((exp \div Power(2, k - 1)) % 2 = 1)
    OBVIOUS
  <2>4. PowStep(<<q, r>>, last, odd) \in V
    BY PowStepBig
  <2>. QED
    BY <2>1, <2>2, <2>3, <2>4
<1>3. E \in [(1..n) \X V -> V] /\ \A k \in 1..n, v \in V : E[<<k, v>>] = Step(v, k)
  <2>1. \A z \in (1..n) \X V : z[1] \in 1..n /\ z[2] \in V
    OBVIOUS
  <2>2. \A k \in 1..n, v \in V : <<k, v>> \in (1..n) \X V /\ <<k, v>>[1] = k /\ <<k, v>>[2] = v
    OBVIOUS
  <2>. HIDE DEF n, V, Step
  <2>3. E \in [(1..n) \X V -> V]
    BY <1>2, <2>1
  <2>4. \A k \in 1..n, v \in V : E[<<k, v>>] = Step(v, k)
    BY <2>2
  <2>. QED
    BY <2>3, <2>4
<1>4. \E u : Fits(u)
  <2>. HIDE DEF E, V
  <2>1. PICK f : Loops(f, V, <<one, x>>, E, n)
    <3>. HIDE DEF n
    <3>. QED
      BY <1>0, <1>3, LoopExists
  <2>2. f \in [0..n -> V] /\ f[0] = <<one, x>> /\ \A k \in 1..n : f[k] = E[<<k, f[k - 1]>>]
    BY <2>1 DEF Loops
  <2>3. \A k \in 1..n : f[k - 1] \in V
    <3>1. \A k \in 1..n : k - 1 \in 0..n
      BY <1>0
    <3>. QED
      BY <2>2, <3>1
  <2>4. \A k \in 1..n : f[k] = Step(f[k - 1], k)
    <3>. HIDE DEF Step
    <3>. QED
      BY <1>3, <2>2, <2>3
  <2>5. \A k \in 0..n : f[k] = SquaredAt(f, x, exp, k)
    <3> SUFFICES ASSUME NEW k \in 0..n PROVE f[k] = SquaredAt(f, x, exp, k)
      OBVIOUS
    <3>1. CASE k = 0
      BY <2>2, <3>1 DEF SquaredAt
    <3>2. CASE k # 0
      <4>1. k \in 1..n
        BY <1>0, <3>2
      <4>2. f[k] = Step(f[k - 1], k)
        BY <2>4, <4>1
      <4>. QED
        BY <3>2, <4>2 DEF SquaredAt
    <3>. QED
      BY <3>1, <3>2
  <2>. QED
    BY <2>2, <2>5
<1>5. Fits(chosen)
  BY <1>4
<1>6. Squared(x, exp) = chosen
  BY DEF Squared, SquaredAt
<1>. HIDE DEF chosen
<1>7. chosen[0] = <<one, x>> /\ \A k \in 1..n : chosen[k] = Step(chosen[k - 1], k)
  <2>1. 0 \in 0..n /\ \A k \in 1..n : k \in 0..n /\ k # 0
    BY <1>0
  <2>2. \A k \in 0..n : chosen[k] = SquaredAt(chosen, x, exp, k)
    BY <1>5
  <2>3. chosen[0] = <<one, x>>
    BY <2>1, <2>2 DEF SquaredAt
  <2>. QED
    BY <2>1, <2>2, <2>3 DEF SquaredAt
<1>8. \A k \in 0..n : chosen[k] \in V
  <2>. HIDE DEF V, n, Step
  <2>1. \A k \in 1..n : chosen[k - 1] \in V => chosen[k] \in V
    BY <1>2, <1>7
  <2>. QED
    BY <1>0, <1>7, <2>1, LoopTyped
<1>. QED
  BY <1>6, <1>7, <1>8

(* After k bits: the power by the exponent's low bits, and by bit k.       *)
LEMMA PowU32Is ==
  ASSUME NEW x \in Bigs, NEW exp \in Nat
  PROVE  pow_u32(x, exp) \in Bigs /\ IntOf(pow_u32(x, exp)) = Power(IntOf(x), exp)
<1> DEFINE n == BitLen(exp)
           f == Squared(x, exp)
           H(k) == exp \div Power(2, k)
           P == {k \in 0..n : \E e \in Nat :
                    /\ exp = Power(2, k) * H(k) + e /\ IntOf(f[k][1]) = Power(IntOf(x), e)
                    /\ k < n => IntOf(f[k][2]) = Power(IntOf(x), Power(2, k))}
<1>1. n \in Nat /\ exp < Power(2, n)
  BY BitLenIs
<1>2. PICK b \in Int : b = IntOf(x)
  BY IntOfIs
<1>3. /\ f[0] = <<one, x>>
      /\ \A k \in 1..n : f[k] = PowStep(f[k - 1], k = n, H(k - 1) % 2 = 1)
      /\ \A k \in 0..n : f[k] \in Bigs \X Bigs
  BY SquaredAre
<1>. HIDE DEF f, n
<1>4. 0 \in P
  <2>1. Power(2, 0) = 1 /\ Power(b, 0) = 1 /\ Power(b, 1) = b
    BY PowerZero, PowerOne
  <2>2. H(0) = exp
    <3>1. exp \in Int /\ exp = 1 * exp + 0 /\ 0 \in 0..1 - 1 /\ 1 \in Nat \ {0}
      OBVIOUS
    <3>2. exp \div 1 = exp
      BY <3>1, DivIs
    <3>. QED
      BY <2>1, <3>2
  <2>3. exp = Power(2, 0) * H(0) + 0
    BY <2>1, <2>2
  <2>4. IntOf(f[0][1]) = 1 /\ IntOf(f[0][2]) = b
    BY <1>2, <1>3, OneIs
  <2>5. 0 \in 0..n /\ 0 \in Nat
    BY <1>1
  <2>. QED
    BY <1>2, <2>1, <2>3, <2>4, <2>5
<1>5. ASSUME NEW k \in 1..n, k - 1 \in P PROVE k \in P
  <2>1. k - 1 \in Nat /\ (k - 1) + 1 = k /\ k \in 0..n /\ k - 1 \in 0..n /\ k - 1 < n
    BY <1>1
  <2>2. PICK p \in Nat \ {0} : p = Power(2, k - 1)
    BY <2>1, HalfOf
  <2>3. Power(2, k) = 2 * p /\ Power(2, k) = p + p
    <3>1. 2 \in Int
      OBVIOUS
    <3>2. Power(2, k) = 2 * p
      BY <2>1, <2>2, <3>1, PowerNext
    <3>. QED
      BY <3>2
  <2>4. PICK g \in Nat : g = H(k - 1)
    BY <2>1, HalfOf
  <2>5. PICK h \in Nat : h = H(k)
    BY <2>1, HalfOf
  <2>6. PICK u \in 0..1 : u = g % 2 /\ g = 2 * h + u
    <3>1. g % 2 \in 0..1 /\ g = 2 * h + (g % 2)
      BY <2>1, <2>4, <2>5, HalfOf
    <3>. QED
      BY <3>1
  <2>7. PICK e \in Nat : exp = p * g + e /\ IntOf(f[k - 1][1]) = Power(b, e)
    BY <1>2, <1>5, <2>2, <2>4
  <2>8. IntOf(f[k - 1][2]) = Power(b, p)
    BY <1>2, <1>5, <2>1, <2>2
  <2>9. PICK r \in Bigs, s \in Bigs : f[k - 1] = <<r, s>>
    BY <1>3, <2>1
  <2>10. IntOf(r) = Power(b, e) /\ IntOf(s) = Power(b, p)
    BY <2>7, <2>8, <2>9
  <2>11. PICK last \in BOOLEAN : last = (k = n) /\ (last => k = n)
    OBVIOUS
  <2>12. PICK odd \in BOOLEAN : odd = (u = 1) /\ (odd <=> u = 1)
    OBVIOUS
  <2>13. f[k] = PowStep(<<r, s>>, last, odd)
    BY <1>3, <2>4, <2>6, <2>9, <2>11, <2>12
  <2>14. IntOf(f[k][1]) = IF odd THEN IntOf(r) * IntOf(s) ELSE IntOf(r)
    BY <2>13, PowStepBig
  <2>15. k < n => IntOf(f[k][2]) = Power(b, Power(2, k))
    <3>1. SUFFICES ASSUME k < n PROVE IntOf(f[k][2]) = Power(b, Power(2, k))
      OBVIOUS
    <3>2. ~last
      BY <1>1, <2>11, <3>1
    <3>3. IntOf(f[k][2]) = Power(b, p) * Power(b, p)
      BY <2>10, <2>13, <3>2, PowStepBig
    <3>4. Power(b, p + p) = Power(b, p) * Power(b, p)
      BY PowerAdd
    <3>. QED
      BY <2>3, <3>3, <3>4
  <2>16. PICK d \in Nat : d = e + p * u
    OBVIOUS
  <2>17. exp = Power(2, k) * H(k) + d
    <3>1. p * (2 * h + u) + e = (2 * p) * h + (e + p * u)
      <4>1. p * (2 * h + u) = (2 * p) * h + p * u /\ (2 * p) * h \in Nat /\ p * u \in Nat
        OBVIOUS
      <4>. QED
        BY <4>1
    <3>. QED
      BY <2>3, <2>5, <2>6, <2>7, <2>16, <3>1
  <2>18. IntOf(f[k][1]) = Power(b, d)
    <3>1. CASE u = 1
      <4>1. d = e + p
        BY <2>16, <3>1
      <4>2. Power(b, e + p) = Power(b, e) * Power(b, p)
        BY PowerAdd
      <4>. QED
        BY <2>10, <2>12, <2>14, <3>1, <4>1, <4>2
    <3>2. CASE u = 0
      <4>1. d = e
        BY <2>16, <3>2
      <4>2. ~odd
        BY <2>12, <3>2
      <4>. QED
        BY <2>10, <2>14, <4>1, <4>2
    <3>. QED
      BY <3>1, <3>2
  <2>. QED
    BY <1>2, <2>1, <2>15, <2>17, <2>18
<1>6. n \in P
  <2>. HIDE DEF P
  <2>1. 0..n \subseteq P
    BY <1>1, <1>4, <1>5, UpInduction
  <2>. QED
    BY <1>1, <2>1
<1>7. H(n) = 0
  <2>1. PICK p \in Nat \ {0} : p = Power(2, n)
    BY <1>1, HalfOf
  <2>2. exp \in 0..p - 1 /\ exp = p * 0 + exp /\ 0 \in Int /\ exp \in Int
    BY <1>1, <2>1
  <2>3. exp \div p = 0
    BY <2>2, DivIs
  <2>. QED
    BY <2>1, <2>3
<1>8. PICK e \in Nat : exp = Power(2, n) * 0 + e /\ IntOf(f[n][1]) = Power(b, e)
  BY <1>2, <1>6, <1>7
<1>9. e = exp
  <2>1. PICK p \in Nat \ {0} : p = Power(2, n)
    BY <1>1, HalfOf
  <2>2. p * 0 + e = e
    OBVIOUS
  <2>. QED
    BY <1>8, <2>1, <2>2
<1>10. f[n] \in Bigs \X Bigs
  <2>1. n \in 0..n
    BY <1>1
  <2>. QED
    BY <1>3, <2>1
<1>11. pow_u32(x, exp) = f[n][1]
  BY DEF pow_u32, f, n
<1>. QED
  BY <1>2, <1>8, <1>9, <1>10, <1>11

-----------------------------------------------------------------------------
(* Exponents and floats.                                                   *)
LEMMA PowerMono ==
  ASSUME NEW m \in Nat, NEW n \in Nat, m <= n
  PROVE  Power(2, m) \in Nat \ {0} /\ Power(2, n) \in Nat \ {0} /\ Power(2, m) <= Power(2, n)
<1>1. Power(2, m) \in Nat \ {0} /\ Power(2, n) \in Nat \ {0}
  BY HalfOf
<1>2. CASE m = n
  BY <1>1, <1>2
<1>3. CASE m < n
  <2>1. 2 \in Nat /\ 2 > 1
    OBVIOUS
  <2>2. Power(2, m) < Power(2, n)
    BY <1>3, <2>1, PowerGrows
  <2>. QED
    BY <1>1, <2>2
<1>. QED
  BY <1>2, <1>3

LEMMA ExponentsAre ==
  /\ EMin \in Int /\ EMax \in Int /\ Prec \in Nat \ {0, 1} /\ EMin < 0 /\ Prec <= EMax
  /\ MinExp \in Int /\ MinExp = EMin - (Prec - 1) /\ MinExp < 0 /\ -MinExp \in Nat
  /\ EMax - (Prec - 1) \in Int /\ 0 < EMax - (Prec - 1) /\ EMax + 1 - MinExp \in Nat
  /\ \A e \in MinExp..EMax - (Prec - 1) : e \in Int /\ e - MinExp \in Nat /\ Prec + (e - MinExp) <= EMax + 1 - MinExp
  /\ 0 \in MinExp..EMax - (Prec - 1) /\ MinExp \in MinExp..EMax - (Prec - 1)
<1>1. EMin \in Int /\ EMax \in Int /\ Prec \in Nat \ {0, 1} /\ EMin < 0 /\ Prec <= EMax
  BY WidthAssumption
<1>. QED
  BY <1>1 DEF MinExp

LEMMA PrecPower == Power(2, Prec) \in Nat \ {0}
  BY ExponentsAre, HalfOf

LEMMA FloatIs ==
  ASSUME NEW f \in Floats
  PROVE  /\ f.kind \in {"finite", "inf", "nan"} /\ f.neg \in BOOLEAN
         /\ f.m \in 0..Power(2, Prec) - 1 /\ f.m \in Nat
         /\ f.e \in MinExp..EMax - (Prec - 1) /\ f.e \in Int
         /\ f = [kind |-> f.kind, neg |-> f.neg, m |-> f.m, e |-> f.e]
<1>1. f.m \in Nat /\ f.e \in Int
  <2>1. f.m \in 0..Power(2, Prec) - 1 /\ f.e \in EMin - (Prec - 1)..EMax - (Prec - 1)
    BY DEF Floats
  <2>. QED
    BY <2>1, PrecPower, ExponentsAre
<1>. QED
  BY <1>1 DEF Floats, MinExp

LEMMA MadeFloat ==
  ASSUME NEW neg \in BOOLEAN
  PROVE  /\ \A m \in 0..Power(2, Prec) - 1, e \in MinExp..EMax - (Prec - 1) : Finite(neg, m, e) \in Floats
         /\ Infinite(neg) \in Floats /\ NaN \in Floats /\ signed_zero(neg) \in Floats
<1>1. 0 \in 0..Power(2, Prec) - 1 /\ 0 \in MinExp..EMax - (Prec - 1) /\ MinExp \in MinExp..EMax - (Prec - 1)
  BY PrecPower, ExponentsAre
<1>2. MinExp = EMin - (Prec - 1)
  BY DEF MinExp
<1>3. \A m \in 0..Power(2, Prec) - 1, e \in MinExp..EMax - (Prec - 1) : Finite(neg, m, e) \in Floats
  BY <1>2 DEF Finite, Floats
<1>4. Infinite(neg) \in Floats /\ NaN \in Floats
  BY <1>1, <1>2 DEF Infinite, NaN, Floats
<1>. QED
  BY <1>1, <1>3, <1>4 DEF signed_zero

-----------------------------------------------------------------------------
(* Moving down.                                                            *)
PartOf(x, i, w) ==
  ((x.d[i] + (IF i < Len(x.d) THEN x.d[i + 1] ELSE 0) * Base) \div w) % Base

LEMMA ShrTyped ==
  ASSUME NEW x \in Bigs, NEW bits \in Nat
  PROVE  shr(x, bits) \in Bigs /\ (~x.neg => ~shr(x, bits).neg)
<1>1. PICK n \in Nat : n = Len(x.d) /\ \A i \in 1..n : x.d[i] \in Nat
  BY BigIs, LimbsAre
<1>2. PICK down \in Nat : down = bits \div LimbBits
  BY BitsSplit
<1>3. PICK w \in Nat \ {0} : w = Power(2, bits % LimbBits)
  BY BitsSplit, BaseIs
<1>4. PICK B \in Nat : B = Base /\ B > 1
  BY BaseIs
<1>5. CASE is_zero(x) \/ bits = 0
  BY <1>5 DEF shr
<1>6. CASE ~(is_zero(x) \/ bits = 0) /\ down >= n
  <2>1. shr(x, bits) = zero
    BY <1>1, <1>2, <1>6 DEF shr
  <2>. QED
    BY <2>1, ZeroIs
<1>7. CASE ~(is_zero(x) \/ bits = 0) /\ down < n
  <2> DEFINE d == [i \in 1..n - down |-> PartOf(x, i + down, w)]
  <2>1. \A i \in 1..n : PartOf(x, i, w) \in Limb
    <3> SUFFICES ASSUME NEW i \in 1..n PROVE PartOf(x, i, w) \in Limb
      OBVIOUS
    <3>1. PICK a \in Nat : a = x.d[i]
      BY <1>1
    <3>2. PICK h \in Nat : h = (IF i < n THEN x.d[i + 1] ELSE 0)
      <4>1. i < n => i + 1 \in 1..n
        BY <1>1
      <4>. QED
        BY <1>1, <4>1
    <3>3. a + h * B \in Nat
      BY <1>4
    <3>4. PICK q \in Nat : q = (a + h * B) \div w
      BY <3>3, QuotNat
    <3>5. q % B \in 0..B - 1
      BY <1>4
    <3>. QED
      BY <1>1, <1>4, <3>1, <3>2, <3>4, <3>5 DEF PartOf, Limb
  <2>2. n - down \in Nat /\ \A i \in 1..n - down : i + down \in 1..n
    BY <1>7
  <2>3. d \in Seq(Limb)
    <3>1. \A i \in 1..n - down : PartOf(x, i + down, w) \in Limb
      BY <2>1, <2>2
    <3>. QED
      BY <2>2, <3>1
  <2>4. shr(x, bits) = normalize(Big(x.neg, d))
    <3>1. ~(down >= n)
      BY <1>7
    <3>. QED
      BY <1>1, <1>2, <1>3, <1>7, <3>1 DEF shr, PartOf
  <2>. HIDE DEF d
  <2>. QED
    BY <2>3, <2>4, NormalizeIs, BigIs
<1>. QED
  BY <1>5, <1>6, <1>7

LEMMA FromExactTyped ==
  ASSUME NEW f \in Floats
  PROVE  /\ ~IsWhole(f) => from_f64_exact(f) = None
         /\ IsWhole(f) => from_f64_exact(f) \in Bigs
<1>1. CASE ~IsWhole(f)
  BY <1>1 DEF from_f64_exact
<1>2. CASE IsWhole(f)
  <2>1. PICK m \in Nat, e \in Int : m = f.m /\ e = f.e
    BY FloatIs
  <2>2. m < Base * Base
    <3>1. PICK P \in Nat : P = Power(2, Prec) /\ m \in 0..P - 1
      BY <2>1, FloatIs, PrecPower
    <3>2. Prec \in Nat /\ IntBits \in Nat /\ Prec <= IntBits
      BY WidthAssumption, IntSize
    <3>3. P <= Base * Base /\ Base * Base \in Nat
      BY <3>1, <3>2, PowerMono, IntSize
    <3>. QED
      BY <3>1, <3>3
  <2>3. from_u64(m) \in Bigs
    BY <2>2, FromU64
  <2>4. Moved(from_u64(m), e) \in Bigs
    <3>1. CASE e >= 0
      <4>1. e \in Nat
        BY <3>1
      <4>. QED
        BY <2>3, <3>1, <4>1, ShlIs DEF Moved
    <3>2. CASE ~(e >= 0)
      <4>1. -e \in Nat
        BY <3>2
      <4>. QED
        BY <2>3, <3>2, <4>1, ShrTyped DEF Moved
    <3>. QED
      BY <3>1, <3>2
  <2>. QED
    BY <1>2, <2>1, <2>4, SignedIs, FloatIs DEF from_f64_exact
<1>. QED
  BY <1>1, <1>2

-----------------------------------------------------------------------------
(* Newton's iteration: the guesses decrease until one settles.             *)
LEMMA NewtonTyped ==
  ASSUME NEW n \in Nats, NEW x \in Nats
  PROVE  Newton(n, x) \in Nats
<1>1. n \in Bigs /\ x \in Bigs /\ ~n.neg /\ ~x.neg
  BY NatIs
<1>2. PICK q \in Bigs, r \in Bigs : divmod_floor(n, x) = <<q, r>>
  BY <1>1, DivModFloorIs
<1>3. ~q.neg
  <2>1. abs(n) \in Nats /\ abs(x) \in Nats
    BY <1>1, AbsNat
  <2>2. PICK s \in Nats, t \in Nats : divmod_mag(abs(n), abs(x)) = <<s, t>>
    BY <2>1, DivModMagIs
  <2>3. n.neg = FALSE /\ x.neg = FALSE
    BY <1>1, BigIs
  <2>4. divmod_floor(n, x) = FloorOf(n, x, s, t)
    BY <2>2 DEF divmod_floor, OfPair
  <2>5. FloorOf(n, x, s, t) = <<s, NegIf(n.neg, t)>>
    BY <2>3 DEF FloorOf
  <2>. QED
    BY <1>2, <2>4, <2>5, NatIs
<1>4. add(x, q) \in Bigs /\ IntOf(add(x, q)) \in Nat
  <2>1. IntOf(x) \in Nat
    BY NatIs
  <2>2. IntOf(q) \in Nat
    BY <1>3, IntOfIs
  <2>. QED
    BY <1>1, <2>1, <2>2, AddIs
<1>5. ~add(x, q).neg
  <2>1. ~(IntOf(add(x, q)) < 0)
    BY <1>4
  <2>. QED
    BY <1>4, <2>1, IntOfIs
<1>6. 1 \in Nat
  OBVIOUS
<1>7. shr(add(x, q), 1) \in Bigs /\ ~shr(add(x, q), 1).neg
  BY <1>4, <1>5, <1>6, ShrTyped
<1>. QED
  BY <1>2, <1>7 DEF Newton, Nats

-----------------------------------------------------------------------------
(* The integer square root ends.                                           *)
GuessAt(u, n, k) == IF k = 0 THEN shl(one, bit_len(n) \div 2) ELSE Newton(n, u[k - 1])

LEMMA StepsAre ==
  ASSUME NEW n \in Nats
  PROVE  /\ Steps(n) \in Nat /\ Steps(n) + 1 \in Nat
         /\ shl(one, bit_len(n) \div 2) \in Nats /\ IntOf(shl(one, bit_len(n) \div 2)) = Steps(n)
<1>1. bit_len(n) \div 2 \in Nat
  <2>1. bit_len(n) \in Nat /\ 2 \in Nat \ {0}
    BY NatIs, BitLenOf
  <2>. QED
    BY <2>1, QuotNat
<1>2. PICK s \in Nat \ {0} : s = Power(2, bit_len(n) \div 2)
  BY <1>1, HalfOf
<1>3. shl(one, bit_len(n) \div 2) \in Bigs /\ IntOf(shl(one, bit_len(n) \div 2)) = 1 * s
  BY <1>1, <1>2, OneIs, ShlIs
<1>. QED
  BY <1>2, <1>3, IsNat DEF Steps

LEMMA GuessesAre ==
  ASSUME NEW n \in Nats
  PROVE  /\ Guesses(n)[0] = shl(one, bit_len(n) \div 2)
         /\ \A k \in 0..Steps(n) + 1 : Guesses(n)[k] \in Nats
<1> DEFINE e == Steps(n) + 1
           g0 == shl(one, bit_len(n) \div 2)
           E == [z \in (1..e) \X Nats |-> Newton(n, z[2])]
           Fits(u) == u = [k \in 0..e |-> GuessAt(u, n, k)]
           chosen == CHOOSE u : Fits(u)
<1>0. e \in Nat /\ g0 \in Nats
  BY StepsAre
<1>. HIDE DEF e, g0
<1>1. E \in [(1..e) \X Nats -> Nats] /\ \A k \in 1..e, v \in Nats : E[<<k, v>>] = Newton(n, v)
  <2>1. \A z \in (1..e) \X Nats : z[1] \in 1..e /\ z[2] \in Nats
    OBVIOUS
  <2>2. \A k \in 1..e, v \in Nats : <<k, v>> \in (1..e) \X Nats /\ <<k, v>>[1] = k /\ <<k, v>>[2] = v
    OBVIOUS
  <2>3. E \in [(1..e) \X Nats -> Nats]
    BY <2>1, NewtonTyped
  <2>4. \A k \in 1..e, v \in Nats : E[<<k, v>>] = Newton(n, v)
    BY <2>2
  <2>. QED
    BY <2>3, <2>4
<1>2. \E u : Fits(u)
  <2>. HIDE DEF E
  <2>1. PICK f : Loops(f, Nats, g0, E, e)
    BY <1>0, <1>1, LoopExists
  <2>2. f \in [0..e -> Nats] /\ f[0] = g0 /\ \A k \in 1..e : f[k] = E[<<k, f[k - 1]>>]
    BY <2>1 DEF Loops
  <2>3. \A k \in 1..e : f[k - 1] \in Nats
    <3>1. \A k \in 1..e : k - 1 \in 0..e
      BY <1>0
    <3>. QED
      BY <2>2, <3>1
  <2>4. \A k \in 1..e : f[k] = Newton(n, f[k - 1])
    BY <1>1, <2>2, <2>3
  <2>5. \A k \in 0..e : f[k] = GuessAt(f, n, k)
    <3> SUFFICES ASSUME NEW k \in 0..e PROVE f[k] = GuessAt(f, n, k)
      OBVIOUS
    <3>1. CASE k = 0
      BY <2>2, <3>1 DEF GuessAt, g0
    <3>2. CASE k # 0
      <4>1. k \in 1..e
        BY <1>0, <3>2
      <4>. QED
        BY <2>4, <3>2, <4>1 DEF GuessAt
    <3>. QED
      BY <3>1, <3>2
  <2>. QED
    BY <2>2, <2>5
<1>3. Fits(chosen)
  BY <1>2
<1>4. Guesses(n) = chosen
  BY DEF Guesses, GuessAt, e
<1>. HIDE DEF chosen
<1>5. chosen[0] = g0 /\ \A k \in 1..e : chosen[k] = Newton(n, chosen[k - 1])
  <2>1. 0 \in 0..e /\ \A k \in 1..e : k \in 0..e /\ k # 0
    BY <1>0
  <2>2. \A k \in 0..e : chosen[k] = GuessAt(chosen, n, k)
    BY <1>3
  <2>. QED
    BY <2>1, <2>2 DEF GuessAt, g0
<1>6. \A k \in 0..e : chosen[k] \in Nats
  <2>1. \A k \in 1..e : chosen[k - 1] \in Nats => chosen[k] \in Nats
    BY <1>5, NewtonTyped
  <2>. QED
    BY <1>0, <1>5, <2>1, LoopTyped
<1>. QED
  BY <1>4, <1>5, <1>6 DEF e, g0

LEMMA IsqrtTyped ==
  ASSUME NEW n \in Nats
  PROVE  isqrt(n) \in Nats
<1>1. CASE is_zero(n)
  BY <1>1, ZeroNat DEF isqrt
<1>2. CASE ~is_zero(n)
  <2>1. PICK s \in Nat : s = Steps(n)
    BY StepsAre
  <2>2. PICK g : g = Guesses(n)
    OBVIOUS
  <2>3. IntOf(g[0]) = s /\ \A k \in 0..s + 1 : g[k] \in Nats
    BY <2>1, <2>2, GuessesAre, StepsAre
  <2>4. \A k \in 0..s : (Settles(g, k) \/ ~Settles(g, k)) /\ (~Settles(g, k) => IntOf(g[k + 1]) < IntOf(g[k]))
    <3> SUFFICES ASSUME NEW k \in 0..s, ~Settles(g, k) PROVE IntOf(g[k + 1]) < IntOf(g[k])
      OBVIOUS
    <3>1. k \in 0..s + 1 /\ k + 1 \in 0..s + 1
      OBVIOUS
    <3>2. PICK x \in Nats, y \in Nats : x = g[k] /\ y = g[k + 1]
      BY <2>3, <3>1
    <3>3. IntOf(x) \in Nat /\ IntOf(y) \in Nat /\ x \in Bigs /\ y \in Bigs
      BY NatIs
    <3>4. cmp(y, x) = Cmp(IntOf(y), IntOf(x))
      BY <3>3, CmpBigs
    <3>5. ~(Cmp(IntOf(y), IntOf(x)) >= 0)
      BY <3>2, <3>4 DEF Settles
    <3>. QED
      BY <3>2, <3>3, <3>5 DEF Cmp
  <2>5. \E k \in 0..s : Settles(g, k)
    <3>1. SUFFICES ASSUME \A k \in 0..s : ~Settles(g, k) PROVE FALSE
      OBVIOUS
    <3> DEFINE P == {k \in 0..s + 1 : IntOf(g[k]) <= s - k}
    <3>2. 0 \in P
      BY <2>1, <2>3
    <3>3. \A k \in 1..s + 1 : k - 1 \in P => k \in P
      <4> SUFFICES ASSUME NEW k \in 1..s + 1, k - 1 \in P PROVE k \in P
        OBVIOUS
      <4>1. k - 1 \in 0..s /\ k - 1 + 1 = k /\ k \in 0..s + 1 /\ k - 1 \in 0..s + 1
        OBVIOUS
      <4>2. IntOf(g[k]) < IntOf(g[k - 1])
        <5>1. ~Settles(g, k - 1)
          BY <3>1, <4>1
        <5>2. IntOf(g[k - 1 + 1]) < IntOf(g[k - 1])
          BY <2>4, <4>1, <5>1
        <5>. QED
          BY <4>1, <5>2
      <4>3. IntOf(g[k]) \in Nat /\ IntOf(g[k - 1]) \in Nat
        BY <2>3, <4>1, NatIs
      <4>4. IntOf(g[k - 1]) <= s - (k - 1)
        OBVIOUS
      <4>. QED
        BY <4>1, <4>2, <4>3, <4>4
    <3>4. s + 1 \in P
      <4>. HIDE DEF P
      <4>1. s + 1 \in Nat /\ s + 1 \in 0..s + 1
        OBVIOUS
      <4>2. 0..s + 1 \subseteq P
        BY <3>2, <3>3, <4>1, UpInduction
      <4>. QED
        BY <4>1, <4>2
    <3>5. IntOf(g[s + 1]) \in Nat
      <4>1. s + 1 \in 0..s + 1
        OBVIOUS
      <4>. QED
        BY <2>3, <4>1, NatIs
    <3>. QED
      BY <3>4, <3>5
  <2> DEFINE T == {k \in 0..s : Settles(g, k)}
  <2>6. PICK k \in T : \A j \in T : ~(j < k)
    <3>1. T \in SUBSET Nat /\ T # {}
      BY <2>5
    <3>. HIDE DEF T
    <3>. QED
      BY <3>1, LeastElement
  <2>7. k \in 0..s /\ Settles(g, k) /\ \A j \in 0..k - 1 : ~Settles(g, j)
    <3>1. k \in 0..s /\ Settles(g, k)
      OBVIOUS
    <3>2. \A j \in 0..k - 1 : j \in 0..s /\ j < k
      BY <3>1
    <3>. QED
      BY <2>6, <3>1, <3>2
  <2> DEFINE c == CHOOSE i \in 0..s : Settles(g, i) /\ \A j \in 0..i - 1 : ~Settles(g, j)
  <2>8. c \in 0..s
    BY <2>7
  <2>9. isqrt(n) = g[c]
    BY <1>2, <2>1, <2>2 DEF isqrt, SqrtFrom
  <2>. HIDE DEF c
  <2>10. c \in 0..s + 1
    BY <2>8
  <2>. QED
    BY <2>3, <2>9, <2>10
<1>. QED
  BY <1>1, <1>2

-----------------------------------------------------------------------------
(* The leading bits of a big.                                              *)
SigAt(u, q, top, i) ==
  IF i = 0 THEN 0 ELSE 2 * u[i - 1] + BoolBit(top + 1 - i >= 0 /\ bit(q, top + 1 - i))
NextSig(s, q, top, i) == 2 * s + BoolBit(top + 1 - i >= 0 /\ bit(q, top + 1 - i))

LEMMA BitLenExact ==
  ASSUME NEW x \in Bigs, NEW l \in Nat \ {0}, Power(2, l - 1) <= Mag(x.d), Mag(x.d) < Power(2, l)
  PROVE  bit_len(x) = l
<1>1. PICK k \in Nat : k = bit_len(x) /\ Mag(x.d) < Power(2, k)
                       /\ (x.d = <<>> => Mag(x.d) = 0)
                       /\ (x.d # <<>> => k \in Nat \ {0} /\ Power(2, k - 1) <= Mag(x.d))
  BY BitLenOf
<1>2. PICK m \in Nat : m = Mag(x.d)
  BY BigIs
<1>3. l - 1 \in Nat /\ Power(2, l - 1) \in Nat \ {0} /\ Power(2, l) \in Nat \ {0} /\ Power(2, k) \in Nat \ {0}
  <2>1. l - 1 \in Nat /\ l \in Nat
    OBVIOUS
  <2>. QED
    BY <2>1, HalfOf
<1>4. m # 0
  BY <1>2, <1>3
<1>5. k \in Nat \ {0} /\ Power(2, k - 1) <= m /\ k - 1 \in Nat /\ Power(2, k - 1) \in Nat
  <2>1. k \in Nat \ {0} /\ Power(2, k - 1) <= m
    BY <1>1, <1>2, <1>4
  <2>2. k - 1 \in Nat
    BY <2>1
  <2>. QED
    BY <2>1, <2>2, HalfOf
<1>6. ~(k < l)
  <2>1. SUFFICES ASSUME k < l PROVE FALSE
    OBVIOUS
  <2>2. Power(2, k) <= Power(2, l - 1)
    BY <1>3, <2>1, PowerMono
  <2>. QED
    BY <1>1, <1>2, <1>3, <2>2
<1>7. ~(l < k)
  <2>1. SUFFICES ASSUME l < k PROVE FALSE
    OBVIOUS
  <2>2. Power(2, l) <= Power(2, k - 1)
    BY <1>5, <2>1, PowerMono
  <2>. QED
    BY <1>2, <1>3, <1>5, <2>2
<1>. QED
  BY <1>1, <1>6, <1>7

LEMMA TopBit ==
  ASSUME NEW q \in Bigs, ~is_zero(q)
  PROVE  bit_len(q) - 1 \in Nat /\ bit(q, bit_len(q) - 1)
<1>1. q.d # <<>>
  BY DEF is_zero
<1>2. PICK l \in Nat \ {0} : l = bit_len(q) /\ Mag(q.d) < Power(2, l) /\ Power(2, l - 1) <= Mag(q.d)
  BY <1>1, BitLenOf
<1>3. PICK m \in Nat : m = Mag(q.d)
  BY BigIs
<1>4. PICK w \in Nat \ {0} : w = Power(2, l - 1) /\ Power(2, l) = 2 * w
  <2>1. l - 1 \in Nat /\ (l - 1) + 1 = l /\ 2 \in Int
    OBVIOUS
  <2>2. Power(2, l - 1 + 1) = 2 * Power(2, l - 1)
    BY <2>1, PowerNext
  <2>. QED
    BY <2>1, <2>2, HalfOf
<1>5. m = w * 1 + (m - w) /\ m - w \in 0..w - 1 /\ 1 \in Int
  BY <1>2, <1>3, <1>4
<1>6. m \div w = 1
  BY <1>5, DivIs
<1>7. l - 1 \in Nat /\ 1 % 2 = 1
  OBVIOUS
<1>8. bit(q, l - 1)
  BY <1>3, <1>4, <1>6, <1>7, BitIs
<1>. QED
  BY <1>2, <1>7, <1>8

LEMMA BoolBitIs == \A b : BoolBit(b) \in 0..1 /\ (b => BoolBit(b) = 1)
BY DEF BoolBit

\* The loop of f64_from_scaled that takes the bits from the top.
LEMMA SignificandSteps ==
  ASSUME NEW q, NEW top \in Nat
  PROVE  \E c : /\ c[0] = 0 /\ Significand(q, top) = c[Prec]
                /\ \A k \in 1..Prec : c[k] = NextSig(c[k - 1], q, top, k)
<1> DEFINE E == [z \in (1..Prec) \X Nat |-> NextSig(z[2], q, top, z[1])]
           Fits(u) == u = [i \in 0..Prec |-> SigAt(u, q, top, i)]
           chosen == CHOOSE u : Fits(u)
<1>0. Prec \in Nat \ {0, 1}
  BY ExponentsAre
<1>1. \A i \in 1..Prec, s \in Nat : NextSig(s, q, top, i) \in Nat
  <2> SUFFICES ASSUME NEW i \in 1..Prec, NEW s \in Nat PROVE NextSig(s, q, top, i) \in Nat
    OBVIOUS
  <2>1. BoolBit(top + 1 - i >= 0 /\ bit(q, top + 1 - i)) \in 0..1
    BY BoolBitIs
  <2>. QED
    BY <2>1 DEF NextSig
<1>2. E \in [(1..Prec) \X Nat -> Nat] /\ \A i \in 1..Prec, s \in Nat : E[<<i, s>>] = NextSig(s, q, top, i)
  <2>1. \A z \in (1..Prec) \X Nat : z[1] \in 1..Prec /\ z[2] \in Nat
    OBVIOUS
  <2>2. \A k \in 1..Prec, v \in Nat : <<k, v>> \in (1..Prec) \X Nat /\ <<k, v>>[1] = k /\ <<k, v>>[2] = v
    OBVIOUS
  <2>3. E \in [(1..Prec) \X Nat -> Nat]
    BY <1>1, <2>1
  <2>4. \A i \in 1..Prec, s \in Nat : E[<<i, s>>] = NextSig(s, q, top, i)
    BY <2>2
  <2>. QED
    BY <2>3, <2>4
<1>3. \E u : Fits(u)
  <2>. HIDE DEF E
  <2>1. PICK f : Loops(f, Nat, 0, E, Prec)
    BY <1>0, <1>2, LoopExists
  <2>2. f \in [0..Prec -> Nat] /\ f[0] = 0 /\ \A k \in 1..Prec : f[k] = E[<<k, f[k - 1]>>]
    BY <2>1 DEF Loops
  <2>3. \A k \in 1..Prec : f[k - 1] \in Nat
    <3>1. \A k \in 1..Prec : k - 1 \in 0..Prec
      BY <1>0
    <3>. QED
      BY <2>2, <3>1
  <2>4. \A k \in 1..Prec : f[k] = NextSig(f[k - 1], q, top, k)
    BY <1>2, <2>2, <2>3
  <2>5. \A k \in 0..Prec : f[k] = SigAt(f, q, top, k)
    <3> SUFFICES ASSUME NEW k \in 0..Prec PROVE f[k] = SigAt(f, q, top, k)
      OBVIOUS
    <3>1. CASE k = 0
      BY <2>2, <3>1 DEF SigAt
    <3>2. CASE k # 0
      <4>1. k \in 1..Prec
        BY <1>0, <3>2
      <4>. QED
        BY <2>4, <3>2, <4>1 DEF SigAt, NextSig
    <3>. QED
      BY <3>1, <3>2
  <2>. QED
    BY <2>2, <2>5
<1>4. Fits(chosen)
  BY <1>3
<1>5. Significand(q, top) = chosen[Prec]
  BY DEF Significand, SigAt
<1>. HIDE DEF chosen
<1>6. chosen[0] = 0 /\ \A k \in 1..Prec : chosen[k] = NextSig(chosen[k - 1], q, top, k)
  <2>1. 0 \in 0..Prec /\ \A k \in 1..Prec : k \in 0..Prec /\ k # 0
    BY <1>0
  <2>2. \A k \in 0..Prec : chosen[k] = SigAt(chosen, q, top, k)
    BY <1>4
  <2>. QED
    BY <2>1, <2>2 DEF SigAt, NextSig
<1>. QED
  BY <1>5, <1>6

LEMMA SignificandIs ==
  ASSUME NEW q \in Bigs, ~is_zero(q)
  PROVE  LET s == Significand(q, bit_len(q) - 1)
         IN  s \in 0..Power(2, Prec) - 1 /\ Power(2, Prec - 1) <= s /\ s # 0
<1>0. Prec \in Nat \ {0, 1}
  BY ExponentsAre
<1>5. PICK top \in Nat : top = bit_len(q) - 1 /\ bit(q, top)
  BY TopBit
<1>6. PICK chosen : /\ chosen[0] = 0 /\ Significand(q, top) = chosen[Prec]
                    /\ \A k \in 1..Prec : chosen[k] = NextSig(chosen[k - 1], q, top, k)
  BY SignificandSteps
<1> DEFINE P == {k \in 0..Prec : /\ chosen[k] \in 0..Power(2, k) - 1
                                 /\ k # 0 => Power(2, k - 1) <= chosen[k]}
<1>7. 0 \in P
  <2>1. Power(2, 0) = 1
    BY PowerZero
  <2>. QED
    BY <1>0, <1>6, <2>1
<1>8. \A k \in 1..Prec : k - 1 \in P => k \in P
  <2> SUFFICES ASSUME NEW k \in 1..Prec, k - 1 \in P PROVE k \in P
    OBVIOUS
  <2>1. PICK w \in Nat \ {0} : w = Power(2, k - 1) /\ Power(2, k) = 2 * w
    <3>1. k - 1 \in Nat /\ (k - 1) + 1 = k /\ 2 \in Int
      OBVIOUS
    <3>2. Power(2, k - 1 + 1) = 2 * Power(2, k - 1)
      BY <3>1, PowerNext
    <3>. QED
      BY <3>1, <3>2, HalfOf
  <2>2. PICK s \in 0..w - 1 : s = chosen[k - 1]
    BY <2>1
  <2>3. PICK c \in 0..1 : c = BoolBit(top + 1 - k >= 0 /\ bit(q, top + 1 - k)) /\ (k = 1 => c = 1)
    <3>1. BoolBit(top + 1 - k >= 0 /\ bit(q, top + 1 - k)) \in 0..1
      BY BoolBitIs
    <3>2. k = 1 => top + 1 - k >= 0 /\ bit(q, top + 1 - k)
      <4>1. top + 1 - 1 = top
        BY <1>0
      <4>. QED
        BY <1>0, <1>5, <4>1
    <3>. QED
      BY <3>1, <3>2, BoolBitIs
  <2>4. chosen[k] = 2 * s + c
    BY <1>6, <2>2, <2>3 DEF NextSig
  <2>5. chosen[k] \in 0..2 * w - 1
    BY <2>2, <2>3, <2>4
  <2>6. w <= chosen[k]
    <3>1. CASE k = 1
      <4>1. w = 1
        BY <2>1, <3>1, PowerZero
      <4>. QED
        BY <2>2, <2>3, <2>4, <3>1, <4>1
    <3>2. CASE k # 1
      <4>1. k - 1 # 0 /\ k - 1 - 1 \in Nat /\ (k - 1 - 1) + 1 = k - 1 /\ 2 \in Int
        BY <3>2
      <4>2. PICK v \in Nat : v = Power(2, k - 1 - 1) /\ w = 2 * v
        <5>1. Power(2, k - 1 - 1 + 1) = 2 * Power(2, k - 1 - 1)
          BY <4>1, PowerNext
        <5>. QED
          BY <2>1, <4>1, <5>1, HalfOf
      <4>3. v <= s
        BY <2>2, <4>1, <4>2
      <4>. QED
        BY <2>2, <2>4, <4>2, <4>3
    <3>. QED
      BY <3>1, <3>2
  <2>7. k \in 0..Prec
    BY <1>0
  <2>. QED
    BY <2>1, <2>5, <2>6, <2>7
<1>9. Prec \in P
  <2>. HIDE DEF P
  <2>1. Prec \in Nat /\ Prec \in 0..Prec
    BY <1>0
  <2>2. 0..Prec \subseteq P
    BY <1>7, <1>8, <2>1, UpInduction
  <2>. QED
    BY <2>1, <2>2
<1>10. chosen[Prec] \in 0..Power(2, Prec) - 1 /\ Power(2, Prec - 1) <= chosen[Prec]
  BY <1>0, <1>9
<1>11. Power(2, Prec - 1) \in Nat \ {0}
  <2>1. Prec - 1 \in Nat
    BY <1>0
  <2>. QED
    BY <2>1, HalfOf
<1>12. chosen[Prec] # 0
  BY <1>10, <1>11
<1>. QED
  BY <1>5, <1>6, <1>10, <1>12

-----------------------------------------------------------------------------
(* Significands packed into floats.                                        *)
Mants == {m \in 0..Power(2, Prec) - 1 : Power(2, Prec - 1) <= m}
Maybe == Floats \cup {None}
NonZero(f) == f = None \/ (f \in Floats /\ f.kind = "finite" /\ f.m # 0)

\* A significand has a nonzero leading bit, and half of one has room for a carry.
LEMMA MantsAre ==
  /\ Power(2, Prec) \in Nat /\ Power(2, Prec - 1) \in Nat \ {0, 1}
  /\ Power(2, Prec) = 2 * Power(2, Prec - 1)
  /\ Power(2, Prec - 1) \in Mants
  /\ \A m \in Mants : m \in Nat \ {0} /\ m < Power(2, Prec) /\ m \in 0..Power(2, Prec) - 1
<1>1. Prec \in Nat \ {0, 1} /\ Prec - 1 \in Nat \ {0} /\ Prec - 1 + 1 = Prec /\ Prec - 2 \in Nat /\ Prec - 2 + 1 = Prec - 1
  BY ExponentsAre
<1>2. PICK h \in Nat \ {0} : h = Power(2, Prec - 2)
  <2>1. 2 \in Nat \ {0}
    OBVIOUS
  <2>. QED
    BY <1>1, <2>1, PowerNat
<1>3. 2 \in Int
  OBVIOUS
<1>4. Power(2, Prec - 1) = 2 * h
  BY <1>1, <1>2, <1>3, PowerNext
<1>5. Power(2, Prec) = 2 * Power(2, Prec - 1)
  BY <1>1, <1>3, PowerNext
<1>. QED
  BY <1>4, <1>5 DEF Mants

\* A packed significand is a float, or None above the exponents; at a normal
\* exponent it is not zero (bigint.rs f64_from_scaled).
LEMMA PackedIs ==
  ASSUME NEW neg \in BOOLEAN, NEW mant \in Mants, NEW exp \in Int, NEW lost
  PROVE  /\ Packed(neg, mant, exp, lost) \in Maybe
         /\ exp >= EMin => NonZero(Packed(neg, mant, exp, lost))
<1>0. /\ EMin \in Int /\ EMax \in Int /\ Prec \in Nat \ {0, 1} /\ MinExp \in Int /\ MinExp = EMin - (Prec - 1)
      /\ mant \in Nat \ {0} /\ mant \in 0..Power(2, Prec) - 1
  BY ExponentsAre, MantsAre
<1>1. CASE exp > EMax
  BY <1>1 DEF Packed, Maybe, NonZero
<1>2. CASE ~(exp > EMax) /\ exp < MinExp
  <2>1. Packed(neg, mant, exp, lost) = signed_zero(neg)
    BY <1>2 DEF Packed
  <2>2. ~(exp >= EMin)
    BY <1>0, <1>2
  <2>. QED
    BY <2>1, <2>2, MadeFloat DEF Maybe
<1>3. CASE ~(exp > EMax) /\ ~(exp < MinExp) /\ exp >= EMin
  <2>1. Packed(neg, mant, exp, lost) = Finite(neg, mant, exp - (Prec - 1))
    BY <1>3 DEF Packed
  <2>2. exp - (Prec - 1) \in MinExp..EMax - (Prec - 1)
    BY <1>0, <1>3
  <2>3. Finite(neg, mant, exp - (Prec - 1)) \in Floats
    BY <1>0, <2>2, MadeFloat
  <2>. QED
    BY <1>0, <2>1, <2>3 DEF Maybe, NonZero, Finite
<1>4. CASE ~(exp > EMax) /\ ~(exp < MinExp) /\ ~(exp >= EMin)
  <2>1. PICK k \in Nat : k = EMin - exp /\ k - 1 \in Nat /\ k - 1 + 1 = k
    BY <1>0, <1>4
  <2>2. PICK w \in Nat \ {0} : w = Power(2, k)
    BY HalfOf
  <2>3. mant \div w \in Nat /\ mant \div w + 1 \in 0..Power(2, Prec) - 1 /\ mant \div w \in 0..Power(2, Prec) - 1
    <3>1. PICK v \in Nat \ {0} : v = Power(2, k - 1)
      <4>1. k - 1 \in Nat
        BY <2>1
      <4>. QED
        BY <4>1, HalfOf
    <3>2. w = 2 * v
      <4>1. 2 \in Int /\ k - 1 \in Nat
        BY <2>1
      <4>. QED
        BY <2>1, <2>2, <3>1, <4>1, PowerNext
    <3>3. PICK h \in Nat \ {0, 1} : h = Power(2, Prec - 1) /\ Power(2, Prec) = 2 * h
      BY MantsAre
    <3>4. mant < 2 * h
      BY <1>0, <3>3
    <3>5. PICK q \in Nat : q = mant \div w /\ w * q <= mant
      <4>1. mant \in Nat
        BY <1>0
      <4>2. mant \div w \in Nat /\ mant % w \in 0..w - 1 /\ mant = w * (mant \div w) + (mant % w)
        BY <4>1, QuotNat
      <4>3. PICK q \in Nat, r \in Nat : q = mant \div w /\ r = mant % w
        BY <4>2
      <4>4. w * q \in Nat
        OBVIOUS
      <4>. QED
        BY <4>2, <4>3, <4>4
    <3>6. q <= v * q
      OBVIOUS
    <3>7. v * q \in Nat /\ w * q = 2 * (v * q)
      BY <3>2
    <3>8. mant \in Nat
      BY <1>0
    <3>9. q < h
      BY <3>4, <3>5, <3>6, <3>7, <3>8
    <3>. QED
      BY <3>3, <3>5, <3>9
  <2>4. Packed(neg, mant, exp, lost) \in {Finite(neg, mant \div w + 1, MinExp), Finite(neg, mant \div w, MinExp)}
    BY <1>4, <2>1, <2>2 DEF Packed
  <2>5. MinExp \in MinExp..EMax - (Prec - 1)
    BY ExponentsAre
  <2>. QED
    BY <1>4, <2>3, <2>4, <2>5, MadeFloat DEF Maybe
<1>. QED
  BY <1>1, <1>2, <1>3, <1>4

\* Rounding a significand up may carry into the next exponent.
LEMMA RoundedIs ==
  ASSUME NEW neg \in BOOLEAN, NEW mant \in Mants, NEW exp \in Int, NEW round_bit, NEW sticky
  PROVE  /\ Rounded(neg, mant, exp, round_bit, sticky) \in Maybe
         /\ exp >= EMin => NonZero(Rounded(neg, mant, exp, round_bit, sticky))
<1>0. EMin \in Int /\ exp + 1 \in Int
  BY ExponentsAre
<1>1. PICK h \in Nat \ {0, 1} : h = Power(2, Prec - 1) /\ h \in Mants
  BY MantsAre
<1>2. mant + 1 # Power(2, Prec) => mant + 1 \in Mants
  <2>1. Power(2, Prec) \in Nat /\ Power(2, Prec - 1) \in Nat /\ mant \in Nat /\ mant < Power(2, Prec)
    BY MantsAre
  <2>2. Power(2, Prec - 1) <= mant
    BY DEF Mants
  <2>. QED
    BY <2>1, <2>2 DEF Mants
<1>3. \A lost : /\ Packed(neg, mant, exp, lost) \in Maybe
                /\ exp >= EMin => NonZero(Packed(neg, mant, exp, lost))
  BY PackedIs
<1>4. /\ Packed(neg, h, exp + 1, TRUE) \in Maybe
      /\ exp + 1 >= EMin => NonZero(Packed(neg, h, exp + 1, TRUE))
  BY <1>0, <1>1, PackedIs
<1>5. mant + 1 # Power(2, Prec) => /\ Packed(neg, mant + 1, exp, TRUE) \in Maybe
                                   /\ exp >= EMin => NonZero(Packed(neg, mant + 1, exp, TRUE))
  BY <1>2, PackedIs
<1>6. \/ \E lost : Rounded(neg, mant, exp, round_bit, sticky) = Packed(neg, mant, exp, lost)
      \/ Rounded(neg, mant, exp, round_bit, sticky) = Packed(neg, h, exp + 1, TRUE)
      \/ mant + 1 # Power(2, Prec) /\ Rounded(neg, mant, exp, round_bit, sticky) = Packed(neg, mant + 1, exp, TRUE)
  BY <1>1 DEF Rounded
<1>7. exp >= EMin => exp + 1 >= EMin
  BY <1>0
<1>. QED
  BY <1>3, <1>4, <1>5, <1>6, <1>7

\* A scaled big as a float (bigint.rs f64_from_scaled).
LEMMA FromScaledIs ==
  ASSUME NEW q \in Bigs, NEW scale \in Int, NEW sticky, NEW neg \in BOOLEAN
  PROVE  /\ f64_from_scaled(q, scale, sticky, neg) \in Maybe
         /\ ~is_zero(q) /\ bit_len(q) - 1 + scale >= EMin => NonZero(f64_from_scaled(q, scale, sticky, neg))
<1>1. CASE is_zero(q)
  BY <1>1, MadeFloat DEF f64_from_scaled, Maybe
<1>2. CASE ~is_zero(q)
  <2>1. Significand(q, bit_len(q) - 1) \in Mants
    BY <1>2, SignificandIs DEF Mants
  <2>2. bit_len(q) - 1 + scale \in Int
    BY <1>2, TopBit
  <2>3. f64_from_scaled(q, scale, sticky, neg) =
          Rounded(neg, Significand(q, bit_len(q) - 1), bit_len(q) - 1 + scale,
                  bit_len(q) - 1 >= Prec /\ bit(q, bit_len(q) - 1 - Prec),
                  AnyLost(q, bit_len(q) - 1 - Prec, sticky))
    BY <1>2 DEF f64_from_scaled, ScaledFrom
  <2>. QED
    BY <2>1, <2>2, <2>3, RoundedIs
<1>. QED
  BY <1>1, <1>2

-----------------------------------------------------------------------------
(* Moving down is division by a power of two.                              *)

\* One limb of a number moved down by less than a limb: its upper bits, and the
\* lower bits of the limb above.
LEMMA PartSplits ==
  ASSUME NEW x \in Bigs, NEW w \in Nat \ {0}, NEW v \in Nat \ {0}, Base = w * v, NEW i \in 1..Len(x.d)
  PROVE  PartOf(x, i, w) = (x.d[i] \div w) + ((IF i < Len(x.d) THEN x.d[i + 1] ELSE 0) % w) * v
<1>1. PICK n \in Nat : n = Len(x.d) /\ \A j \in 1..n : x.d[j] \in Nat /\ x.d[j] \in Limb
  BY BigIs, LimbsAre
<1>2. PICK B \in Nat : B = Base /\ B > 1 /\ B = w * v
  BY BaseIs
<1>3. PICK a \in Nat : a = x.d[i] /\ a < B
  <2>1. x.d[i] \in 0..B - 1
    BY <1>1, <1>2 DEF Limb
  <2>. QED
    BY <2>1
<1>4. PICK h \in Nat : h = IF i < n THEN x.d[i + 1] ELSE 0
  <2>1. i < n => i + 1 \in 1..n
    BY <1>1
  <2>. QED
    BY <1>1, <2>1
<1>5. PICK t \in Nat, r \in 0..w - 1 : t = a \div w /\ r = a % w /\ a = w * t + r
  <2>1. a \div w \in Nat /\ a % w \in 0..w - 1 /\ a = w * (a \div w) + (a % w)
    BY QuotNat
  <2>. QED
    BY <2>1
<1>6. PICK u \in Nat, l \in 0..w - 1 : u = h \div w /\ l = h % w /\ h = w * u + l
  <2>1. h \div w \in Nat /\ h % w \in 0..w - 1 /\ h = w * (h \div w) + (h % w)
    BY QuotNat
  <2>. QED
    BY <2>1
<1>7. t < v
  <2>1. w * t < w * v
    <3>1. w * t \in Int /\ w * v \in Int /\ r >= 0 /\ r \in Int
      OBVIOUS
    <3>2. PICK y \in Int, z \in Int : y = w * t /\ z = w * v
      BY <3>1
    <3>3. a = y + r
      BY <1>5, <3>2
    <3>4. a < z
      BY <1>2, <1>3, <3>2
    <3>5. y < z
      BY <3>1, <3>3, <3>4
    <3>. QED
      BY <3>2, <3>5
  <2>. QED
    BY <2>1, Less
<1>8. (a + h * B) \div w = t + h * v
  <2>1. a + h * B = w * (t + h * v) + r
    <3>1. h * (w * v) = w * (h * v) /\ w * (t + h * v) = w * t + w * (h * v)
      OBVIOUS
    <3>2. h * v \in Nat /\ w * t \in Nat /\ w * (h * v) \in Nat
      OBVIOUS
    <3>. QED
      BY <1>2, <1>5, <3>1, <3>2
  <2>2. h * B \in Nat
    BY <1>2
  <2>3. a + h * B \in Int
    BY <2>2
  <2>4. t + h * v \in Int
    OBVIOUS
  <2>. QED
    BY <2>1, <2>3, <2>4, DivIs
<1>9. (t + h * v) % B = t + l * v
  <2>1. t + l * v \in 0..B - 1
    <3>1. v * l + v <= v * w
      <4>1. l \in Int /\ w \in Int /\ l < w
        OBVIOUS
      <4>. QED
        BY <4>1, Less
    <3>2. v * l = l * v /\ v * w = w * v /\ l * v \in Nat
      OBVIOUS
    <3>. QED
      BY <1>2, <1>7, <3>1, <3>2
  <2>2. t + h * v = B * u + (t + l * v)
    <3>1. h * v = (w * u) * v + l * v
      BY <1>6
    <3>2. (w * u) * v = (w * v) * u /\ l * v \in Nat /\ (w * v) * u \in Nat
      OBVIOUS
    <3>. QED
      BY <1>2, <3>1, <3>2
  <2>3. t + h * v \in Int /\ u \in Int /\ B \in Nat \ {0}
    BY <1>2
  <2>. QED
    BY <2>1, <2>2, <2>3, DivIs
<1>10. PartOf(x, i, w) = ((a + h * B) \div w) % B
  BY <1>1, <1>2, <1>3, <1>4 DEF PartOf
<1>. QED
  BY <1>1, <1>3, <1>4, <1>5, <1>6, <1>8, <1>9, <1>10

\* What moves down leaves behind less than the power (bigint.rs shr).
LEMMA ShrLimbs ==
  ASSUME NEW x \in Bigs, NEW down \in Nat, down < Len(x.d),
         NEW w \in Nat \ {0}, NEW v \in Nat \ {0}, Base = w * v,
         NEW d \in Seq(Limb), Len(d) = Len(x.d) - down,
         \A i \in 1..Len(d) : d[i] = PartOf(x, i + down, w)
  PROVE  \E r \in Nat : r < Weight(down) * w /\ Mag(x.d) = (Weight(down) * w) * Mag(d) + r
<1>1. PICK n \in Nat : n = Len(x.d) /\ x.d \in Seq(Limb) /\ x.d \in Seq(Int) /\ \A j \in 1..n : x.d[j] \in Nat
  BY BigIs, LimbsAre
<1>2. PICK m \in Nat : m = Len(d) /\ m = n - down /\ d \in Seq(Int) /\ \A j \in 1..m : d[j] \in Nat
  BY <1>1, LimbsAre
<1> DEFINE Lower(j) == IF j <= n THEN x.d[j] % w ELSE 0
           M(k) == Partials(x.d)[down + k]
           Q(k) == Partials(d)[k]
<1>3. \A j \in 1..n + 1 : Lower(j) \in 0..w - 1
  <2> SUFFICES ASSUME NEW j \in 1..n + 1 PROVE Lower(j) \in 0..w - 1
    OBVIOUS
  <2>1. CASE j <= n
    <3>1. j \in 1..n
      BY <2>1
    <3>2. x.d[j] % w \in 0..w - 1
      BY <1>1, <3>1, QuotNat
    <3>. QED
      BY <2>1, <3>2
  <2>2. CASE ~(j <= n)
    BY <2>2
  <2>. QED
    BY <2>1, <2>2
<1>4. \A i \in 1..m : /\ d[i] = (x.d[i + down] \div w) + Lower(i + down + 1) * v
                      /\ x.d[i + down] = w * (x.d[i + down] \div w) + Lower(i + down)
                      /\ x.d[i + down] \div w \in Nat
  <2> SUFFICES ASSUME NEW i \in 1..m
               PROVE  /\ d[i] = (x.d[i + down] \div w) + Lower(i + down + 1) * v
                      /\ x.d[i + down] = w * (x.d[i + down] \div w) + Lower(i + down)
                      /\ x.d[i + down] \div w \in Nat
    OBVIOUS
  <2>1. PICK j \in 1..n : j = i + down
    BY <1>2
  <2>2. d[i] = PartOf(x, j, w)
    BY <1>2, <2>1
  <2>3. PartOf(x, j, w) = (x.d[j] \div w) + ((IF j < n THEN x.d[j + 1] ELSE 0) % w) * v
    BY <1>1, PartSplits
  <2>4. (IF j < n THEN x.d[j + 1] ELSE 0) % w = Lower(j + 1)
    <3>1. 0 % w = 0
      <4>1. 0 = w * 0 + 0 /\ 0 \in 0..w - 1 /\ 0 \in Int
        OBVIOUS
      <4>. QED
        BY <4>1, DivIs
    <3>. QED
      BY <3>1
  <2>5. x.d[j] \div w \in Nat /\ x.d[j] = w * (x.d[j] \div w) + (x.d[j] % w)
    BY <1>1, QuotNat
  <2>. QED
    BY <2>1, <2>2, <2>3, <2>4, <2>5
<1>. HIDE DEF Lower
<1>5. PICK W \in Nat \ {0} : W = Weight(down)
  BY WeightNat
<1>6. \A k \in 0..m : M(k) \in Int /\ Q(k) \in Int
  <2>1. Partials(x.d) \in [0..n -> Int] /\ Partials(d) \in [0..m -> Int]
    BY <1>1, <1>2, PartialsAre
  <2>2. \A k \in 0..m : down + k \in 0..n
    BY <1>2
  <2>. QED
    BY <2>1, <2>2
<1>7. \A k \in 1..m : /\ M(k) = M(k - 1) + x.d[k + down] * (W * Weight(k - 1))
                      /\ Q(k) = Q(k - 1) + d[k] * Weight(k - 1)
  <2> SUFFICES ASSUME NEW k \in 1..m
               PROVE  /\ M(k) = M(k - 1) + x.d[k + down] * (W * Weight(k - 1))
                      /\ Q(k) = Q(k - 1) + d[k] * Weight(k - 1)
    OBVIOUS
  <2>1. k + down \in 1..n /\ down + k = k + down /\ k + down - 1 = down + (k - 1) /\ k - 1 \in Nat
    BY <1>2
  <2>2. Partials(x.d)[k + down] = Partials(x.d)[k + down - 1] + x.d[k + down] * Weight(k + down - 1)
    BY <1>1, <2>1, PartialsAre
  <2>3. Weight(k + down - 1) = W * Weight(k - 1)
    BY <1>5, <2>1, WeightAdd
  <2>4. Partials(d)[k] = Partials(d)[k - 1] + d[k] * Weight(k - 1)
    BY <1>2, PartialsAre
  <2>. QED
    BY <2>1, <2>2, <2>3, <2>4
<1>8. M(0) \in Nat /\ M(0) < W /\ Q(0) = 0
  <2>1. down \in 0..n /\ down + 0 = down
    BY <1>1
  <2>2. Partials(x.d)[down] \in 0..W - 1
    BY <1>1, <1>5, <2>1, PartialsBelow
  <2>3. Partials(d)[0] = 0
    BY <1>2, PartialsAre
  <2>. QED
    BY <2>1, <2>2, <2>3
<1> DEFINE P == {k \in 0..m : M(k) + W * (Lower(down + k + 1) * Weight(k)) =
                              M(0) + W * (Lower(down + 1) + w * Q(k))}
<1>. HIDE DEF M, Q
<1>9. 0 \in P
  <2>1. PICK a \in Int : a = Lower(down + 1)
    <3>1. down + 1 \in 1..n + 1
      BY <1>1
    <3>. QED
      BY <1>3, <3>1
  <2>2. a * 1 = a /\ w * 0 = 0 /\ a + 0 = a /\ down + 0 + 1 = down + 1
    OBVIOUS
  <2>3. M(0) + W * (a * 1) = M(0) + W * (a + w * 0)
    BY <2>2
  <2>. QED
    BY <1>8, <2>1, <2>2, <2>3, WeightIs
<1>10. \A k \in 1..m : k - 1 \in P => k \in P
  <2> SUFFICES ASSUME NEW k \in 1..m, k - 1 \in P PROVE k \in P
    OBVIOUS
  <2>1. down + (k - 1) + 1 = k + down /\ down + k + 1 = k + down + 1 /\ k - 1 \in 0..m /\ k - 1 \in Nat /\ k - 1 + 1 = k
    OBVIOUS
  <2>2. PICK c \in Nat : c = Weight(k - 1)
    BY <2>1, WeightNat
  <2>3. PICK B \in Nat : B = Base /\ B = w * v /\ Weight(k) = B * c
    BY <2>1, <2>2, BaseIs, WeightIs
  <2>4. PICK t \in Nat, a \in Int, b \in Int :
           t = x.d[k + down] \div w /\ a = Lower(k + down) /\ b = Lower(k + down + 1)
           /\ x.d[k + down] = w * t + a /\ d[k] = t + b * v
    <3>1. k + down \in 1..n + 1 /\ k + down + 1 \in 1..n + 1
      BY <1>2
    <3>2. Lower(k + down) \in Int /\ Lower(k + down + 1) \in Int
      BY <1>3, <3>1
    <3>. QED
      BY <1>4, <3>2
  <2>5. PICK m0 \in Int, p \in Int, q \in Int, f \in Int : m0 = M(0) /\ p = M(k - 1) /\ q = Q(k - 1) /\ f = Lower(down + 1)
    <3>1. down + 1 \in 1..n + 1 /\ 0 \in 0..m
      <4>1. down < n
        BY <1>1
      <4>2. down + 1 \in 1..n + 1
        BY <4>1
      <4>3. 0 \in 0..m
        OBVIOUS
      <4>. QED
        BY <4>2, <4>3
    <3>2. M(0) \in Int /\ M(k - 1) \in Int /\ Q(k - 1) \in Int /\ Lower(down + 1) \in Int
      BY <1>3, <1>6, <2>1, <3>1
    <3>. QED
      BY <3>2
  <2>6. p + W * (a * c) = m0 + W * (f + w * q)
    BY <2>1, <2>2, <2>4, <2>5 DEF P
  <2>7. M(k) = p + (w * t + a) * (W * c) /\ Q(k) = q + (t + b * v) * c
    BY <1>7, <2>2, <2>4, <2>5
  <2>8. p + (w * t + a) * (W * c) + W * (b * ((w * v) * c)) = m0 + W * (f + w * (q + (t + b * v) * c))
    <3>1. (w * t + a) * (W * c) = W * (w * (t * c)) + W * (a * c)
      OBVIOUS
    <3>2. W * (f + w * (q + (t + b * v) * c)) = W * (f + w * q) + W * (w * (t * c)) + W * (b * ((w * v) * c))
      OBVIOUS
    <3>3. /\ W * (w * (t * c)) \in Int /\ W * (a * c) \in Int /\ W * (f + w * q) \in Int
          /\ W * (b * ((w * v) * c)) \in Int
      <4>1. t * c \in Int /\ a * c \in Int /\ w * q \in Int /\ w * v \in Int
        OBVIOUS
      <4>2. w * (t * c) \in Int /\ f + w * q \in Int /\ (w * v) * c \in Int
        BY <4>1
      <4>3. b * ((w * v) * c) \in Int
        BY <4>2
      <4>. QED
        BY <4>1, <4>2, <4>3
    <3>. QED
      BY <2>6, <3>1, <3>2, <3>3
  <2>9. M(k) + W * (b * Weight(k)) = m0 + W * (f + w * Q(k))
    BY <2>3, <2>7, <2>8
  <2>. QED
    BY <2>1, <2>4, <2>5, <2>9 DEF P
<1>. HIDE DEF P
<1>11. 0..m \subseteq P
  BY <1>9, <1>10, UpInduction
<1>12. m \in 0..m /\ m \in P
  BY <1>11
<1>13. Lower(down + m + 1) = 0
  BY <1>2 DEF Lower
<1>14. M(m) = Mag(x.d) /\ Q(m) = Mag(d)
  <2>1. down + m = n
    BY <1>2
  <2>. QED
    BY <1>1, <1>2, <2>1, MagIs DEF M, Q
<1>15. PICK q \in Int, c \in Int, f \in 0..w - 1, m0 \in Nat :
          q = Q(m) /\ c = Weight(m) /\ f = Lower(down + 1) /\ m0 = M(0) /\ m0 < W
  <2>0. down < n
    BY <1>1
  <2>1. down + 1 \in 1..n + 1
    BY <2>0
  <2>3. Q(m) \in Int
    BY <1>6, <1>12
  <2>4. Weight(m) \in Int
    BY WeightIs
  <2>5. Lower(down + 1) \in 0..w - 1
    BY <1>3, <2>1
  <2>2. Q(m) \in Int /\ Weight(m) \in Int /\ Lower(down + 1) \in 0..w - 1 /\ M(0) \in Nat
    BY <1>8, <2>3, <2>4, <2>5
  <2>. QED
    BY <1>8, <2>2
<1>16. M(m) = m0 + W * (f + w * q)
  <2>1. M(m) + W * (0 * c) = m0 + W * (f + w * q)
    BY <1>12, <1>13, <1>15 DEF P
  <2>2. W * (0 * c) = 0 /\ M(m) \in Int
    BY <1>6, <1>12
  <2>. QED
    BY <2>1, <2>2
<1>17. PICK r \in Nat : r = m0 + W * f /\ r < W * w
  <2>1. W * f + W <= W * w
    <3>1. f \in Int /\ w \in Int /\ f < w
      OBVIOUS
    <3>. QED
      BY <3>1, Less
  <2>2. W * f \in Nat /\ W * w \in Nat
    OBVIOUS
  <2>4. PICK y \in Nat, z \in Nat : y = W * f /\ z = W * w
    BY <2>2
  <2>5. y + W <= z
    BY <2>1, <2>4
  <2>6. m0 < W
    BY <1>15
  <2>7. m0 + y \in Nat /\ m0 + y < z
    BY <2>5, <2>6
  <2>3. m0 + W * f \in Nat /\ m0 + W * f < W * w
    BY <2>4, <2>7
  <2>. QED
    BY <2>3
<1>18. m0 + W * (f + w * q) = (W * w) * q + (m0 + W * f)
  OBVIOUS
<1>. QED
  BY <1>5, <1>14, <1>15, <1>16, <1>17, <1>18

\* Moving a number that is not negative down divides it (bigint.rs shr).
LEMMA ShrIs ==
  ASSUME NEW x \in Nats, NEW bits \in Nat
  PROVE  shr(x, bits) \in Nats /\ IntOf(shr(x, bits)) = IntOf(x) \div Power(2, bits)
<1>0. x \in Bigs /\ ~x.neg /\ x.neg = FALSE /\ IntOf(x) = Mag(x.d) /\ IntOf(x) \in Nat /\ shr(x, bits) \in Nats
  BY NatIs, BigIs, ShrTyped DEF Nats
<1>1. PICK n \in Nat : n = Len(x.d) /\ x.d \in Seq(Limb) /\ \A i \in 1..n : x.d[i] \in Nat
  BY <1>0, BigIs, LimbsAre
<1>2. PICK down \in Nat : down = bits \div LimbBits
  BY BitsSplit
<1>3. PICK w \in Nat \ {0} : w = Power(2, bits % LimbBits)
  BY BitsSplit, BaseIs
<1>4. PICK p \in Nat \ {0} : p = Power(2, bits) /\ p = Weight(down) * w
  BY <1>2, <1>3, BitsSplit, PowerMono
<1>5. PICK a \in Nat : a = IntOf(x) /\ a = Mag(x.d)
  BY <1>0
<1>6. CASE is_zero(x) \/ bits = 0
  <2>1. shr(x, bits) = x
    BY <1>6 DEF shr
  <2>2. \E q \in Int : q = a /\ a = p * q + 0
    <3>1. CASE is_zero(x)
      <4>1. a = 0
        BY <1>0, <1>5, <3>1, IntOfIs
      <4>2. p * 0 = 0 /\ 0 \in Int
        OBVIOUS
      <4>. QED
        BY <4>1, <4>2
    <3>2. CASE bits = 0
      <4>1. p = 1
        BY <1>4, <3>2, PowerZero
      <4>2. 1 * a = a
        OBVIOUS
      <4>. QED
        BY <4>1, <4>2
    <3>. QED
      BY <1>6, <3>1, <3>2
  <2>3. a \div p = a
    <3>1. 0 \in 0..p - 1 /\ a \in Int
      OBVIOUS
    <3>. QED
      BY <2>2, <3>1, DivIs
  <2>. QED
    BY <1>0, <1>4, <1>5, <2>1, <2>3
<1>7. CASE ~(is_zero(x) \/ bits = 0) /\ down >= n
  <2>1. shr(x, bits) = zero
    BY <1>1, <1>2, <1>7 DEF shr
  <2>2. a < p
    <3>1. a < Weight(n)
      BY <1>1, <1>5, MagBelow
    <3>2. PICK c \in Nat : down = n + c
      <4>1. down - n \in Nat /\ down = n + (down - n)
        BY <1>7
      <4>. QED
        BY <4>1
    <3>5. Weight(n) \in Nat \ {0} /\ Weight(c) \in Nat \ {0}
      BY WeightIs
    <3>6. Weight(n + c) = Weight(n) * Weight(c)
      BY WeightAdd
    <3>7. PICK f \in Nat \ {0} : f = Weight(n)
      BY <3>5
    <3>8. PICK g \in Nat \ {0} : g = Weight(c)
      BY <3>5
    <3>3. f = Weight(n) /\ g = Weight(c) /\ Weight(down) = f * g
      BY <3>2, <3>6, <3>7, <3>8
    <3>4. f <= (f * g) * w
      <4>1. \A i \in Nat \ {0} : f <= f * i
        OBVIOUS
      <4>2. g * w \in Nat \ {0} /\ (f * g) * w = f * (g * w)
        OBVIOUS
      <4>. QED
        BY <4>1, <4>2
    <3>. QED
      BY <1>4, <3>1, <3>3, <3>4
  <2>3. a \div p = 0
    <3>1. a = p * 0 + a /\ a \in 0..p - 1 /\ 0 \in Int
      BY <2>2
    <3>. QED
      BY <3>1, DivIs
  <2>. QED
    BY <1>0, <1>4, <1>5, <2>1, <2>3, ZeroIs
<1>8. CASE ~(is_zero(x) \/ bits = 0) /\ down < n
  <2> DEFINE d == [i \in 1..n - down |-> PartOf(x, i + down, w)]
  <2>1. shr(x, bits) = normalize(Big(FALSE, d))
    <3>1. ~(down >= n)
      BY <1>8
    <3>. QED
      BY <1>0, <1>1, <1>2, <1>3, <1>8, <3>1 DEF shr, PartOf
  <2>2. PICK v \in Nat \ {0} : Base = w * v
    <3>1. LimbBits \in Nat /\ bits % LimbBits \in 0..LimbBits - 1
      BY BitsSplit, WidthAssumption
    <3>2. PICK i \in Nat, j \in Nat : i = bits % LimbBits /\ j = LimbBits - i /\ i + j = LimbBits
      <4>1. bits % LimbBits \in Nat /\ LimbBits - (bits % LimbBits) \in Nat
            /\ (bits % LimbBits) + (LimbBits - (bits % LimbBits)) = LimbBits
        BY <3>1
      <4>. QED
        BY <4>1
    <3>3. 2 \in Int /\ 2 \in Nat \ {0}
      OBVIOUS
    <3>4. Power(2, i + j) = Power(2, i) * Power(2, j) /\ Power(2, j) \in Nat \ {0}
      BY <3>3, PowerAdd, PowerNat
    <3>. QED
      BY <1>3, <3>2, <3>4 DEF Base
  <2>3. \A i \in 1..n : PartOf(x, i, w) \in Limb
    <3> SUFFICES ASSUME NEW i \in 1..n PROVE PartOf(x, i, w) \in Limb
      OBVIOUS
    <3>1. PICK b \in Nat : b = x.d[i]
      BY <1>1
    <3>2. PICK h \in Nat : h = (IF i < n THEN x.d[i + 1] ELSE 0)
      <4>1. i < n => i + 1 \in 1..n
        BY <1>1
      <4>. QED
        BY <1>1, <4>1
    <3>3. PICK B \in Nat : B = Base /\ B > 1
      BY BaseIs
    <3>4. b + h * B \in Nat
      BY <3>3
    <3>5. PICK q \in Nat : q = (b + h * B) \div w
      BY <3>4, QuotNat
    <3>6. q % B \in 0..B - 1
      BY <3>3
    <3>. QED
      BY <1>1, <3>1, <3>2, <3>3, <3>5, <3>6 DEF PartOf, Limb
  <2>4. n - down \in Nat /\ \A i \in 1..n - down : i + down \in 1..n
    BY <1>8
  <2>5. d \in Seq(Limb) /\ Len(d) = n - down /\ \A i \in 1..Len(d) : d[i] = PartOf(x, i + down, w)
    <3>1. \A i \in 1..n - down : PartOf(x, i + down, w) \in Limb
      BY <2>3, <2>4
    <3>. QED
      BY <2>4, <3>1
  <2>. HIDE DEF d
  <2>6. PICK r \in Nat : r < p /\ a = p * Mag(d) + r
    <3>1. x \in Bigs /\ down < Len(x.d) /\ Len(d) = Len(x.d) - down
      BY <1>0, <1>1, <1>8, <2>5
    <3>2. \E r \in Nat : r < Weight(down) * w /\ Mag(x.d) = (Weight(down) * w) * Mag(d) + r
      <4>1. down \in Nat /\ w \in Nat \ {0} /\ v \in Nat \ {0} /\ Base = w * v
        BY <2>2
      <4>2. d \in Seq(Limb) /\ \A i \in 1..Len(d) : d[i] = PartOf(x, i + down, w)
        BY <2>5
      <4>. QED
        BY ONLY <3>1, <4>1, <4>2, ShrLimbs, ZenonT(60)
    <3>. QED
      BY <1>4, <1>5, <3>2
  <2>7. PICK q \in Nat : q = Mag(d)
    BY <2>5, MagBelow
  <2>8. IntOf(shr(x, bits)) = q
    BY <2>1, <2>5, <2>7, NormalizeIs
  <2>9. a \div p = q
    <3>1. r \in 0..p - 1 /\ a \in Int /\ q \in Int
      BY <2>6
    <3>. QED
      BY <2>6, <2>7, <3>1, DivIs
  <2>. QED
    BY <1>0, <1>4, <1>5, <2>8, <2>9
<1>. QED
  BY <1>6, <1>7, <1>8

-----------------------------------------------------------------------------
(* The bits that a rounding looks at.                                      *)

LEMMA PartialsZero ==
  ASSUME NEW d \in Seq(Limb), NEW k \in 0..Len(d)
  PROVE  Partials(d)[k] = 0 <=> \A j \in 1..k : d[j] = 0
<1>0. d \in Seq(Int) /\ Len(d) \in Nat /\ k \in Nat
  BY LimbsAre
<1>1. /\ Partials(d)[0] = 0
      /\ \A j \in 1..Len(d) : Partials(d)[j] = Partials(d)[j - 1] + d[j] * Weight(j - 1)
  BY <1>0, PartialsAre
<1>2. ASSUME \A j \in 1..k : d[j] = 0 PROVE Partials(d)[k] = 0
  <2> DEFINE P == {j \in 0..k : Partials(d)[j] = 0}
  <2>1. 0 \in P
    BY <1>0, <1>1
  <2>2. ASSUME NEW j \in 1..k, j - 1 \in P PROVE j \in P
    <3>1. j \in 1..Len(d) /\ j - 1 \in Nat /\ j \in 0..k
      BY <1>0
    <3>2. PICK w \in Nat : w = Weight(j - 1)
      BY <3>1, WeightNat
    <3>3. 0 + 0 * w = 0
      OBVIOUS
    <3>. QED
      BY <1>1, <1>2, <2>2, <3>1, <3>2, <3>3
  <2>3. k \in P
    <3>. HIDE DEF P
    <3>1. 0..k \subseteq P
      BY <1>0, <2>1, <2>2, UpInduction
    <3>. QED
      BY <1>0, <3>1
  <2>. QED
    BY <2>3
<1>3. ASSUME Partials(d)[k] = 0, NEW j \in 1..k PROVE d[j] = 0
  <2>1. j \in 1..Len(d) /\ j \in 0..Len(d) /\ j - 1 \in 0..Len(d) /\ j - 1 \in Nat /\ k \in j..Len(d)
    BY <1>0
  <2>2. PICK w \in Nat \ {0} : w = Weight(j - 1)
    BY <2>1, WeightNat
  <2>3. PICK a \in Nat : a = d[j]
    BY <2>1, LimbsAre
  <2>4. PICK x \in Nat, y \in Nat : x = Partials(d)[j - 1] /\ y = Partials(d)[j] /\ y <= 0
    <3>1. Partials(d)[j - 1] \in Nat
      <4>1. PICK v \in Nat : v = Weight(j - 1)
        BY <2>1, WeightNat
      <4>2. Partials(d)[j - 1] \in 0..v - 1
        BY <2>1, <4>1, PartialsBelow
      <4>. QED
        BY <4>2
    <3>2. Partials(d)[j] \in Nat
      <4>1. PICK v \in Nat : v = Weight(j)
        BY <2>1, WeightNat
      <4>2. Partials(d)[j] \in 0..v - 1
        BY <2>1, <4>1, PartialsBelow
      <4>. QED
        BY <4>2
    <3>3. Partials(d)[j] <= Partials(d)[k]
      BY <2>1, PartialsGrow
    <3>. QED
      BY <1>3, <3>1, <3>2, <3>3
  <2>5. y = x + a * w
    BY <1>1, <2>1, <2>2, <2>3, <2>4
  <2>6. a * w = 0
    <3>1. a * w \in Nat
      OBVIOUS
    <3>. QED
      BY <2>4, <2>5, <3>1
  <2>7. a # 0 => a * w # 0
    OBVIOUS
  <2>. QED
    BY <2>3, <2>6, <2>7
<1>. QED
  BY <1>2, <1>3

\* Some bit below the k-th is set when the remainder by 2^k is not zero
\* (bigint.rs any_bit_below).
LEMMA AnyBelowIs ==
  ASSUME NEW x \in Bigs, NEW k \in Nat
  PROVE  any_bit_below(x, k) <=> Mag(x.d) % Power(2, k) # 0
<1>1. PICK q \in Nat, j \in 0..LimbBits - 1 :
            /\ q = k \div LimbBits /\ j = k % LimbBits
            /\ Power(2, k) = Weight(q) * Power(2, j)
            /\ Base = 2 * Power(2, j) * Power(2, LimbBits - 1 - j)
            /\ Power(2, j) \in Nat \ {0} /\ Power(2, LimbBits - 1 - j) \in Nat \ {0}
  BY BitSplit
<1>2. PICK u \in Nat \ {0}, v \in Nat \ {0} : u = Power(2, j) /\ Base = u * v
  <2>1. PICK u \in Nat \ {0}, v \in Nat \ {0} : u = Power(2, j) /\ v = Power(2, LimbBits - 1 - j)
    BY <1>1
  <2>2. 2 * u * v = u * (2 * v) /\ 2 * v \in Nat \ {0}
    OBVIOUS
  <2>. QED
    BY <1>1, <2>1, <2>2
<1>3. PICK w \in Nat \ {0} : w = Weight(q) /\ Weight(q + 1) = Base * w
  BY <1>1, WeightIs
<1>4. PICK z \in Nat \ {0} : z = w * u /\ Power(2, k) = z
  <2>1. w * u \in Nat \ {0}
    OBVIOUS
  <2>. QED
    BY <1>1, <1>2, <1>3, <2>1
<1>5. PICK n \in Nat, m \in Nat : n = Len(x.d) /\ m = Mag(x.d) /\ m < Weight(n)
  BY BigIs
<1>6. x.d \in Seq(Limb) /\ x.d \in Seq(Int) /\ \A i \in 1..n : x.d[i] \in Nat
  BY <1>5, BigIs, LimbsAre
<1>7. any_bit_below(x, k) <=> \E i \in 1..n : \/ i - 1 < q /\ x.d[i] # 0
                                              \/ i - 1 = q /\ x.d[i] % u # 0
  <2>1. \A i \in 1..n : (CASE i - 1 < q -> x.d[i] # 0
                           [] i - 1 = q -> x.d[i] % u # 0
                           [] OTHER -> FALSE)
                        <=> (i - 1 < q /\ x.d[i] # 0) \/ (i - 1 = q /\ x.d[i] % u # 0)
    OBVIOUS
  <2>. QED
    BY <1>1, <1>2, <1>5, <2>1 DEF any_bit_below
<1>8. CASE n <= q
  <2>1. m < z
    <3>1. Weight(n) <= w
      <4>1. CASE n = q
        BY <1>3, <4>1
      <4>2. CASE n < q
        <5>1. Power(Base, n) < Power(Base, q)
          BY <4>2, BaseIs, PowerGrows
        <5>2. Weight(n) \in Nat
          BY WeightIs
        <5>. QED
          BY <1>3, <5>1, <5>2 DEF Weight
      <4>. QED
        BY <1>8, <4>1, <4>2
    <3>2. w <= w * u
      OBVIOUS
    <3>3. Weight(n) \in Nat
      BY WeightIs
    <3>. QED
      BY <1>4, <1>5, <3>1, <3>2, <3>3
  <2>2. m % z = m
    <3>1. m = z * 0 + m /\ m \in 0..z - 1
      BY <2>1
    <3>. QED
      BY <3>1, DivIs
  <2>3. m = 0 <=> \A i \in 1..n : x.d[i] = 0
    <3>1. n \in 0..Len(x.d) /\ m = Partials(x.d)[n]
      BY <1>5, <1>6, MagIs
    <3>. QED
      BY <1>6, <3>1, PartialsZero
  <2>4. \A i \in 1..n : i - 1 < q /\ i - 1 # q
    BY <1>8
  <2>. QED
    BY <1>4, <1>5, <1>7, <2>2, <2>3, <2>4
<1>9. CASE ~(n <= q)
  <2>1. q \in 0..n /\ q + 1 \in 1..n /\ q + 1 \in 0..n /\ (q + 1) - 1 = q
    BY <1>9
  <2>2. PICK h \in Nat : m = Partials(x.d)[q + 1] + Weight(q + 1) * h
    BY <1>5, <1>6, <2>1, Above
  <2>3. PICK p \in 0..w - 1 : p = Partials(x.d)[q]
    BY <1>3, <1>5, <1>6, <2>1, PartialsBelow
  <2>4. PICK a \in Nat : a = x.d[q + 1]
    BY <1>6, <2>1
  <2>5. PICK b \in 0..u - 1, c \in Nat : a = u * c + b /\ b = a % u
    BY QuotNat
  <2>6. m = (p + a * w) + (Base * w) * h
    <3>1. Partials(x.d)[q + 1] = Partials(x.d)[q] + x.d[q + 1] * Weight(q)
      <4>1. Partials(x.d)[q + 1] = Partials(x.d)[(q + 1) - 1] + x.d[q + 1] * Weight((q + 1) - 1)
        BY <1>5, <1>6, <2>1, PartialsAre
      <4>. QED
        BY <2>1, <4>1
    <3>. QED
      BY <1>3, <2>2, <2>3, <2>4, <3>1
  <2>7. m = z * (c + v * h) + (p + w * b)
    <3>1. (p + (u * c + b) * w) + ((u * v) * w) * h = (w * u) * (c + v * h) + (p + w * b)
      OBVIOUS
    <3>. QED
      BY <1>2, <1>4, <2>5, <2>6, <3>1
  <2>8. p + w * b \in 0..z - 1
    <3>1. w * b + w <= w * u
      BY Less
    <3>2. PICK y \in Nat : y = w * b
      OBVIOUS
    <3>. QED
      BY <1>4, <3>1, <3>2
  <2>9. m % z = p + w * b
    <3>1. PICK g \in Nat : g = c + v * h
      OBVIOUS
    <3>2. PICK r \in 0..z - 1 : r = p + w * b
      BY <2>8
    <3>3. m = z * g + r
      BY <2>7, <3>1, <3>2
    <3>4. r \in 0..z - 1 /\ m \in Int /\ g \in Int /\ z \in Nat \ {0}
      BY <1>4
    <3>5. m % z = r
      BY <3>3, <3>4, DivIs
    <3>. QED
      BY <3>2, <3>5
  <2>10. p + w * b = 0 <=> p = 0 /\ b = 0
    <3>1. PICK y \in Nat : y = w * b /\ (y = 0 <=> b = 0)
      OBVIOUS
    <3>. QED
      BY <3>1
  <2>11. p = 0 <=> \A i \in 1..q : x.d[i] = 0
    BY <1>5, <1>6, <2>1, <2>3, PartialsZero
  <2>12. (\E i \in 1..n : i - 1 < q /\ x.d[i] # 0) <=> p # 0
    <3>1. \A i \in 1..n : i - 1 < q <=> i \in 1..q
      BY <2>1
    <3>2. 1..q \subseteq 1..n
      BY <2>1
    <3>. QED
      BY <2>11, <3>1, <3>2
  <2>13. (\E i \in 1..n : i - 1 = q /\ x.d[i] % u # 0) <=> b # 0
    <3>1. \A i \in 1..n : i - 1 = q <=> i = q + 1
      OBVIOUS
    <3>. QED
      BY <2>1, <2>4, <2>5, <3>1
  <2>. QED
    BY <1>4, <1>5, <1>7, <2>9, <2>10, <2>12, <2>13
<1>. QED
  BY <1>8, <1>9

\* The significand is the number cut to its upper bits (bigint.rs f64_from_scaled).
LEMMA SignificandValue ==
  ASSUME NEW q \in Bigs, ~is_zero(q), NEW r \in Nat, bit_len(q) = Prec + r
  PROVE  Significand(q, bit_len(q) - 1) = Mag(q.d) \div Power(2, r)
<1>0. Prec \in Nat \ {0, 1}
  BY ExponentsAre
<1>1. PICK n \in Nat, top \in Nat : n = Mag(q.d) /\ top = bit_len(q) - 1 /\ top + 1 = Prec + r
                                    /\ n < Power(2, Prec + r)
  BY <1>0, BigIs, BitLenOf
<1>2. PICK c : /\ c[0] = 0 /\ Significand(q, top) = c[Prec]
               /\ \A k \in 1..Prec : c[k] = NextSig(c[k - 1], q, top, k)
  BY SignificandSteps
<1> DEFINE P == {k \in 0..Prec : c[k] = n \div Power(2, Prec + r - k)}
<1>3. 0 \in P
  <2>1. PICK w \in Nat \ {0} : w = Power(2, Prec + r) /\ Prec + r - 0 = Prec + r
    <3>1. Prec + r \in Nat /\ Prec + r - 0 = Prec + r
      BY <1>0
    <3>. QED
      BY <3>1, HalfOf
  <2>2. n = w * 0 + n /\ n \in 0..w - 1
    BY <1>1, <2>1
  <2>3. n \div w = 0
    BY <2>2, DivIs
  <2>. QED
    BY <1>0, <1>2, <2>1, <2>3
<1>4. \A k \in 1..Prec : k - 1 \in P => k \in P
  <2> SUFFICES ASSUME NEW k \in 1..Prec, k - 1 \in P PROVE k \in P
    OBVIOUS
  <2>1. PICK i \in Nat : i = Prec + r - k /\ i = top + 1 - k /\ i + 1 = Prec + r - (k - 1) /\ k \in 0..Prec
    BY <1>0, <1>1
  <2>2. c[k - 1] = n \div Power(2, i + 1)
    BY <2>1
  <2>3. /\ n \div Power(2, i) = 2 * (n \div Power(2, i + 1)) + ((n \div Power(2, i)) % 2)
        /\ (n \div Power(2, i)) % 2 \in 0..1
    BY HalfOf
  <2>4. BoolBit(top + 1 - k >= 0 /\ bit(q, top + 1 - k)) = (n \div Power(2, i)) % 2
    <3>1. bit(q, i) <=> (n \div Power(2, i)) % 2 = 1
      BY <1>1, BitIs
    <3>2. i >= 0
      OBVIOUS
    <3>3. (top + 1 - k >= 0 /\ bit(q, top + 1 - k)) <=> (n \div Power(2, i)) % 2 = 1
      BY <2>1, <3>1, <3>2
    <3>4. PICK t \in 0..1 : t = (n \div Power(2, i)) % 2
      BY <2>3
    <3>. QED
      BY <3>3, <3>4 DEF BoolBit
  <2>5. c[k] = n \div Power(2, i)
    BY <1>2, <2>2, <2>3, <2>4 DEF NextSig
  <2>. QED
    BY <2>1, <2>5
<1>5. Prec \in P
  <2>. HIDE DEF P
  <2>1. Prec \in Nat /\ Prec \in 0..Prec
    BY <1>0
  <2>2. 0..Prec \subseteq P
    BY <1>3, <1>4, <2>1, UpInduction
  <2>. QED
    BY <2>1, <2>2
<1>6. Prec + r - Prec = r
  BY <1>0
<1>. QED
  BY <1>1, <1>2, <1>5, <1>6

-----------------------------------------------------------------------------
(* A division of magnitudes is the nearest float of the quotient.          *)

\* The two factors of a shift by s, up or down.
Raised(s) == IF s >= 0 THEN Power(2, s) ELSE 1
Lowered(s) == IF s >= 0 THEN 1 ELSE Power(2, -s)

LEMMA ShiftPair ==
  ASSUME NEW s \in Int, NEW u \in Nat, NEW v \in Nat, u + s = v
  PROVE  /\ Raised(s) \in Nat \ {0} /\ Lowered(s) \in Nat \ {0}
         /\ Power(2, u) * Raised(s) = Power(2, v) * Lowered(s)
<1>0. 2 \in Int /\ 2 \in Nat \ {0} /\ Power(2, u) \in Nat \ {0} /\ Power(2, v) \in Nat \ {0}
  <2>1. 2 \in Int /\ 2 \in Nat \ {0}
    OBVIOUS
  <2>. QED
    BY <2>1, PowerNat
<1>1. CASE s >= 0
  <2>1. s \in Nat /\ Power(2, s) \in Nat \ {0}
    BY <1>0, <1>1, PowerNat
  <2>2. Power(2, u + s) = Power(2, u) * Power(2, s)
    BY <1>0, <2>1, PowerAdd
  <2>3. Raised(s) = Power(2, s) /\ Lowered(s) = 1
    BY <1>1 DEF Raised, Lowered
  <2>. QED
    BY <1>0, <2>1, <2>2, <2>3
<1>2. CASE ~(s >= 0)
  <2>1. PICK t \in Nat : t = -s /\ v + t = u
    BY <1>2
  <2>2. Power(2, t) \in Nat \ {0}
    BY <1>0, PowerNat
  <2>3. Power(2, v + t) = Power(2, v) * Power(2, t)
    BY <1>0, PowerAdd
  <2>4. Raised(s) = 1 /\ Lowered(s) = Power(2, t)
    BY <1>2, <2>1 DEF Raised, Lowered
  <2>. QED
    BY <1>0, <2>1, <2>2, <2>3, <2>4
<1>. QED
  BY <1>1, <1>2

\* The round bit and what is lost below it tell the half.
LEMMA HalfCompare ==
  ASSUME NEW h \in Nat \ {0}, NEW v \in Nat \ {0}, NEW c \in 0..1, NEW low \in 0..h - 1,
         NEW rem \in 0..v - 1, NEW t \in Nat, t = h * v, NEW r, r = (c * h + low) * v + rem
  PROVE  /\ r \in 0..2 * t - 1
         /\ (c = 1 /\ (low # 0 \/ rem # 0)) <=> r > t
         /\ (c = 1 /\ ~(low # 0 \/ rem # 0)) <=> r = t
<1>1. PICK y \in Nat : y = low * v /\ y + v <= t /\ (y = 0 <=> low = 0)
  <2>1. v * low + v <= v * h
    BY Less
  <2>2. v * low = low * v /\ v * h = h * v /\ low * v \in Nat /\ (low * v = 0 <=> low = 0)
    OBVIOUS
  <2>. QED
    BY <2>1, <2>2
<1>2. CASE c = 0
  <2>1. r = y + rem
    BY <1>1, <1>2
  <2>. QED
    BY <1>1, <1>2, <2>1
<1>3. CASE c = 1
  <2>1. (1 * h + low) * v + rem = h * v + low * v + rem
    OBVIOUS
  <2>2. r = t + y + rem
    BY <1>1, <1>3, <2>1
  <2>. QED
    BY <1>1, <1>3, <2>2
<1>. QED
  BY <1>2, <1>3

\* The same comparison, in units: o and x scale the quotient to them.
LEMMA Transfer ==
  ASSUME NEW x \in Nat \ {0}, NEW o \in Nat \ {0}, NEW t \in Nat \ {0}, NEW w \in Nat \ {0},
         o * (2 * t) = x * w, NEW r \in 0..2 * t - 1, NEW p \in Nat, NEW m \in Nat,
         x * p = x * (m * w) + o * r
  PROVE  /\ m * w <= p /\ p < (m + 1) * w
         /\ (2 * p > (m + m + 1) * w <=> r > t) /\ (2 * p = (m + m + 1) * w <=> r = t)
<1>1. PICK b \in Nat : b = m * w /\ (m + 1) * w = b + w /\ (m + m + 1) * w = 2 * b + w
  <2>1. m * w \in Nat /\ (m + 1) * w = m * w + w /\ (m + m + 1) * w = 2 * (m * w) + w
    OBVIOUS
  <2>. QED
    BY <2>1
<1>2. PICK d \in Int : d = p - b
  BY <1>1
<1>3. x * d = o * r
  <2>1. x * (p - b) = x * p - x * b /\ x * p \in Int /\ x * b \in Int /\ o * r \in Int
    OBVIOUS
  <2>. QED
    BY <1>1, <1>2, <2>1
<1>4. x * 0 <= x * d /\ x * d < x * w
  <2>1. o * r \in Nat /\ x * 0 = 0
    OBVIOUS
  <2>2. o * r + o <= o * (2 * t)
    BY Less
  <2>3. o * r \in Nat /\ o * (2 * t) \in Nat
    OBVIOUS
  <2>. QED
    BY <1>3, <2>1, <2>2, <2>3
<1>5. 0 <= d /\ d < w
  <2>1. ~(d < 0)
    <3>1. d < 0 => x * d + x <= x * 0
      BY Less
    <3>2. x * d \in Int /\ x * 0 \in Int
      OBVIOUS
    <3>. QED
      BY <1>4, <3>1, <3>2
  <2>2. d < w
    BY <1>4, Less
  <2>. QED
    BY <2>1, <2>2
<1>6. PICK g \in Int, k \in Int : g = 2 * d - w /\ k = r - t
  <2>1. r \in Int
    OBVIOUS
  <2>2. 2 * d - w \in Int /\ r - t \in Int
    BY <2>1
  <2>. QED
    BY <2>2
<1>7. x * g = (2 * o) * k
  <2>1. x * (2 * d - w) = 2 * (x * d) - x * w /\ (2 * o) * (r - t) = 2 * (o * r) - o * (2 * t)
    OBVIOUS
  <2>. QED
    BY <1>3, <1>6, <2>1
<1>8. PICK n \in Nat \ {0} : n = 2 * o
  OBVIOUS
<1>9. x * 0 = 0 /\ n * 0 = 0 /\ x * g = n * k /\ x * g \in Int
  <2>1. x * 0 = 0 /\ n * 0 = 0 /\ x * g \in Int
    OBVIOUS
  <2>. QED
    BY <1>7, <1>8, <2>1
<1>10. (g > 0 <=> k > 0) /\ (g < 0 <=> k < 0)
  <2>1. (0 < g => x * 0 + x <= x * g) /\ (x * 0 < x * g => 0 < g)
        /\ (g < 0 => x * g + x <= x * 0) /\ (x * g < x * 0 => g < 0)
    BY Less
  <2>2. (0 < k => n * 0 + n <= n * k) /\ (n * 0 < n * k => 0 < k)
        /\ (k < 0 => n * k + n <= n * 0) /\ (n * k < n * 0 => k < 0)
    BY Less
  <2>3. PICK e \in Int : e = x * g /\ e = n * k
    BY <1>9
  <2>4. (0 < g <=> 0 < e) /\ (g < 0 <=> e < 0)
    BY <1>9, <2>1, <2>3
  <2>5. (0 < k <=> 0 < e) /\ (k < 0 <=> e < 0)
    BY <1>9, <2>2, <2>3
  <2>. QED
    BY <2>4, <2>5
<1>. QED
  BY <1>1, <1>2, <1>5, <1>6, <1>10

\* The conversion of q rounds mant by the bit c and by what is lost below it.
RoundsTo(q, mant, c, low) ==
    \A scale, sticky, neg : \E e, l :
        /\ e <=> c = 1
        /\ l <=> (sticky \/ low # 0)
        /\ f64_from_scaled(q, scale, sticky, neg) = Rounded(neg, mant, (bit_len(q) - 1) + scale, e, l)

\* A big of Prec + r bits, cut into a significand, a round bit and the rest.
LEMMA ScaledParts ==
  ASSUME NEW q \in Nats, NEW r \in {3, 4}, bit_len(q) = Prec + r
  PROVE  \E mant \in Mants, h \in Nat \ {0} : \E c \in 0..1, low \in 0..h - 1 :
            /\ Power(2, r) = 2 * h /\ IntOf(q) = mant * (2 * h) + (c * h + low)
            /\ RoundsTo(q, mant, c, low)
<1>1. q \in Bigs /\ IntOf(q) = Mag(q.d) /\ Prec \in Nat \ {0, 1}
  BY NatIs, ExponentsAre
<1>2. ~is_zero(q) /\ bit_len(q) \in Nat
  <2>1. bit_len(q) # 0
    BY <1>1
  <2>. QED
    BY <1>1, <2>1 DEF bit_len
<1>3. PICK n \in Nat : n = Mag(q.d) /\ n = IntOf(q)
  BY <1>1, NatIs
<1>4. r \in Nat /\ r - 1 \in Nat /\ (r - 1) + 1 = r
  OBVIOUS
<1>5. PICK h \in Nat \ {0} : h = Power(2, r - 1) /\ Power(2, r) = 2 * h
  <2>1. 2 \in Int /\ 2 \in Nat \ {0}
    OBVIOUS
  <2>2. Power(2, r - 1) \in Nat \ {0}
    BY <1>4, <2>1, PowerNat
  <2>3. Power(2, (r - 1) + 1) = 2 * Power(2, r - 1)
    BY <1>4, <2>1, PowerNext
  <2>. QED
    BY <1>4, <2>2, <2>3
<1>6. PICK y \in Nat, low \in 0..h - 1 : y = n \div h /\ low = n % h /\ n = h * y + low
  BY QuotNat
<1>7. PICK z \in Nat, c \in 0..1 : z = n \div Power(2, r) /\ c = y % 2 /\ y = 2 * z + c
  <2>1. n \div Power(2, (r - 1) + 1) \in Nat /\ (n \div Power(2, r - 1)) % 2 \in 0..1
        /\ n \div Power(2, r - 1) = 2 * (n \div Power(2, (r - 1) + 1)) + ((n \div Power(2, r - 1)) % 2)
    BY <1>4, HalfOf
  <2>. QED
    BY <1>4, <1>5, <1>6, <2>1
<1>8. z = Significand(q, bit_len(q) - 1) /\ z \in Mants
  <2>1. Significand(q, bit_len(q) - 1) = Mag(q.d) \div Power(2, r)
    BY <1>1, <1>2, <1>4, SignificandValue
  <2>2. Significand(q, bit_len(q) - 1) \in 0..Power(2, Prec) - 1
        /\ Power(2, Prec - 1) <= Significand(q, bit_len(q) - 1)
    BY <1>1, <1>2, SignificandIs
  <2>. QED
    BY <1>3, <1>7, <2>1, <2>2 DEF Mants
<1>9. IntOf(q) = z * (2 * h) + (c * h + low)
  <2>1. h * (2 * z + c) + low = z * (2 * h) + (c * h + low)
    OBVIOUS
  <2>. QED
    BY <1>3, <1>6, <1>7, <2>1
<1>10. PICK top \in Nat : top = bit_len(q) - 1 /\ top - Prec = r - 1 /\ top >= Prec
  BY <1>1, <1>4
<1>11. bit(q, r - 1) <=> c = 1
  BY <1>1, <1>3, <1>4, <1>5, <1>6, <1>7, BitIs
<1>12. any_bit_below(q, r - 1) <=> low # 0
  BY <1>1, <1>3, <1>4, <1>5, <1>6, AnyBelowIs
<1>13. ASSUME NEW scale, NEW sticky, NEW neg
       PROVE  \E e, l : /\ e <=> c = 1
                        /\ l <=> (sticky \/ low # 0)
                        /\ f64_from_scaled(q, scale, sticky, neg) = Rounded(neg, z, top + scale, e, l)
  <2> DEFINE e == top >= Prec /\ bit(q, top - Prec)
             l == AnyLost(q, top - Prec, sticky)
  <2>1. e <=> c = 1
    BY <1>10, <1>11
  <2>2. l <=> (sticky \/ low # 0)
    BY <1>4, <1>10, <1>12 DEF AnyLost
  <2>3. f64_from_scaled(q, scale, sticky, neg) = Rounded(neg, z, top + scale, e, l)
    BY <1>2, <1>8, <1>10 DEF f64_from_scaled, ScaledFrom
  <2>. HIDE DEF e, l
  <2>. QED
    BY <2>1, <2>2, <2>3
<1>14. RoundsTo(q, z, c, low)
  BY <1>10, <1>13 DEF RoundsTo
<1>. QED
  BY <1>5, <1>8, <1>9, <1>14
=============================================================================
