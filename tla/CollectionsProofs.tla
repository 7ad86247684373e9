-------------------------- MODULE CollectionsProofs --------------------------
(***************************************************************************)
(* What Collections promises, for operands, limits, sizes, hashes and      *)
(* bytes of every kind: a filter denies no word that was pushed, the       *)
(* B-tree stays balanced, in order, and holds what was put, and every word *)
(* changes its handle as the mathematical object of CollContract changes:  *)
(* the heap, the trie, the sets, bits and maps, kind by kind.  Every word  *)
(* that looks answers of what is stored what CollContract says of the      *)
(* object.                                                                 *)
(*                                                                         *)
(* Trees, sums and concatenations are recursive functions; what they       *)
(* compute follows by induction on levels and lengths, stated with a set   *)
(* for the predicate.                                                      *)
(***************************************************************************)
EXTENDS Collections, SequenceTheorems, FiniteSetTheorems, WellFoundedInduction, TLAPS

-----------------------------------------------------------------------------
(* Induction, with a set for the predicate.                                *)
LEMMA LeastElement ==
  ASSUME NEW T \in SUBSET Nat, T # {}
  PROVE  \E x \in T : \A y \in T : ~(y < x)
<1>1. IsWellFoundedOn(OpToRel(<, Nat), Nat)
  BY NatLessThanWellFounded
<1>2. PICK x \in T : \A y \in T : ~(<<y, x>> \in OpToRel(<, Nat))
  BY <1>1, WFMin
<1>3. OpToRel(<, Nat) = {z \in Nat \X Nat : z[1] < z[2]}
  BY DEF OpToRel
<1>. QED
  BY <1>2, <1>3

LEMMA Induction ==
  ASSUME NEW P, 0 \in P, \A n \in Nat : n \in P => n + 1 \in P
  PROVE  Nat \subseteq P
<1> SUFFICES ASSUME Nat \ P # {} PROVE FALSE
  OBVIOUS
<1>1. PICK x \in Nat \ P : \A y \in Nat \ P : ~(y < x)
  BY LeastElement
<1>2. x # 0 /\ x \in Nat /\ x - 1 \in Nat /\ x - 1 < x /\ (x - 1) + 1 = x
  BY <1>1
<1>3. x - 1 \in P
  BY <1>1, <1>2
<1>. QED
  BY <1>1, <1>2, <1>3

-----------------------------------------------------------------------------
(* Bits packed into bytes.                                                 *)
LEMMA DivMod ==
  ASSUME NEW a \in Nat, NEW b \in Nat \ {0}
  PROVE  a \div b \in Nat /\ a % b \in 0..b - 1 /\ a = b * (a \div b) + (a % b)
<1>1. a \div b \in Nat
  OBVIOUS
<1>2. a % b \in 0..b - 1
  OBVIOUS
<1>3. PICK q \in Int : q = a \div b
  BY <1>1
<1>4. PICK r \in Int : r = a % b
  BY <1>2
<1>5. b \in Int /\ b > 0 /\ a \in Int
  OBVIOUS
<1>6. r = a - b * q
  BY <1>3, <1>4, <1>5
<1>7. b * q \in Int
  OBVIOUS
<1>8. a = b * q + r
  BY <1>5, <1>6, <1>7
<1>. QED
  BY <1>1, <1>2, <1>3, <1>4, <1>8

LEMMA Less ==
  ASSUME NEW b \in Nat, NEW p \in Nat, NEW q \in Nat, b * p < b * q
  PROVE  p < q
<1>1. SUFFICES ASSUME q <= p PROVE b * q <= b * p
  OBVIOUS
<1>2. p - q \in Nat /\ b * (p - q) \in Nat /\ b * p = b * q + b * (p - q)
  BY <1>1
<1>3. b * q \in Nat /\ b * p \in Nat
  OBVIOUS
<1>. QED
  BY <1>2, <1>3

ByteNo(n) == 0..(n + ByteBits - 1) \div ByteBits - 1
Packed(n) == [ByteNo(n) -> SUBSET Nat]

(* The byte of a bit that is in range.                                     *)
LEMMA InByte ==
  ASSUME NEW n \in Nat \ {0}, NEW i \in 0..n - 1
  PROVE  i \div ByteBits \in ByteNo(n) /\ i % ByteBits \in Nat
<1>1. ByteBits \in Nat \ {0} /\ i \in Nat /\ n + ByteBits - 1 \in Nat
  BY StoreAssumption
<1> DEFINE q == i \div ByteBits
           m == (n + ByteBits - 1) \div ByteBits
<1>2. q \in Nat /\ i % ByteBits \in 0..ByteBits - 1 /\ i = ByteBits * q + (i % ByteBits)
  BY <1>1, DivMod
<1>3. /\ m \in Nat /\ (n + ByteBits - 1) % ByteBits \in 0..ByteBits - 1
      /\ n + ByteBits - 1 = ByteBits * m + ((n + ByteBits - 1) % ByteBits)
  BY <1>1, DivMod
<1>. HIDE DEF q, m
<1>4. ByteBits * q \in Nat /\ ByteBits * m \in Nat
  BY <1>1, <1>2, <1>3
<1>5. ByteBits * q < ByteBits * m
  BY <1>1, <1>2, <1>3, <1>4
<1>6. q < m
  BY <1>1, <1>2, <1>3, <1>5, Less
<1>. QED
  BY <1>2, <1>3, <1>6 DEF ByteNo, q, m

(* A bit has a place of its own.                                           *)
LEMMA OwnPlace ==
  ASSUME NEW i \in Nat, NEW j \in Nat, i \div ByteBits = j \div ByteBits,
         i % ByteBits = j % ByteBits
  PROVE  i = j
<1>1. ByteBits \in Nat \ {0}
  BY StoreAssumption
<1>2. i = ByteBits * (i \div ByteBits) + (i % ByteBits)
  BY <1>1, DivMod
<1>3. j = ByteBits * (j \div ByteBits) + (j % ByteBits)
  BY <1>1, DivMod
<1>. QED
  BY <1>2, <1>3

(* Setting and clearing a bit changes that bit and no other.               *)
LEMMA BitsHold ==
  ASSUME NEW n \in Nat \ {0}, NEW bits \in Packed(n), NEW i \in 0..n - 1
  PROVE  /\ SetBit(bits, i) \in Packed(n) /\ ClearBit(bits, i) \in Packed(n)
         /\ \A j \in 0..n - 1 :
              /\ Bit(SetBit(bits, i), j) = (IF j = i THEN 1 ELSE Bit(bits, j))
              /\ Bit(ClearBit(bits, i), j) = (IF j = i THEN 0 ELSE Bit(bits, j))
<1> DEFINE b == i \div ByteBits
           r == i % ByteBits
<1>1. b \in ByteNo(n) /\ r \in Nat
  BY InByte
<1>2. \A j \in 0..n - 1 : /\ j \div ByteBits \in ByteNo(n)
                          /\ j \div ByteBits = b /\ j % ByteBits = r => j = i
  <2> SUFFICES ASSUME NEW j \in 0..n - 1
               PROVE  /\ j \div ByteBits \in ByteNo(n)
                      /\ j \div ByteBits = b /\ j % ByteBits = r => j = i
    OBVIOUS
  <2>1. i \in Nat /\ j \in Nat
    OBVIOUS
  <2>. QED
    BY <2>1, InByte, OwnPlace
<1>. HIDE DEF b, r
<1>3. /\ SetBit(bits, i) = [bits EXCEPT ![b] = bits[b] \cup {r}]
      /\ ClearBit(bits, i) = [bits EXCEPT ![b] = bits[b] \ {r}]
  BY DEF SetBit, ClearBit, b, r
<1>4. ASSUME NEW j \in 0..n - 1
      PROVE  /\ Bit(SetBit(bits, i), j) = (IF j = i THEN 1 ELSE Bit(bits, j))
             /\ Bit(ClearBit(bits, i), j) = (IF j = i THEN 0 ELSE Bit(bits, j))
  <2>1. PICK c \in ByteNo(n) : c = j \div ByteBits
    BY <1>2
  <2>. PICK s : s = j % ByteBits
    OBVIOUS
  <2>2. c = b /\ s = r <=> j = i
    BY <1>2, <2>1 DEF b, r
  <2>3. bits \in [ByteNo(n) -> SUBSET Nat]
    BY DEF Packed
  <2>4. SetBit(bits, i)[c] = (IF c = b THEN bits[c] \cup {r} ELSE bits[c])
    BY <1>1, <1>3, <2>3
  <2>5. ClearBit(bits, i)[c] = (IF c = b THEN bits[c] \ {r} ELSE bits[c])
    BY <1>1, <1>3, <2>3
  <2>6. \A t : Bit(t, j) = IF s \in t[c] THEN 1 ELSE 0
    BY <2>1 DEF Bit
  <2>. QED
    BY <2>2, <2>4, <2>5, <2>6
<1>5. SetBit(bits, i) \in Packed(n) /\ ClearBit(bits, i) \in Packed(n)
  BY <1>1, <1>3 DEF Packed
<1>. QED
  BY <1>4, <1>5

LEMMA FreshBits ==
  ASSUME NEW n \in Nat \ {0}
  PROVE  Bytes(n) \in Packed(n) /\ \A i \in 0..n - 1 : Bit(Bytes(n), i) = 0
<1>1. \A i \in 0..n - 1 : i \div ByteBits \in ByteNo(n)
  BY InByte
<1>2. Bytes(n) = [i \in ByteNo(n) |-> {}]
  BY DEF Bytes, ByteNo
<1>. QED
  BY <1>1, <1>2 DEF Packed, Bit

-----------------------------------------------------------------------------
(* The checks of a word: it changes the collection only when all of them   *)
(* pass.                                                                   *)
LEMMA BothPass == \A f, g : (f ?? g) = Fine <=> f = Fine /\ g = Fine
BY DEF ??

LEMMA Passes ==
  /\ \A fault, holds : fault # Fine => (Unless(fault, holds) = Fine <=> holds)
  /\ BOUNDS # Fine /\ TYPE_MISMATCH # Fine
BY DEF Unless, BOUNDS, TYPE_MISMATCH, Fine

LEMMA ChecksPass ==
  /\ \A v : key_str(v) = Fine <=> IsWord(v)
  /\ \A v : plain(v) = Fine <=> IsInt(v)
  /\ \A v : elem(v) = Fine => IsInt(v) \/ IsStr(v)
  /\ \A v, n : Index(v, n) = Fine <=> IsInt(v) /\ v[2] \in 0..n - 1
<1>1. TYPE_MISMATCH # Fine /\ BOUNDS # Fine
  BY Passes
<1>2. \A v : key_str(v) = Fine <=> IsWord(v)
  BY <1>1 DEF key_str, Unless
<1>3. \A v : plain(v) = Fine <=> IsInt(v)
  BY <1>1 DEF plain, Unless
<1>4. \A v : elem(v) = Fine => IsInt(v) \/ IsStr(v)
  BY <1>1 DEF elem, Unless
<1>5. \A v, n : Index(v, n) = Fine <=> IsInt(v) /\ v[2] \in 0..n - 1
  BY <1>1, <1>3, BothPass DEF Index, Unless
<1>. QED
  BY <1>2, <1>3, <1>4, <1>5

(* What the operands of a program are.                                     *)
LEMMA OperandIs ==
  ASSUME NEW v \in Operand
  PROVE  /\ IsInt(v) => v[2] \in Int /\ v = <<"int", v[2]>>
         /\ IsStr(v) => v[2] \in Seq(Int) /\ v = <<"str", v[2]>>
BY DEF Operand, IsInt, IsStr, Other

-----------------------------------------------------------------------------
(* Bloom filters.                                                          *)
Filter ==
  kind = "bm" =>
    /\ size \in Nat \ {0} /\ body \in Packed(size)
    /\ \A w \in pushed : Hash(w) \in Nat
    /\ NoFalseNegative

LEMMA FilterPush ==
  ASSUME kind = "bm", Filter, NEW v \in Operands["bm"], NEW x \in BOOLEAN, b_ps(v, x)
  PROVE  Filter'
<1> DEFINE fault == Unless(TYPE_MISMATCH, kind \in PUSH) ?? excl(x, freed) ?? key_str(v)
<1>1. /\ body' = (IF fault = Fine THEN SetBit(body, Hash(v[2]) % size) ELSE body)
      /\ pushed' = (IF fault = Fine THEN pushed \cup {v[2]} ELSE pushed)
      /\ kind' = "bm" /\ size' = size
  BY DEF b_ps, Answer
<1>2. CASE fault = Fine
  <2>1. IsWord(v)
    BY <1>2, BothPass, ChecksPass
  <2>2. Hash(v[2]) \in Nat
    BY <2>1, OperandAssumption DEF IsWord
  <2>3. PICK w : w = v[2]
    OBVIOUS
  <2>4. size \in Nat \ {0} /\ body \in Packed(size) /\ (\A u \in pushed : Hash(u) \in Nat)
    BY DEF Filter
  <2>5. \A u : Hash(u) \in Nat => Hash(u) % size \in 0..size - 1
    BY <2>4
  <2>6. \A u \in pushed : Bit(body, Hash(u) % size) = 1
    BY DEF Filter, NoFalseNegative
  <2>7. PICK k \in 0..size - 1 : k = Hash(w) % size
    BY <2>2, <2>3, <2>5
  <2>8. body' = SetBit(body, k) /\ pushed' = pushed \cup {w} /\ size' = size
    BY <1>1, <1>2, <2>3, <2>7
  <2>9. /\ SetBit(body, k) \in Packed(size)
        /\ \A j \in 0..size - 1 : Bit(SetBit(body, k), j) = IF j = k THEN 1 ELSE Bit(body, j)
    BY <2>4, BitsHold
  <2>10. \A u \in pushed' : Hash(u) \in Nat
    BY <2>2, <2>3, <2>4, <2>8
  <2>11. \A u \in pushed' : Bit(body', Hash(u) % size') = 1
    BY <2>5, <2>6, <2>7, <2>8, <2>9, <2>10
  <2>. QED
    BY <2>4, <2>8, <2>9, <2>10, <2>11 DEF Filter, NoFalseNegative
<1>3. CASE fault # Fine
  BY <1>1, <1>3 DEF Filter, NoFalseNegative
<1>. QED
  BY <1>2, <1>3

LEMMA FilterStep ==
  ASSUME kind \in Kinds, Filter, Next
  PROVE  Filter'
<1>1. CASE \E v \in Operands[kind], x \in Handles : b_ps(v, x)
  <2>1. kind' = kind
    BY <1>1 DEF b_ps
  <2>2. \A x \in Handles : x \in BOOLEAN
    BY DEF Handles
  <2>. QED
    BY <1>1, <2>1, <2>2, FilterPush DEF Filter
<1>2. CASE \E v \in Operands[kind], x \in Handles : PutTrie(v, x)
  BY <1>2 DEF PutTrie, Keep, Filter
<1>3. CASE \E x \in Handles : b_po(x)
  <2>1. PICK x \in Handles : b_po(x)
    BY <1>3
  <2>2. UNCHANGED <<kind, size, pushed>>
    BY <2>1 DEF b_po, Keep
  <2>3. kind = "bm" => body' = body
    <3>1. SUFFICES ASSUME kind = "bm" PROVE body' = body
      OBVIOUS
    <3>2. \A f, g : ((Unless(TYPE_MISMATCH, kind \in POP) ?? f) ?? g) # Fine
      BY <3>1, BothPass, Passes DEF POP, Unless
    <3>. QED
      BY <2>1, <3>2 DEF b_po, Answer
  <2>. QED
    BY <2>2, <2>3 DEF Filter, NoFalseNegative
<1>4. CASE \E x \in Handles : b_len(x)
  BY <1>4 DEF b_len, Answer, Filter, NoFalseNegative
<1>5. CASE \E k \in Operands[kind], v \in Values[kind], x \in Handles : b_pt(k, v, x)
  <2>1. PICK k \in Operands[kind], v \in Values[kind], x \in Handles : b_pt(k, v, x)
    BY <1>5
  <2>2. UNCHANGED <<kind, size, pushed>>
    BY <2>1 DEF b_pt, Keep
  <2>3. kind = "bm" => body' = body
    <3>1. SUFFICES ASSUME kind = "bm" PROVE body' = body
      OBVIOUS
    <3>2. (excl(x, freed) ?? TYPE_MISMATCH) # Fine
      BY BothPass, Passes
    <3>. QED
      BY <2>1, <3>1, <3>2 DEF b_pt, Answer
  <2>. QED
    BY <2>2, <2>3 DEF Filter, NoFalseNegative
<1>6. CASE DropOwner
  BY <1>6 DEF DropOwner, Filter, NoFalseNegative
<1>. QED
  BY <1>1, <1>2, <1>3, <1>4, <1>5, <1>6 DEF Next

-----------------------------------------------------------------------------
(* Strings: LexLess is a strict total order.                               *)
Word == Seq(Int)

LEMMA LexIrreflexive ==
  ASSUME NEW a \in Word
  PROVE  ~LexLess(a, a)
<1>1. PICK n \in Nat : n = Len(a)
  BY DEF Word
<1>2. \A i \in 1..n : ~(i > n) /\ a[i] \in Int
  BY <1>1 DEF Word
<1>. QED
  BY <1>1, <1>2 DEF LexLess

LEMMA LexTransitive ==
  ASSUME NEW a \in Word, NEW b \in Word, NEW c \in Word, LexLess(a, b), LexLess(b, c)
  PROVE  LexLess(a, c)
<1>1. PICK m \in Nat : m = Len(a)
  BY DEF Word
<1>2. PICK n \in Nat : n = Len(b)
  BY DEF Word
<1>3. PICK o \in Nat : o = Len(c)
  BY DEF Word
<1>4. PICK i \in 1..n : /\ i - 1 <= m /\ \A j \in 1..i - 1 : a[j] = b[j]
                        /\ i > m \/ a[i] < b[i]
  BY <1>1, <1>2 DEF LexLess
<1>5. PICK k \in 1..o : /\ k - 1 <= n /\ \A j \in 1..k - 1 : b[j] = c[j]
                        /\ k > n \/ b[k] < c[k]
  BY <1>2, <1>3 DEF LexLess
<1>6. \A j \in 1..m : a[j] \in Int
  BY <1>1 DEF Word
<1>7. \A j \in 1..n : b[j] \in Int
  BY <1>2 DEF Word
<1>8. \A j \in 1..o : c[j] \in Int
  BY <1>3 DEF Word
<1> DEFINE At(l) == /\ l \in 1..o /\ l - 1 <= m /\ \A j \in 1..l - 1 : a[j] = c[j]
                    /\ l > m \/ a[l] < c[l]
<1>9. (\E l \in 1..o : At(l)) => LexLess(a, c)
  BY <1>1, <1>3 DEF LexLess
<1>10. CASE i < k
  <2>1. b[i] = c[i] /\ i \in 1..o
    BY <1>5, <1>10
  <2>2. \A j \in 1..i - 1 : a[j] = c[j]
    BY <1>4, <1>5, <1>10
  <2>. QED
    BY <1>4, <1>9, <2>1, <2>2
<1>11. CASE i = k
  <2>1. \A j \in 1..i - 1 : a[j] = c[j]
    BY <1>4, <1>5, <1>11
  <2>2. b[i] < c[i] /\ i \in 1..o
    BY <1>5, <1>11
  <2>3. i > m \/ a[i] < c[i]
    <3>1. SUFFICES ASSUME ~(i > m) PROVE a[i] < c[i]
      OBVIOUS
    <3>2. a[i] \in Int /\ b[i] \in Int /\ c[i] \in Int /\ a[i] < b[i]
      BY <1>4, <1>6, <1>7, <1>8, <2>2, <3>1
    <3>. QED
      BY <2>2, <3>2
  <2>. QED
    BY <1>4, <1>9, <2>1, <2>2, <2>3
<1>12. CASE i > k
  <2>1. a[k] = b[k] /\ k - 1 <= m /\ k <= n /\ b[k] < c[k]
    BY <1>4, <1>5, <1>12
  <2>2. \A j \in 1..k - 1 : a[j] = c[j]
    BY <1>4, <1>5, <1>12
  <2>. QED
    BY <1>9, <2>1, <2>2
<1>. QED
  BY <1>10, <1>11, <1>12

LEMMA LexTotal ==
  ASSUME NEW a \in Word, NEW b \in Word
  PROVE  a = b \/ LexLess(a, b) \/ LexLess(b, a)
<1>1. PICK m \in Nat : m = Len(a)
  BY DEF Word
<1>2. PICK n \in Nat : n = Len(b)
  BY DEF Word
<1> DEFINE D == {i \in Nat : i >= 1 /\ (i > m \/ i > n \/ a[i] # b[i])}
<1>3. m + 1 \in D
  BY <1>1
<1>4. PICK i \in D : \A j \in D : ~(j < i)
  BY <1>3, LeastElement
<1>5. \A j \in 1..i - 1 : j <= m /\ j <= n /\ a[j] = b[j]
  <2> SUFFICES ASSUME NEW j \in 1..i - 1 PROVE ~(j > m \/ j > n \/ a[j] # b[j])
    OBVIOUS
  <2>1. j \in Nat /\ j >= 1 /\ j < i
    OBVIOUS
  <2>. QED
    BY <1>4, <2>1
<1>6. i - 1 <= m /\ i - 1 <= n
  <2>1. CASE i = 1
    BY <2>1
  <2>2. CASE i > 1
    <3>1. i - 1 \in 1..i - 1
      BY <2>2
    <3>. QED
      BY <1>5, <3>1
  <2>. QED
    BY <2>1, <2>2
<1>7. CASE i > m /\ i > n
  <2>1. m = n /\ \A j \in 1..m : a[j] = b[j]
    BY <1>5, <1>6, <1>7
  <2>2. a \in Seq(Int) /\ b \in Seq(Int)
    BY DEF Word
  <2>. QED
    BY <1>1, <1>2, <2>1, <2>2, SeqEqual
<1>8. CASE i > m /\ i <= n
  <2>1. i \in 1..n
    BY <1>8
  <2>. QED
    BY <1>1, <1>2, <1>5, <1>6, <1>8, <2>1 DEF LexLess
<1>9. CASE i <= m /\ i > n
  <2>1. i \in 1..m
    BY <1>9
  <2>. QED
    BY <1>1, <1>2, <1>5, <1>6, <1>9, <2>1 DEF LexLess
<1>10. CASE i <= m /\ i <= n
  <2>1. i \in 1..m /\ i \in 1..n /\ a[i] # b[i]
    BY <1>10
  <2>2. a[i] \in Int /\ b[i] \in Int
    BY <1>1, <1>2, <2>1 DEF Word
  <2>3. CASE a[i] < b[i]
    BY <1>1, <1>2, <1>5, <1>6, <2>1, <2>3 DEF LexLess
  <2>4. CASE b[i] < a[i]
    BY <1>1, <1>2, <1>5, <1>6, <2>1, <2>4 DEF LexLess
  <2>. QED
    BY <2>1, <2>2, <2>3, <2>4
<1>. QED
  <2>1. i \in Nat
    OBVIOUS
  <2>2. (i > m \/ i <= m) /\ (i > n \/ i <= n)
    BY <2>1
  <2>. QED
    BY <1>7, <1>8, <1>9, <1>10, <2>2

LEMMA LexOrder ==
  \A a, b, c \in Word :
    /\ ~LexLess(a, a)
    /\ LexLess(a, b) /\ LexLess(b, c) => LexLess(a, c)
    /\ a = b \/ LexLess(a, b) \/ LexLess(b, a)
BY LexIrreflexive, LexTransitive, LexTotal

-----------------------------------------------------------------------------
(* A filter never denies a word that was pushed: Filter is inductive.      *)
LEMMA FilterInit ==
  ASSUME Init
  PROVE  kind \in Kinds /\ Filter
<1>1. kind = "bm" => size \in Nat \ {0} /\ body = Bytes(size)
  <2> SUFFICES ASSUME kind = "bm" PROVE size \in Nat \ {0} /\ body = Bytes(size)
    OBVIOUS
  <2>1. size \in Sizes /\ size >= 1
    BY DEF Init
  <2>2. size \in Nat \ {0}
    BY <2>1, StoreAssumption
  <2>. QED
    BY <2>2 DEF Init, fresh
<1>. QED
  BY <1>1, FreshBits DEF Init, Filter, NoFalseNegative

LEMMA SameKind ==
  ASSUME Next
  PROVE  kind' = kind
BY DEF Next, b_ps, PutTrie, b_po, b_len, b_pt, DropOwner, Keep

(* NoFalseNegative: whatever is pushed onto a filter, and in whatever      *)
(* order, no word that was pushed is ever denied: bits are only set, each  *)
(* in a place of its own (b_ps, b_hs, coll.rs).                            *)
THEOREM NoFalseNegativeTheorem == Spec => []NoFalseNegative
<1>1. Init => kind \in Kinds /\ Filter
  BY FilterInit
<1>2. (kind \in Kinds /\ Filter) /\ [Next]_vars => (kind \in Kinds /\ Filter)'
  <2> SUFFICES ASSUME kind \in Kinds, Filter, [Next]_vars
               PROVE  kind' \in Kinds /\ Filter'
    OBVIOUS
  <2>1. CASE Next
    BY <2>1, FilterStep, SameKind
  <2>2. CASE UNCHANGED vars
    BY <2>2 DEF vars, Filter, NoFalseNegative
  <2>. QED
    BY <2>1, <2>2
<1>3. Filter => NoFalseNegative
  BY DEF Filter, NoFalseNegative
<1>. QED
  BY <1>1, <1>2, <1>3, PTL DEF Spec

-----------------------------------------------------------------------------
(* Trees by their levels.                                                  *)
LevelOver(below) ==
  {n \in [leaf : BOOLEAN, keys : Seq(Pair), kids : Seq(below)] :
     IF n.leaf THEN n.kids = <<>> ELSE Len(n.kids) = Len(n.keys) + 1}

LEMMA TopIs == Top \in Nat \ {0}
BY CollAssumption DEF Top, Kinds

LEMMA LevelIs ==
  /\ Level = [h \in 0..Top |-> LevelOver(IF h = 0 THEN {} ELSE Level[h - 1])]
  /\ Level[0] = LevelOver({})
  /\ \A h \in 1..Top : Level[h] = LevelOver(Level[h - 1])
<1>1. Top \in Nat /\ Top >= 0
  BY TopIs
<1> DEFINE Over(f, h) == LevelOver(IF h = 0 THEN {} ELSE f[h - 1])
           P == {n \in Nat : \E f : f = [h \in 0..n |-> Over(f, h)]}
<1>2. 0 \in P
  <2> DEFINE f == [h \in 0..0 |-> LevelOver({})]
  <2>1. \A h \in 0..0 : Over(f, h) = LevelOver({})
    OBVIOUS
  <2>2. f = [h \in 0..0 |-> Over(f, h)]
    BY <2>1
  <2>. QED
    BY <2>2
<1>3. ASSUME NEW n \in Nat, n \in P PROVE n + 1 \in P
  <2>1. PICK f : f = [h \in 0..n |-> Over(f, h)]
    BY <1>3
  <2>. HIDE DEF Over
  <2> DEFINE g == [h \in 0..n + 1 |-> IF h = n + 1 THEN Over(f, h) ELSE f[h]]
  <2>2. \A h \in 0..n + 1 : Over(g, h) = Over(f, h)
    <3> SUFFICES ASSUME NEW h \in 0..n + 1 PROVE Over(g, h) = Over(f, h)
      OBVIOUS
    <3>1. CASE h = 0
      BY <3>1 DEF Over
    <3>2. CASE h # 0
      <4>1. h - 1 \in 0..n
        BY <3>2
      <4>2. g[h - 1] = f[h - 1]
        BY <4>1
      <4>. QED
        BY <3>2, <4>2 DEF Over
    <3>. QED
      BY <3>1, <3>2
  <2>3. \A h \in 0..n + 1 : g[h] = Over(f, h)
    <3> SUFFICES ASSUME NEW h \in 0..n + 1 PROVE g[h] = Over(f, h)
      OBVIOUS
    <3>1. CASE h = n + 1
      BY <3>1
    <3>2. CASE h # n + 1
      <4>1. h \in 0..n
        BY <3>2
      <4>. QED
        BY <2>1, <3>2, <4>1
    <3>. QED
      BY <3>1, <3>2
  <2>4. g = [h \in 0..n + 1 |-> g[h]]
    OBVIOUS
  <2>. HIDE DEF g
  <2>5. g = [h \in 0..n + 1 |-> Over(g, h)]
    BY <2>2, <2>3, <2>4
  <2>. QED
    BY <2>5
<1>. HIDE DEF P
<1>4. Top \in P
  BY <1>1, <1>2, <1>3, Induction
<1>5. PICK f : f = [h \in 0..Top |-> Over(f, h)]
  BY <1>4 DEF P
<1> DEFINE chosen == CHOOSE g : g = [h \in 0..Top |-> Over(g, h)]
<1>6. chosen = [h \in 0..Top |-> Over(chosen, h)]
  BY <1>5
<1>7. Level = chosen
  BY DEF Level, LevelOver, Top
<1>. HIDE DEF chosen
<1>8. Level = [h \in 0..Top |-> LevelOver(IF h = 0 THEN {} ELSE Level[h - 1])]
  BY <1>6, <1>7
<1>9. Level[0] = LevelOver({})
  BY <1>1, <1>8
<1>10. ASSUME NEW h \in 1..Top PROVE Level[h] = LevelOver(Level[h - 1])
  BY <1>1, <1>8
<1>. QED
  BY <1>8, <1>9, <1>10

(* What a node of a tree is.                                               *)
Below(h) == IF h = 0 THEN {} ELSE Level[h - 1]

LEMMA NodeIs ==
  ASSUME NEW h \in 0..Top, NEW n
  PROVE  n \in Level[h] <=>
           /\ n \in [leaf : BOOLEAN, keys : Seq(Pair), kids : Seq(Below(h))]
           /\ IF n.leaf THEN n.kids = <<>> ELSE Len(n.kids) = Len(n.keys) + 1
<1>1. Level[h] = LevelOver(Below(h))
  BY LevelIs DEF Below
<1>. QED
  BY <1>1 DEF LevelOver

LEMMA NodeFields ==
  ASSUME NEW h \in 0..Top, NEW n \in Level[h]
  PROVE  /\ n.leaf \in BOOLEAN /\ n.keys \in Seq(Pair) /\ n.kids \in Seq(Below(h))
         /\ n.leaf => n.kids = <<>>
         /\ ~n.leaf => Len(n.kids) = Len(n.keys) + 1
         /\ n = BNode(n.leaf, n.keys, n.kids)
         /\ h = 0 => n.leaf
         /\ \A i \in DOMAIN n.kids : h > 0 /\ n.kids[i] \in Level[h - 1]
<1>1. /\ n \in [leaf : BOOLEAN, keys : Seq(Pair), kids : Seq(Below(h))]
      /\ IF n.leaf THEN n.kids = <<>> ELSE Len(n.kids) = Len(n.keys) + 1
  BY NodeIs
<1>2. n.leaf \in BOOLEAN /\ n.keys \in Seq(Pair) /\ n.kids \in Seq(Below(h))
  BY <1>1
<1>3. n = BNode(n.leaf, n.keys, n.kids)
  BY <1>1 DEF BNode
<1>4. \A i \in DOMAIN n.kids : n.kids[i] \in Below(h)
  BY <1>2
<1>5. h = 0 => n.leaf
  <2> SUFFICES ASSUME h = 0, ~n.leaf PROVE FALSE
    OBVIOUS
  <2>1. Len(n.kids) = Len(n.keys) + 1 /\ Len(n.keys) \in Nat
    BY <1>1, <1>2
  <2>2. DOMAIN n.kids = 1..Len(n.kids)
    BY <1>2
  <2>3. 1 \in DOMAIN n.kids
    BY <2>1, <2>2
  <2>. QED
    BY <1>4, <2>3 DEF Below
<1>6. ASSUME NEW i \in DOMAIN n.kids PROVE h > 0 /\ n.kids[i] \in Level[h - 1]
  <2>1. h # 0 /\ h \in Nat
    BY <1>4, TopIs DEF Below
  <2>. QED
    BY <1>4, <2>1 DEF Below
<1>. QED
  BY <1>1, <1>2, <1>3, <1>5, <1>6

LEMMA LeafIn ==
  ASSUME NEW h \in 0..Top, NEW keys \in Seq(Pair)
  PROVE  BNode(TRUE, keys, <<>>) \in Level[h]
<1>1. <<>> \in Seq(Below(h))
  OBVIOUS
<1>. QED
  BY <1>1, NodeIs DEF BNode

LEMMA InnerIn ==
  ASSUME NEW h \in 1..Top, NEW keys \in Seq(Pair), NEW kids \in Seq(Level[h - 1]),
         Len(kids) = Len(keys) + 1
  PROVE  BNode(FALSE, keys, kids) \in Level[h]
<1>1. h \in 0..Top /\ h # 0
  BY TopIs
<1>2. kids \in Seq(Below(h))
  BY <1>1 DEF Below
<1>. QED
  BY <1>1, <1>2, NodeIs DEF BNode

LEMMA LevelUp == \A h \in 1..Top : Level[h - 1] \subseteq Level[h]
<1> DEFINE P == {n \in Nat : n + 1 <= Top => Level[n] \subseteq Level[n + 1]}
<1>1. Top \in Nat /\ Top >= 1
  BY TopIs
<1>2. 0 \in P
  <2> SUFFICES ASSUME NEW x \in Level[0] PROVE x \in Level[1]
    OBVIOUS
  <2>1. x.leaf = TRUE /\ x.keys \in Seq(Pair) /\ x.kids = <<>> /\ x = BNode(x.leaf, x.keys, x.kids)
    BY <1>1, NodeFields
  <2>2. 1 \in 0..Top
    BY <1>1
  <2>3. BNode(TRUE, x.keys, <<>>) \in Level[1]
    BY <2>1, <2>2, LeafIn
  <2>4. x = BNode(TRUE, x.keys, <<>>)
    BY <2>1, Zenon
  <2>. QED
    BY <2>3, <2>4
<1>3. ASSUME NEW n \in Nat, n \in P PROVE n + 1 \in P
  <2> SUFFICES ASSUME n + 2 <= Top, NEW x \in Level[n + 1] PROVE x \in Level[n + 2]
    OBVIOUS
  <2>1. n + 1 \in 0..Top /\ n + 2 \in 1..Top /\ n + 2 \in 0..Top /\ (n + 2) - 1 = n + 1
    BY <1>1
  <2>2. Level[n] \subseteq Level[n + 1]
    BY <1>1, <1>3
  <2>3. /\ x.leaf \in BOOLEAN /\ x.keys \in Seq(Pair) /\ x.kids \in Seq(Below(n + 1))
        /\ x.leaf => x.kids = <<>>
        /\ ~x.leaf => Len(x.kids) = Len(x.keys) + 1
        /\ x = BNode(x.leaf, x.keys, x.kids)
    BY <2>1, NodeFields
  <2>4. Below(n + 1) = Level[n]
    BY DEF Below
  <2>5. x.kids \in Seq(Level[n + 1])
    BY <2>2, <2>3, <2>4, SeqMonotonic
  <2>6. CASE x.leaf
    <3>1. x.leaf = TRUE
      BY <2>3, <2>6
    <3>. QED
      BY <2>1, <2>3, <2>6, <3>1, LeafIn
  <2>7. CASE ~x.leaf
    <3>1. x.leaf = FALSE
      BY <2>3, <2>7
    <3>. QED
      BY <2>1, <2>3, <2>5, <2>7, <3>1, InnerIn
  <2>. QED
    BY <2>6, <2>7
<1>. HIDE DEF P
<1>4. Nat \subseteq P
  BY <1>2, <1>3, Induction
<1> SUFFICES ASSUME NEW h \in 1..Top PROVE Level[h - 1] \subseteq Level[h]
  OBVIOUS
<1>5. h - 1 \in P /\ (h - 1) + 1 = h /\ h <= Top
  BY <1>1, <1>4
<1>. QED
  BY <1>5 DEF P

LEMMA LevelTrees == Trees = Level[Top] /\ \A h \in 0..Top : Level[h] \subseteq Trees
<1>1. Top \in Nat
  BY TopIs
<1> DEFINE P == {n \in Nat : n <= Top => Level[Top - n] \subseteq Level[Top]}
<1>2. 0 \in P
  BY <1>1
<1>3. ASSUME NEW n \in Nat, n \in P PROVE n + 1 \in P
  <2> SUFFICES ASSUME n + 1 <= Top PROVE Level[Top - (n + 1)] \subseteq Level[Top]
    OBVIOUS
  <2>1. Top - n \in 1..Top /\ (Top - n) - 1 = Top - (n + 1) /\ n <= Top
    BY <1>1
  <2>2. Level[Top - n] \subseteq Level[Top]
    BY <1>3, <2>1
  <2>3. Level[(Top - n) - 1] \subseteq Level[Top - n]
    BY <2>1, LevelUp
  <2>. QED
    BY <2>1, <2>2, <2>3
<1>. HIDE DEF P
<1>4. Nat \subseteq P
  BY <1>2, <1>3, Induction
<1>5. ASSUME NEW h \in 0..Top PROVE Level[h] \subseteq Level[Top]
  <2>1. Top - h \in P /\ Top - h <= Top /\ Top - (Top - h) = h
    BY <1>1, <1>4
  <2>. QED
    BY <2>1 DEF P
<1>. QED
  BY <1>5 DEF Trees, Top

-----------------------------------------------------------------------------
(* A function of trees may call itself on trees of a lower level: its      *)
(* defining equation has a solution.  K(t) are the trees it calls itself   *)
(* on for t, W[t] holds its values for t.                                  *)
Calls(K) ==
  /\ K \in [Trees -> SUBSET Trees]
  /\ \A h \in 0..Top : \A x \in Level[h] : \A y \in K[x] : h > 0 /\ y \in Level[h - 1]

Solvable(V, W, E, h) ==
  \E f \in [Trees -> V] : \A x \in Level[h] : f[x] = E[<<x, f>>] /\ f[x] \in W[x]

Equations(V, W, K, E) ==
  /\ V # {} /\ W \in [Trees -> SUBSET V] /\ Calls(K)
  /\ E \in [Trees \X [Trees -> V] -> V]
  /\ \A x \in Trees : \A f, g \in [Trees -> V] :
       (\A y \in K[x] : f[y] = g[y] /\ f[y] \in W[y]) =>
           E[<<x, f>>] = E[<<x, g>>] /\ E[<<x, f>>] \in W[x]

LEMMA Recursion ==
  ASSUME NEW V, NEW W, NEW K, NEW E, Equations(V, W, K, E)
  PROVE  \E f \in [Trees -> V] : \A x \in Trees : f[x] = E[<<x, f>>] /\ f[x] \in W[x]
<1> USE DEF Equations
<1>1. Top \in Nat /\ Top >= 0
  BY TopIs
<1>2. /\ \A h \in 0..Top : Level[h] \subseteq Trees
      /\ \A h \in 0..Top : \A x \in Level[h] : \A y \in K[x] : h > 0 /\ y \in Level[h - 1]
  BY LevelTrees DEF Calls
<1> DEFINE P == {n \in Nat : n <= Top => Solvable(V, W, E, n)}
<1>3. 0 \in P
  <2>1. PICK v \in V : TRUE
    OBVIOUS
  <2>2. PICK f \in [Trees -> V] : f = [x \in Trees |-> v]
    BY <2>1
  <2>3. PICK g \in [Trees -> V] : g = [x \in Trees |-> E[<<x, f>>]]
    OBVIOUS
  <2>4. ASSUME NEW x \in Level[0] PROVE g[x] = E[<<x, g>>] /\ g[x] \in W[x]
    <3>1. x \in Trees /\ g[x] = E[<<x, f>>] /\ \A y \in K[x] : FALSE
      BY <1>1, <1>2, <2>3
    <3>. QED
      BY <3>1
  <2>. QED
    BY <2>4 DEF Solvable
<1>4. ASSUME NEW n \in Nat, n \in P PROVE n + 1 \in P
  <2> SUFFICES ASSUME n + 1 <= Top PROVE Solvable(V, W, E, n + 1)
    OBVIOUS
  <2>1. n \in 0..Top /\ n + 1 \in 0..Top /\ (n + 1) - 1 = n
    BY <1>1, SMTT(30)
  <2>2. PICK f \in [Trees -> V] : \A x \in Level[n] : f[x] = E[<<x, f>>] /\ f[x] \in W[x]
    <3>1. Solvable(V, W, E, n)
      BY <1>4, <2>1
    <3>. QED
      BY <3>1 DEF Solvable
  <2>3. PICK g \in [Trees -> V] : g = [x \in Trees |-> E[<<x, f>>]]
    OBVIOUS
  <2>4. ASSUME NEW x \in Level[n + 1] PROVE g[x] = E[<<x, g>>] /\ g[x] \in W[x]
    <3>1. x \in Trees /\ g[x] = E[<<x, f>>]
      BY <1>2, <2>1, <2>3
    <3>2. \A y \in K[x] : y \in Level[n] /\ y \in Trees
      BY <1>2, <2>1
    <3>3. \A y \in K[x] : f[y] = g[y] /\ f[y] \in W[y]
      BY <2>2, <2>3, <3>2
    <3>. QED
      BY <3>1, <3>3
  <2>. QED
    BY <2>4 DEF Solvable
<1>. HIDE DEF P
<1>5. Top \in P
  BY <1>1, <1>3, <1>4, Induction
<1>6. Solvable(V, W, E, Top)
  BY <1>1, <1>5 DEF P
<1>7. Trees = Level[Top]
  BY LevelTrees
<1>. QED
  BY <1>6, <1>7 DEF Solvable

(* The kids of a node are a level below it.                                *)
Kids(n) == {n.kids[i] : i \in DOMAIN n.kids}

LEMMA KidsCalls ==
  ASSUME NEW K, K = [x \in Trees |-> Kids(x)]
  PROVE  Calls(K)
<1>1. Top \in Nat
  BY TopIs
<1>2. ASSUME NEW h \in 0..Top, NEW x \in Level[h], NEW y \in Kids(x)
      PROVE  h > 0 /\ y \in Level[h - 1] /\ y \in Trees /\ x \in Trees
  <2>1. PICK i \in DOMAIN x.kids : y = x.kids[i]
    BY DEF Kids
  <2>2. h > 0 /\ y \in Level[h - 1]
    BY <2>1, NodeFields
  <2>3. h - 1 \in 0..Top
    BY <1>1, <2>2
  <2>. QED
    BY <2>2, <2>3, LevelTrees
<1>3. Trees = Level[Top] /\ Top \in 0..Top
  BY <1>1, LevelTrees
<1>4. K \in [Trees -> SUBSET Trees]
  BY <1>2, <1>3
<1>5. \A h \in 0..Top : Level[h] \subseteq Trees
  BY LevelTrees
<1>. QED
  BY <1>2, <1>4, <1>5 DEF Calls

(* Two functions that satisfy the same equation are the same.              *)
LEMMA Agree ==
  ASSUME NEW K, Calls(K), NEW f, NEW g,
         \A x \in Trees : (\A y \in K[x] : f[y] = g[y]) => f[x] = g[x]
  PROVE  \A x \in Trees : f[x] = g[x]
<1>1. Top \in Nat /\ Top >= 0
  BY TopIs
<1>2. /\ \A h \in 0..Top : Level[h] \subseteq Trees
      /\ \A h \in 0..Top : \A x \in Level[h] : \A y \in K[x] : h > 0 /\ y \in Level[h - 1]
  BY LevelTrees DEF Calls
<1> DEFINE P == {n \in Nat : n <= Top => \A x \in Level[n] : f[x] = g[x]}
<1>3. 0 \in P
  <2>1. ASSUME NEW x \in Level[0] PROVE f[x] = g[x]
    <3>1. x \in Trees /\ \A y \in K[x] : FALSE
      BY <1>1, <1>2
    <3>. QED
      BY <3>1
  <2>. QED
    BY <2>1
<1>4. ASSUME NEW n \in Nat, n \in P PROVE n + 1 \in P
  <2> SUFFICES ASSUME n + 1 <= Top, NEW x \in Level[n + 1] PROVE f[x] = g[x]
    OBVIOUS
  <2>1. n + 1 \in 0..Top /\ n <= Top /\ (n + 1) - 1 = n
    BY <1>1
  <2>2. x \in Trees /\ \A y \in K[x] : y \in Level[n]
    BY <1>2, <2>1
  <2>3. \A y \in Level[n] : f[y] = g[y]
    BY <1>4, <2>1
  <2>. QED
    BY <2>2, <2>3
<1>. HIDE DEF P
<1>5. Top \in P
  BY <1>1, <1>3, <1>4, Induction
<1>. QED
  BY <1>1, <1>5, LevelTrees DEF P

(* The pairs a tree holds.                                                 *)
Content[node \in Trees] ==
  ToSet(node.keys) \cup UNION {Content[kid] : kid \in Kids(node)}

LEMMA KidsIn ==
  ASSUME NEW n \in Trees
  PROVE  Kids(n) \subseteq Trees
<1>1. Top \in Nat /\ Top \in 0..Top
  BY TopIs
<1>2. Calls([x \in Trees |-> Kids(x)])
  BY KidsCalls
<1>. QED
  BY <1>2 DEF Calls

LEMMA KeysIn ==
  ASSUME NEW n \in Trees
  PROVE  /\ n.leaf \in BOOLEAN /\ n.keys \in Seq(Pair) /\ ToSet(n.keys) \in SUBSET Pair
         /\ n.leaf => n.kids = <<>> /\ Kids(n) = {}
         /\ ~n.leaf => Len(n.kids) = Len(n.keys) + 1
<1>1. Top \in 0..Top /\ n \in Level[Top]
  BY TopIs, LevelTrees
<1>2. /\ n.leaf \in BOOLEAN /\ n.keys \in Seq(Pair)
      /\ n.leaf => n.kids = <<>>
      /\ ~n.leaf => Len(n.kids) = Len(n.keys) + 1
  BY <1>1, NodeFields
<1>3. \A i \in DOMAIN n.keys : n.keys[i] \in Pair
  BY <1>2
<1>. QED
  BY <1>2, <1>3 DEF ToSet, Kids

LEMMA ContentIs ==
  /\ Content \in [Trees -> SUBSET Pair]
  /\ \A n \in Trees : Content[n] = ToSet(n.keys) \cup UNION {Content[kid] : kid \in Kids(n)}
<1> DEFINE V == SUBSET Pair
           W == [x \in Trees |-> V]
           K == [x \in Trees |-> Kids(x)]
           Of(x, f) == ToSet(x.keys) \cup UNION {f[kid] : kid \in Kids(x)}
           E == [z \in Trees \X [Trees -> V] |-> Of(z[1], z[2])]
<1>1. Calls(K)
  BY KidsCalls
<1>2. \A x \in Trees : Kids(x) \subseteq Trees /\ ToSet(x.keys) \in SUBSET Pair
  BY KidsIn, KeysIn
<1>3. \A x \in Trees, f \in [Trees -> V] : Of(x, f) \in V
  BY <1>2
<1>4. V # {} /\ W \in [Trees -> SUBSET V] /\ E \in [Trees \X [Trees -> V] -> V]
  BY <1>3
<1>5. \A x \in Trees, f \in [Trees -> V] : E[<<x, f>>] = Of(x, f) /\ E[<<x, f>>] \in W[x]
  BY <1>3
<1>6. ASSUME NEW x \in Trees, NEW f \in [Trees -> V], NEW g \in [Trees -> V],
             \A y \in K[x] : f[y] = g[y]
      PROVE  E[<<x, f>>] = E[<<x, g>>]
  <2>1. \A y \in Kids(x) : f[y] = g[y]
    BY <1>6
  <2>2. {f[kid] : kid \in Kids(x)} = {g[kid] : kid \in Kids(x)}
    BY <2>1
  <2>3. Of(x, f) = Of(x, g)
    BY <2>2
  <2>. HIDE DEF V, W, K, E, Of
  <2>4. E[<<x, f>>] = Of(x, f) /\ E[<<x, g>>] = Of(x, g)
    BY <1>5
  <2>. QED
    BY <2>3, <2>4
<1>. HIDE DEF V, W, K, E, Of
<1>7. Equations(V, W, K, E)
  <2>1. \A x \in Trees : \A f, g \in [Trees -> V] :
          (\A y \in K[x] : f[y] = g[y] /\ f[y] \in W[y]) =>
             E[<<x, f>>] = E[<<x, g>>] /\ E[<<x, f>>] \in W[x]
    BY <1>5, <1>6
  <2>. QED
    BY <1>1, <1>4, <2>1 DEF Equations
<1>8. PICK f \in [Trees -> V] : \A x \in Trees : f[x] = E[<<x, f>>] /\ f[x] \in W[x]
  BY <1>7, Recursion
<1>9. f = [x \in Trees |-> Of(x, f)]
  BY <1>5, <1>8
<1> DEFINE Fits(g) == g = [x \in Trees |-> Of(x, g)]
           chosen == CHOOSE g : Fits(g)
<1>10. Fits(chosen)
  BY <1>9
<1>11. Content = chosen
  BY DEF Content, Of
<1>. HIDE DEF chosen
<1>12. Content = [x \in Trees |-> Of(x, Content)]
  BY <1>10, <1>11
<1>13. ASSUME NEW x \in Trees, \A y \in K[x] : f[y] = Content[y]
       PROVE  f[x] = Content[x]
  <2>1. {f[kid] : kid \in Kids(x)} = {Content[kid] : kid \in Kids(x)}
    BY <1>13 DEF K
  <2>. QED
    BY <1>9, <1>12, <2>1 DEF Of
<1>14. \A x \in Trees : f[x] = Content[x]
  BY <1>1, <1>13, Agree
<1>15. Content = f
  BY <1>9, <1>12, <1>14
<1>. QED
  BY <1>9, <1>15 DEF V, Of

(* The depths of the leaves, and the shape, of a tree.                     *)
LEMMA DepthsIs ==
  /\ Depths \in [Trees -> SUBSET Nat]
  /\ \A n \in Trees : Depths[n] = IF n.leaf THEN {0} ELSE {d + 1 : d \in UNION {Depths[n.kids[i]] : i \in DOMAIN n.kids}}
<1> DEFINE V == SUBSET Nat
           W == [x \in Trees |-> V]
           K == [x \in Trees |-> Kids(x)]
           Of(x, f) == IF x.leaf THEN {0} ELSE {d + 1 : d \in UNION {f[x.kids[i]] : i \in DOMAIN x.kids}}
           E == [z \in Trees \X [Trees -> V] |-> Of(z[1], z[2])]
<1>1. Calls(K)
  BY KidsCalls
<1>2. \A x \in Trees : \A i \in DOMAIN x.kids : x.kids[i] \in Trees
  BY KidsIn DEF Kids
<1>3. \A x \in Trees, f \in [Trees -> V] : Of(x, f) \in V
  BY <1>2
<1>4. ASSUME NEW x \in Trees, NEW f, NEW g, \A y \in K[x] : f[y] = g[y]
      PROVE  Of(x, f) = Of(x, g)
  <2>1. \A i \in DOMAIN x.kids : x.kids[i] \in K[x]
    BY DEF Kids
  <2>2. {f[x.kids[i]] : i \in DOMAIN x.kids} = {g[x.kids[i]] : i \in DOMAIN x.kids}
    BY <1>4, <2>1
  <2>. QED
    BY <2>2
<1>. HIDE DEF Of
<1>5. V # {} /\ W \in [Trees -> SUBSET V] /\ E \in [Trees \X [Trees -> V] -> V]
  BY <1>3
<1>6. \A x \in Trees, f \in [Trees -> V] : E[<<x, f>>] = Of(x, f) /\ E[<<x, f>>] \in W[x]
  BY <1>3
<1>. HIDE DEF V, W, K, E
<1>7. Equations(V, W, K, E)
  <2>1. \A x \in Trees : \A f, g \in [Trees -> V] :
          (\A y \in K[x] : f[y] = g[y] /\ f[y] \in W[y]) =>
             E[<<x, f>>] = E[<<x, g>>] /\ E[<<x, f>>] \in W[x]
    BY <1>4, <1>6
  <2>. QED
    BY <1>1, <1>5, <2>1 DEF Equations
<1>8. PICK f \in [Trees -> V] : \A x \in Trees : f[x] = E[<<x, f>>] /\ f[x] \in W[x]
  BY <1>7, Recursion
<1>9. f = [x \in Trees |-> Of(x, f)]
  BY <1>6, <1>8
<1> DEFINE Fits(g) == g = [x \in Trees |-> Of(x, g)]
           chosen == CHOOSE g : Fits(g)
<1>10. Fits(chosen)
  BY <1>9
<1>11. Depths = chosen
  BY DEF Depths, Of
<1>. HIDE DEF chosen
<1>12. Depths = [x \in Trees |-> Of(x, Depths)]
  BY <1>10, <1>11
<1>13. ASSUME NEW x \in Trees, \A y \in K[x] : f[y] = Depths[y]
       PROVE  f[x] = Depths[x]
  <2>1. Of(x, f) = Of(x, Depths)
    BY <1>4, <1>13
  <2>. QED
    BY <1>9, <1>12, <2>1
<1>14. \A x \in Trees : f[x] = Depths[x]
  BY <1>1, <1>13, Agree
<1>15. Depths = f
  BY <1>9, <1>12, <1>14
<1>. QED
  <2>1. \A n \in Trees : Depths[n] = Of(n, Depths)
    BY <1>12
  <2>2. Depths \in [Trees -> V]
    BY <1>15
  <2>. QED
    BY <2>1, <2>2 DEF V, Of

LEMMA ShapedIs ==
  /\ Shaped \in [Trees -> BOOLEAN]
  /\ \A n \in Trees : Shaped[n] = \A i \in DOMAIN n.kids : Sized(n.kids[i], 1) /\ Shaped[n.kids[i]]
<1> DEFINE V == BOOLEAN
           W == [x \in Trees |-> V]
           K == [x \in Trees |-> Kids(x)]
           Of(x, f) == \A i \in DOMAIN x.kids : Sized(x.kids[i], 1) /\ f[x.kids[i]]
           E == [z \in Trees \X [Trees -> V] |-> Of(z[1], z[2])]
<1>1. Calls(K)
  BY KidsCalls
<1>2. \A x \in Trees : \A i \in DOMAIN x.kids : x.kids[i] \in Trees
  BY KidsIn DEF Kids
<1>3. \A x \in Trees, f \in [Trees -> V] : Of(x, f) \in V
  OBVIOUS
<1>4. ASSUME NEW x \in Trees, NEW f, NEW g, \A y \in K[x] : f[y] = g[y]
      PROVE  Of(x, f) = Of(x, g)
  <2>1. \A i \in DOMAIN x.kids : x.kids[i] \in K[x]
    BY DEF Kids
  <2>. QED
    BY <1>4, <2>1
<1>. HIDE DEF Of
<1>5. V # {} /\ W \in [Trees -> SUBSET V] /\ E \in [Trees \X [Trees -> V] -> V]
  BY <1>3
<1>6. \A x \in Trees, f \in [Trees -> V] : E[<<x, f>>] = Of(x, f) /\ E[<<x, f>>] \in W[x]
  BY <1>3
<1>. HIDE DEF V, W, K, E
<1>7. Equations(V, W, K, E)
  <2>1. \A x \in Trees : \A f, g \in [Trees -> V] :
          (\A y \in K[x] : f[y] = g[y] /\ f[y] \in W[y]) =>
             E[<<x, f>>] = E[<<x, g>>] /\ E[<<x, f>>] \in W[x]
    BY <1>4, <1>6
  <2>. QED
    BY <1>1, <1>5, <2>1 DEF Equations
<1>8. PICK f \in [Trees -> V] : \A x \in Trees : f[x] = E[<<x, f>>] /\ f[x] \in W[x]
  BY <1>7, Recursion
<1>9. f = [x \in Trees |-> Of(x, f)]
  BY <1>6, <1>8
<1> DEFINE Fits(g) == g = [x \in Trees |-> Of(x, g)]
           chosen == CHOOSE g : Fits(g)
<1>10. Fits(chosen)
  BY <1>9
<1>11. Shaped = chosen
  BY DEF Shaped, Of
<1>. HIDE DEF chosen
<1>12. Shaped = [x \in Trees |-> Of(x, Shaped)]
  BY <1>10, <1>11
<1>13. ASSUME NEW x \in Trees, \A y \in K[x] : f[y] = Shaped[y]
       PROVE  f[x] = Shaped[x]
  <2>1. Of(x, f) = Of(x, Shaped)
    BY <1>4, <1>13
  <2>. QED
    BY <1>9, <1>12, <2>1
<1>14. \A x \in Trees : f[x] = Shaped[x]
  BY <1>1, <1>13, Agree
<1>15. Shaped = f
  BY <1>9, <1>12, <1>14
<1>. QED
  <2>1. \A n \in Trees : Shaped[n] = Of(n, Shaped)
    BY <1>12
  <2>2. Shaped \in [Trees -> V]
    BY <1>15
  <2>. QED
    BY <2>1, <2>2 DEF V, Of

-----------------------------------------------------------------------------
(* Sums over a sequence.                                                   *)
Folds(f, V, v, E, n) ==
  f \in [0..n -> V] /\ f[0] = v /\ \A i \in 1..n : f[i] = E[<<i, f[i - 1]>>]

LEMMA FoldExists ==
  ASSUME NEW V, NEW v \in V, NEW n \in Nat, NEW E \in [(1..n) \X V -> V]
  PROVE  \E f : Folds(f, V, v, E, n)
<1> DEFINE P == {m \in Nat : m <= n => \E f : Folds(f, V, v, E, m)}
<1>1. 0 \in P
  <2> DEFINE f == [i \in 0..0 |-> v]
  <2>1. Folds(f, V, v, E, 0)
    BY DEF Folds
  <2>. QED
    BY <2>1
<1>2. ASSUME NEW m \in Nat, m \in P PROVE m + 1 \in P
  <2> SUFFICES ASSUME m + 1 <= n PROVE \E f : Folds(f, V, v, E, m + 1)
    OBVIOUS
  <2>1. PICK f : Folds(f, V, v, E, m)
    BY <1>2
  <2>2. f \in [0..m -> V] /\ f[0] = v /\ \A i \in 1..m : f[i] = E[<<i, f[i - 1]>>]
    BY <2>1 DEF Folds
  <2>3. m \in 0..m /\ m + 1 \in 1..n
    OBVIOUS
  <2>4. PICK w \in V : w = E[<<m + 1, f[m]>>]
    BY <2>2, <2>3
  <2> DEFINE g == [i \in 0..m + 1 |-> IF i = m + 1 THEN w ELSE f[i]]
  <2>5. \A i \in 0..m : g[i] = f[i]
    OBVIOUS
  <2>6. g \in [0..m + 1 -> V] /\ g[m + 1] = w
    BY <2>2
  <2>. HIDE DEF g
  <2>7. ASSUME NEW i \in 1..m + 1 PROVE g[i] = E[<<i, g[i - 1]>>]
    <3>1. i - 1 \in 0..m /\ g[i - 1] = f[i - 1]
      BY <2>5
    <3>2. CASE i = m + 1
      <4>1. i - 1 = m
        BY <3>2
      <4>. QED
        BY <2>4, <2>6, <3>1, <3>2, <4>1
    <3>3. CASE i # m + 1
      <4>1. i \in 1..m /\ i \in 0..m
        BY <3>3
      <4>. QED
        BY <2>2, <2>5, <3>1, <4>1
    <3>. QED
      BY <3>2, <3>3
  <2>8. g[0] = v
    BY <2>2, <2>5
  <2>9. Folds(g, V, v, E, m + 1)
    BY <2>6, <2>7, <2>8 DEF Folds
  <2>. QED
    BY <2>9
<1>. HIDE DEF P
<1>3. n \in P
  BY <1>1, <1>2, Induction
<1>. QED
  BY <1>3 DEF P

LEMMA TotalSums ==
  ASSUME NEW n \in Nat, NEW ns \in [1..n -> Nat]
  PROVE  \E upto \in [0..n -> Nat] :
            upto[0] = 0 /\ (\A i \in 1..n : upto[i] = upto[i - 1] + ns[i]) /\ Total(ns) = upto[n]
<1> DEFINE E == [z \in (1..n) \X Nat |-> z[2] + ns[z[1]]]
<1>1. E \in [(1..n) \X Nat -> Nat] /\ 0 \in Nat
  OBVIOUS
<1>2. \A i \in 1..n, k \in Nat : E[<<i, k>>] = k + ns[i]
  OBVIOUS
<1>. HIDE DEF E
<1>3. PICK f : Folds(f, Nat, 0, E, n)
  BY <1>1, FoldExists
<1>4. f \in [0..n -> Nat] /\ f[0] = 0 /\ \A i \in 1..n : f[i] = E[<<i, f[i - 1]>>]
  BY <1>3 DEF Folds
<1>5. \A i \in 1..n : f[i] = f[i - 1] + ns[i]
  <2> SUFFICES ASSUME NEW i \in 1..n PROVE f[i] = f[i - 1] + ns[i]
    OBVIOUS
  <2>1. i - 1 \in 0..n
    OBVIOUS
  <2>. QED
    BY <1>2, <1>4, <2>1
<1> DEFINE Of(u, i) == IF i = 0 THEN 0 ELSE u[i - 1] + ns[i]
           Fits(u) == u = [i \in 0..n |-> Of(u, i)]
           chosen == CHOOSE u : Fits(u)
<1>6. f = [i \in 0..n |-> Of(f, i)]
  <2>1. \A i \in 0..n : f[i] = Of(f, i)
    BY <1>4, <1>5
  <2>. HIDE DEF Of
  <2>. QED
    BY <1>4, <2>1
<1>7. Fits(chosen)
  BY <1>6
<1>8. Len(ns) = n
  OBVIOUS
<1>9. Total(ns) = chosen[n]
  BY <1>8 DEF Total
<1>. HIDE DEF chosen
<1>10. chosen = [i \in 0..n |-> Of(chosen, i)]
  BY <1>7
<1>11. chosen[0] = 0 /\ \A i \in 1..n : chosen[i] = chosen[i - 1] + ns[i]
  BY <1>10
<1> DEFINE P == {m \in Nat : m <= n => chosen[m] = f[m]}
<1>12. 0 \in P
  BY <1>4, <1>11
<1>13. ASSUME NEW m \in Nat, m \in P PROVE m + 1 \in P
  <2> SUFFICES ASSUME m + 1 <= n PROVE chosen[m + 1] = f[m + 1]
    OBVIOUS
  <2>1. m + 1 \in 1..n /\ (m + 1) - 1 = m /\ chosen[m] = f[m]
    BY <1>13
  <2>. QED
    BY <1>5, <1>11, <2>1
<1>. HIDE DEF P
<1>14. n \in P
  BY <1>12, <1>13, Induction
<1>15. chosen[n] = f[n]
  BY <1>14 DEF P
<1>. QED
  BY <1>4, <1>5, <1>9, <1>15

(* The size of a union of sets that have nothing in common.                *)
Apart(S, n) == \A i, j \in 1..n : i # j => S[i] \cap S[j] = {}

LEMMA UnionCount ==
  ASSUME NEW n \in Nat, NEW S, \A i \in 1..n : IsFiniteSet(S[i]), Apart(S, n),
         NEW ns \in [1..n -> Nat], \A i \in 1..n : ns[i] = Cardinality(S[i])
  PROVE  /\ IsFiniteSet(UNION {S[i] : i \in 1..n})
         /\ Cardinality(UNION {S[i] : i \in 1..n}) = Total(ns)
<1> DEFINE Upto(m) == UNION {S[i] : i \in 1..m}
<1>1. PICK upto \in [0..n -> Nat] :
         upto[0] = 0 /\ (\A i \in 1..n : upto[i] = upto[i - 1] + ns[i]) /\ Total(ns) = upto[n]
  BY TotalSums
<1> DEFINE P == {m \in Nat : m <= n => IsFiniteSet(Upto(m)) /\ Cardinality(Upto(m)) = upto[m]}
<1>2. 0 \in P
  <2>1. Upto(0) = {}
    OBVIOUS
  <2>. QED
    BY <1>1, <2>1, FS_EmptySet
<1>3. ASSUME NEW m \in Nat, m \in P PROVE m + 1 \in P
  <2> SUFFICES ASSUME m + 1 <= n
               PROVE  IsFiniteSet(Upto(m + 1)) /\ Cardinality(Upto(m + 1)) = upto[m + 1]
    OBVIOUS
  <2>1. m + 1 \in 1..n /\ (m + 1) - 1 = m /\ m \in 0..n
    OBVIOUS
  <2>2. IsFiniteSet(Upto(m)) /\ Cardinality(Upto(m)) = upto[m]
    BY <1>3
  <2>3. Upto(m + 1) = Upto(m) \cup S[m + 1]
    <3>1. \A i \in 1..m + 1 : i \in 1..m \/ i = m + 1
      OBVIOUS
    <3>2. (1..m) \subseteq (1..m + 1) /\ m + 1 \in 1..m + 1
      OBVIOUS
    <3>. QED
      BY <3>1, <3>2
  <2>4. Upto(m) \cap S[m + 1] = {}
    <3>1. ASSUME NEW i \in 1..m PROVE S[i] \cap S[m + 1] = {}
      <4>1. i \in 1..n /\ i # m + 1
        OBVIOUS
      <4>. QED
        BY <2>1, <4>1 DEF Apart
    <3>. QED
      BY <3>1
  <2>. HIDE DEF Upto
  <2>5. IsFiniteSet(S[m + 1]) /\ Cardinality(S[m + 1]) = ns[m + 1] /\ ns[m + 1] \in Nat
    BY <2>1
  <2>6. /\ IsFiniteSet(Upto(m) \cup S[m + 1])
        /\ Cardinality(Upto(m) \cup S[m + 1])
             = Cardinality(Upto(m)) + Cardinality(S[m + 1]) - Cardinality(Upto(m) \cap S[m + 1])
    BY <2>2, <2>5, FS_Union
  <2>7. Cardinality(Upto(m) \cap S[m + 1]) = 0
    BY <2>4, FS_EmptySet
  <2>8. upto[m + 1] = upto[m] + ns[m + 1] /\ upto[m] \in Nat
    BY <1>1, <2>1
  <2>9. Cardinality(Upto(m) \cup S[m + 1]) = upto[m] + ns[m + 1] - 0
    BY <2>2, <2>5, <2>6, <2>7
  <2>10. upto[m] + ns[m + 1] - 0 = upto[m + 1]
    BY <2>5, <2>8
  <2>. QED
    BY <2>3, <2>6, <2>9, <2>10
<1>. HIDE DEF P
<1>4. n \in P
  BY <1>2, <1>3, Induction
<1>5. n <= n
  OBVIOUS
<1>6. IsFiniteSet(Upto(n)) /\ Cardinality(Upto(n)) = upto[n]
  BY <1>4, <1>5 DEF P
<1>. QED
  BY <1>1, <1>6

(* The pairs of a sequence whose keys grow are as many as its length.      *)
Before(p, q) == LexLess(p[1], q[1])
Increasing(keys) == \A i, j \in 1..Len(keys) : i < j => Before(keys[i], keys[j])

LEMMA PairOrder ==
  \A p, q, r \in Pair :
    /\ ~Before(p, p)
    /\ Before(p, q) /\ Before(q, r) => Before(p, r)
    /\ p[1] = q[1] \/ Before(p, q) \/ Before(q, p)
    /\ p[1] = q[1] => ~Before(p, q)
<1>1. \A p \in Pair : p[1] \in Word
  BY DEF Pair, Word
<1>. QED
  BY <1>1, LexOrder DEF Before

LEMMA KeysCount ==
  ASSUME NEW keys \in Seq(Pair), Increasing(keys)
  PROVE  IsFiniteSet(ToSet(keys)) /\ Cardinality(ToSet(keys)) = Len(keys)
<1>1. PICK n \in Nat : n = Len(keys)
  OBVIOUS
<1>2. DOMAIN keys = 1..n /\ \A i \in 1..n : keys[i] \in Pair
  BY <1>1
<1>3. \A i, j \in 1..n : keys[i] = keys[j] => i = j
  <2> SUFFICES ASSUME NEW i \in 1..n, NEW j \in 1..n, keys[i] = keys[j], i < j
               PROVE  FALSE
    OBVIOUS
  <2>. QED
    BY <1>1, <1>2, PairOrder DEF Increasing
<1>4. keys \in Injection(1..n, ToSet(keys))
  BY <1>1, <1>2, <1>3 DEF Injection, IsInjective, ToSet
<1>5. keys \in Surjection(1..n, ToSet(keys))
  BY <1>1, <1>2 DEF Surjection, ToSet
<1>6. IsFiniteSet(1..n) /\ Cardinality(1..n) = n
  BY FS_Interval
<1>. QED
  BY <1>1, <1>4, <1>5, <1>6, FS_Surjection

LEMMA CountIs ==
  /\ tree_count \in [Trees -> Nat]
  /\ \A n \in Trees : tree_count[n] = Len(n.keys) + Total([i \in DOMAIN n.kids |-> tree_count[n.kids[i]]])
<1> DEFINE V == Nat
           W == [x \in Trees |-> V]
           K == [x \in Trees |-> Kids(x)]
           Of(x, f) == Len(x.keys) + Total([i \in DOMAIN x.kids |-> f[x.kids[i]]])
           E == [z \in Trees \X [Trees -> V] |-> Of(z[1], z[2])]
<1>1. Calls(K)
  BY KidsCalls
<1>2. \A x \in Trees : /\ Len(x.keys) \in Nat /\ Len(x.kids) \in Nat
                       /\ DOMAIN x.kids = 1..Len(x.kids)
                       /\ \A i \in DOMAIN x.kids : x.kids[i] \in Trees
  <2> SUFFICES ASSUME NEW x \in Trees
               PROVE  /\ Len(x.keys) \in Nat /\ Len(x.kids) \in Nat
                      /\ DOMAIN x.kids = 1..Len(x.kids)
                      /\ \A i \in DOMAIN x.kids : x.kids[i] \in Trees
    OBVIOUS
  <2>1. Top \in 0..Top /\ x \in Level[Top]
    BY TopIs, LevelTrees
  <2>2. x.keys \in Seq(Pair) /\ x.kids \in Seq(Below(Top))
    BY <2>1, NodeFields
  <2>. QED
    BY <2>2, KidsIn DEF Kids
<1>3. \A x \in Trees, f \in [Trees -> V] : Of(x, f) \in V
  <2> SUFFICES ASSUME NEW x \in Trees, NEW f \in [Trees -> V] PROVE Of(x, f) \in V
    OBVIOUS
  <2>1. PICK n \in Nat : n = Len(x.kids)
    BY <1>2
  <2>2. PICK ns \in [1..n -> Nat] : ns = [i \in DOMAIN x.kids |-> f[x.kids[i]]]
    BY <1>2, <2>1
  <2>3. PICK upto \in [0..n -> Nat] : Total(ns) = upto[n]
    BY TotalSums
  <2>. QED
    BY <1>2, <2>2, <2>3
<1>4. ASSUME NEW x \in Trees, NEW f, NEW g, \A y \in K[x] : f[y] = g[y]
      PROVE  Of(x, f) = Of(x, g)
  <2>1. \A i \in DOMAIN x.kids : f[x.kids[i]] = g[x.kids[i]]
    BY <1>4 DEF Kids
  <2>2. [i \in DOMAIN x.kids |-> f[x.kids[i]]] = [i \in DOMAIN x.kids |-> g[x.kids[i]]]
    BY <2>1
  <2>. QED
    BY <2>2
<1>. HIDE DEF Of
<1>5. V # {} /\ W \in [Trees -> SUBSET V] /\ E \in [Trees \X [Trees -> V] -> V]
  BY <1>3
<1>6. \A x \in Trees, f \in [Trees -> V] : E[<<x, f>>] = Of(x, f) /\ E[<<x, f>>] \in W[x]
  BY <1>3
<1>. HIDE DEF V, W, K, E
<1>7. Equations(V, W, K, E)
  <2>1. \A x \in Trees : \A f, g \in [Trees -> V] :
          (\A y \in K[x] : f[y] = g[y] /\ f[y] \in W[y]) =>
             E[<<x, f>>] = E[<<x, g>>] /\ E[<<x, f>>] \in W[x]
    BY <1>4, <1>6
  <2>. QED
    BY <1>1, <1>5, <2>1 DEF Equations
<1>8. PICK f \in [Trees -> V] : \A x \in Trees : f[x] = E[<<x, f>>] /\ f[x] \in W[x]
  BY <1>7, Recursion
<1>9. f = [x \in Trees |-> Of(x, f)]
  BY <1>6, <1>8
<1> DEFINE Fits(g) == g = [x \in Trees |-> Of(x, g)]
           chosen == CHOOSE g : Fits(g)
<1>10. Fits(chosen)
  BY <1>9
<1>11. tree_count = chosen
  BY DEF tree_count, Of
<1>. HIDE DEF chosen
<1>12. tree_count = [x \in Trees |-> Of(x, tree_count)]
  BY <1>10, <1>11
<1>13. ASSUME NEW x \in Trees, \A y \in K[x] : f[y] = tree_count[y]
       PROVE  f[x] = tree_count[x]
  <2>1. Of(x, f) = Of(x, tree_count)
    BY <1>4, <1>13
  <2>. QED
    BY <1>9, <1>12, <2>1
<1>14. \A x \in Trees : f[x] = tree_count[x]
  BY <1>1, <1>13, Agree
<1>15. tree_count = f
  BY <1>9, <1>12, <1>14
<1>. QED
  <2>1. \A n \in Trees : tree_count[n] = Of(n, tree_count)
    BY <1>12
  <2>2. tree_count \in [Trees -> V]
    BY <1>15
  <2>. QED
    BY <2>1, <2>2 DEF V, Of

-----------------------------------------------------------------------------
(* The slots of a node.                                                    *)
LEMMA SlotLeft ==
  ASSUME NEW node, NEW n \in Nat, Len(node.keys) = n, NEW key
  PROVE  LET i == SlotFromLeft(node, key)
         IN  /\ i \in 1..n + 1 /\ \A j \in 1..i - 1 : LexLess(node.keys[j][1], key)
             /\ i <= n => ~LexLess(node.keys[i][1], key)
<1> DEFINE S == {i \in 1..n + 1 : i > n \/ ~LexLess(node.keys[i][1], key)}
<1>1. SlotFromLeft(node, key) = Min(S)
  BY DEF SlotFromLeft
<1>2. S \in SUBSET Nat /\ S # {}
  <2>1. n + 1 \in 1..n + 1 /\ n + 1 > n
    OBVIOUS
  <2>2. n + 1 \in S
    BY <2>1
  <2>3. 1..n + 1 \subseteq Nat
    OBVIOUS
  <2>. QED
    BY <2>2, <2>3
<1>. HIDE DEF S
<1>3. PICK m \in S : \A y \in S : ~(y < m)
  BY <1>2, LeastElement
<1>4. \A y \in S : m <= y
  BY <1>2, <1>3
<1>5. Min(S) \in S /\ \A y \in S : Min(S) <= y
  BY <1>3, <1>4 DEF Min
<1>6. PICK i \in S : i = Min(S) /\ \A y \in S : i <= y
  BY <1>5
<1>7. /\ i \in 1..n + 1 /\ (i > n \/ ~LexLess(node.keys[i][1], key))
      /\ i <= n => ~LexLess(node.keys[i][1], key)
  BY DEF S
<1>8. \A j \in 1..i - 1 : LexLess(node.keys[j][1], key)
  <2> SUFFICES ASSUME NEW j \in 1..i - 1, ~LexLess(node.keys[j][1], key) PROVE FALSE
    OBVIOUS
  <2>1. j \in S
    BY <1>7 DEF S
  <2>. QED
    BY <1>6, <1>7, <2>1
<1>. QED
  BY <1>1, <1>6, <1>7, <1>8

LEMMA SlotRight ==
  ASSUME NEW node, NEW n \in Nat, Len(node.keys) = n, DOMAIN node.keys = 1..n, NEW key
  PROVE  LET i == SlotFromRight(node, key)
         IN  /\ i \in 0..n /\ \A j \in i + 1..n : LexLess(key, node.keys[j][1])
             /\ i > 0 => ~LexLess(key, node.keys[i][1])
<1> DEFINE S == {0} \cup {i \in 1..n : ~LexLess(key, node.keys[i][1])}
           T == {n - i : i \in S}
<1>1. SlotFromRight(node, key) = Max(S)
  BY DEF SlotFromRight
<1>2. S \subseteq 0..n /\ 0 \in S
  OBVIOUS
<1>3. T \in SUBSET Nat /\ T # {}
  BY <1>2
<1>4. PICK t \in T : \A y \in T : ~(y < t)
  BY <1>3, LeastElement
<1>5. PICK m \in S : t = n - m
  OBVIOUS
<1>6. \A y \in S : y <= m
  <2> SUFFICES ASSUME NEW y \in S PROVE y <= m
    OBVIOUS
  <2>1. n - y \in T /\ y \in 0..n /\ m \in 0..n
    BY <1>2
  <2>2. ~(n - y < n - m)
    BY <1>4, <1>5, <2>1
  <2>. QED
    BY <2>1, <2>2
<1>. HIDE DEF S, T
<1>7. Max(S) \in S /\ \A y \in S : Max(S) >= y
  <2>1. \A y \in S : m >= y
    BY <1>2, <1>6
  <2>. QED
    BY <2>1 DEF Max
<1>8. PICK i \in S : i = Max(S) /\ \A y \in S : i >= y
  BY <1>7
<1>9. i \in 0..n /\ i > 0 => ~LexLess(key, node.keys[i][1])
  BY DEF S
<1>10. i \in 0..n
  BY <1>2
<1>11. \A j \in i + 1..n : LexLess(key, node.keys[j][1])
  <2> SUFFICES ASSUME NEW j \in i + 1..n, ~LexLess(key, node.keys[j][1]) PROVE FALSE
    OBVIOUS
  <2>1. j \in S /\ j > i
    BY <1>10 DEF S
  <2>. QED
    BY <1>8, <1>10, <2>1
<1>. QED
  BY <1>1, <1>8, <1>9, <1>10, <1>11

-----------------------------------------------------------------------------
(* A good tree of height h: its leaves h levels down, at most three pairs  *)
(* to a node and at least one below the root, every pair and every kid     *)
(* between its neighbours.                                                 *)
Ordered(n) ==
  /\ Increasing(n.keys)
  /\ \A i \in 1..Len(n.kids), j \in 1..Len(n.keys) : \A p \in Content[n.kids[i]] :
       IF j < i THEN Before(n.keys[j], p) ELSE Before(p, n.keys[j])

GoodOver(h, below) ==
  {n \in Level[h] : /\ Len(n.keys) <= 3 /\ Ordered(n) /\ (n.leaf <=> h = 0)
                    /\ \A kid \in Kids(n) : kid \in below /\ Len(kid.keys) >= 1}

Good[h \in 0..Top] == GoodOver(h, IF h = 0 THEN {} ELSE Good[h - 1])

LEMMA GoodIs ==
  /\ Good[0] = GoodOver(0, {})
  /\ \A h \in 1..Top : Good[h] = GoodOver(h, Good[h - 1])
<1> DEFINE V == SUBSET Trees
           E == [z \in (1..Top) \X V |-> GoodOver(z[1], z[2])]
           Of(g, h) == GoodOver(h, IF h = 0 THEN {} ELSE g[h - 1])
           Fits(g) == g = [h \in 0..Top |-> Of(g, h)]
           chosen == CHOOSE g : Fits(g)
<1>1. Top \in Nat
  BY TopIs
<1>2. \A h \in 0..Top : \A below : GoodOver(h, below) \in V
  BY LevelTrees DEF GoodOver
<1>3. GoodOver(0, {}) \in V /\ 0 \in 0..Top
  BY <1>1, <1>2
<1>4. /\ E \in [(1..Top) \X V -> V]
      /\ \A h \in 1..Top, below \in V : E[<<h, below>>] = GoodOver(h, below)
  BY <1>1, <1>2
<1>. HIDE DEF E, V
<1>5. PICK f : Folds(f, V, GoodOver(0, {}), E, Top)
  BY <1>1, <1>3, <1>4, FoldExists
<1>6. /\ f \in [0..Top -> V] /\ f[0] = GoodOver(0, {})
      /\ \A h \in 1..Top : f[h] = E[<<h, f[h - 1]>>]
  BY <1>5 DEF Folds
<1>7. ASSUME NEW h \in 0..Top PROVE f[h] = Of(f, h)
  <2>1. CASE h = 0
    BY <1>6, <2>1
  <2>2. CASE h # 0
    <3>1. h \in 1..Top /\ h - 1 \in 0..Top
      BY <1>1, <2>2
    <3>2. f[h - 1] \in V
      BY <1>6, <3>1
    <3>. QED
      BY <1>4, <1>6, <2>2, <3>1, <3>2
  <2>. QED
    BY <2>1, <2>2
<1>. HIDE DEF Of
<1>8. Fits(f)
  BY <1>6, <1>7
<1>9. Fits(chosen)
  BY <1>8
<1>10. Good = chosen
  BY DEF Good, Of
<1>. HIDE DEF chosen
<1>11. \A h \in 0..Top : Good[h] = Of(Good, h)
  BY <1>9, <1>10
<1>12. Good[0] = GoodOver(0, {})
  BY <1>3, <1>11 DEF Of
<1>13. ASSUME NEW h \in 1..Top PROVE Good[h] = GoodOver(h, Good[h - 1])
  <2>1. h \in 0..Top /\ h # 0
    BY <1>1
  <2>. QED
    BY <1>11, <2>1 DEF Of
<1>. QED
  BY <1>12, <1>13

LEMMA GoodTrees == \A h \in 0..Top : Good[h] \subseteq Level[h] /\ Good[h] \subseteq Trees
<1>1. ASSUME NEW h \in 0..Top PROVE Good[h] \subseteq Level[h] /\ Good[h] \subseteq Trees
  <2>1. Level[h] \subseteq Trees
    BY LevelTrees
  <2>2. CASE h = 0
    BY <2>1, <2>2, GoodIs DEF GoodOver
  <2>3. CASE h # 0
    <3>1. h \in 1..Top
      BY <2>3, TopIs
    <3>. QED
      BY <2>1, <3>1, GoodIs DEF GoodOver
  <2>. QED
    BY <2>2, <2>3
<1>. QED
  BY <1>1

(* A node by its parts: its n pairs, and its kids.                         *)
Row(n, keys) ==
  keys \in [1..n -> Pair] /\ \A i, j \in 1..n : i < j => Before(keys[i], keys[j])

Side(j, i, key, p) == IF j < i THEN Before(key, p) ELSE Before(p, key)

Inner(h, n, keys, kids) ==
  /\ Row(n, keys)
  /\ kids \in [1..n + 1 -> Good[h - 1]]
  /\ \A i \in 1..n + 1 : Len(kids[i].keys) >= 1
  /\ \A i \in 1..n + 1, j \in 1..n : \A p \in Content[kids[i]] : Side(j, i, keys[j], p)

LEMMA RowIncreasing ==
  ASSUME NEW n \in Nat, NEW keys
  PROVE  keys \in Seq(Pair) /\ Len(keys) = n /\ Increasing(keys) <=> Row(n, keys)
<1>1. ASSUME keys \in Seq(Pair), Len(keys) = n, Increasing(keys) PROVE Row(n, keys)
  BY <1>1 DEF Row, Increasing
<1>2. ASSUME Row(n, keys) PROVE keys \in Seq(Pair) /\ Len(keys) = n /\ Increasing(keys)
  <2>1. keys \in [1..n -> Pair]
    BY <1>2 DEF Row
  <2>2. keys \in Seq(Pair) /\ Len(keys) = n
    BY <2>1
  <2>. QED
    BY <1>2, <2>2 DEF Row, Increasing
<1>. QED
  BY <1>1, <1>2

LEMMA GoodLeaf ==
  ASSUME NEW n
  PROVE  n \in Good[0] <=>
           \E m \in 0..3 : Row(m, n.keys) /\ n = BNode(TRUE, n.keys, <<>>) /\ Len(n.keys) = m
<1>1. 0 \in 0..Top
  BY TopIs
<1>2. ASSUME n \in Good[0]
      PROVE  \E m \in 0..3 : Row(m, n.keys) /\ n = BNode(TRUE, n.keys, <<>>) /\ Len(n.keys) = m
  <2>1. n \in Level[0] /\ Len(n.keys) <= 3 /\ Ordered(n)
    BY <1>2, GoodIs DEF GoodOver
  <2>2. /\ n.keys \in Seq(Pair) /\ n.leaf \in BOOLEAN /\ n.leaf /\ n.kids = <<>>
        /\ n = BNode(n.leaf, n.keys, n.kids)
    BY <1>1, <2>1, NodeFields
  <2>3. n = BNode(TRUE, n.keys, <<>>)
    BY <2>2, Zenon
  <2>4. PICK m \in 0..3 : m = Len(n.keys)
    <3>1. PICK m \in Nat : m = Len(n.keys)
      BY <2>2
    <3>2. m <= 3
      BY <2>1, <3>1
    <3>3. m \in 0..3
      BY <3>2
    <3>. QED
      BY <3>1, <3>3
  <2>5. Row(m, n.keys)
    BY <2>1, <2>2, <2>4, RowIncreasing DEF Ordered
  <2>. QED
    BY <2>3, <2>4, <2>5
<1>3. ASSUME NEW m \in 0..3, Row(m, n.keys), n = BNode(TRUE, n.keys, <<>>), Len(n.keys) = m
      PROVE  n \in Good[0]
  <2>1. m \in Nat /\ m <= 3
    OBVIOUS
  <2>2. n.keys \in Seq(Pair) /\ Increasing(n.keys)
    BY <1>3, <2>1, RowIncreasing
  <2>3. n.leaf = TRUE /\ n.kids = <<>>
    BY <1>3 DEF BNode
  <2>4. n \in Level[0]
    BY <1>1, <1>3, <2>2, LeafIn
  <2>5. Kids(n) = {} /\ Len(n.kids) = 0
    BY <2>3 DEF Kids
  <2>6. Ordered(n)
    BY <2>2, <2>5 DEF Ordered
  <2>7. Len(n.keys) <= 3
    BY <1>3, <2>1
  <2>. QED
    BY <2>3, <2>4, <2>5, <2>6, <2>7, GoodIs DEF GoodOver
<1>. QED
  BY <1>2, <1>3

LEMMA GoodInner ==
  ASSUME NEW h \in 1..Top, NEW n
  PROVE  n \in Good[h] <=>
           \E m \in 0..3 : /\ Inner(h, m, n.keys, n.kids) /\ Len(n.keys) = m
                           /\ n = BNode(FALSE, n.keys, n.kids)
<1>1. Top \in Nat /\ h \in 0..Top /\ h # 0 /\ h - 1 \in 0..Top
  BY TopIs
<1>2. Good[h - 1] \subseteq Level[h - 1]
  BY <1>1, GoodTrees
<1>3. ASSUME n \in Good[h]
      PROVE  \E m \in 0..3 : /\ Inner(h, m, n.keys, n.kids) /\ Len(n.keys) = m
                             /\ n = BNode(FALSE, n.keys, n.kids)
  <2>1. /\ n \in Level[h] /\ Len(n.keys) <= 3 /\ Ordered(n) /\ ~n.leaf
        /\ \A kid \in Kids(n) : kid \in Good[h - 1] /\ Len(kid.keys) >= 1
    BY <1>1, <1>3, GoodIs DEF GoodOver
  <2>2. /\ n.keys \in Seq(Pair) /\ n.leaf \in BOOLEAN /\ n.kids \in Seq(Below(h))
        /\ Len(n.kids) = Len(n.keys) + 1
        /\ n = BNode(n.leaf, n.keys, n.kids)
    BY <1>1, <2>1, NodeFields
  <2>3. n = BNode(FALSE, n.keys, n.kids)
    BY <2>1, <2>2, Zenon
  <2>4. PICK m \in 0..3 : m = Len(n.keys)
    <3>1. PICK m \in Nat : m = Len(n.keys)
      BY <2>2
    <3>2. m <= 3
      BY <2>1, <3>1
    <3>3. m \in 0..3
      BY <3>2
    <3>. QED
      BY <3>1, <3>3
  <2>5. Row(m, n.keys)
    BY <2>1, <2>2, <2>4, RowIncreasing DEF Ordered
  <2>6. DOMAIN n.kids = 1..m + 1 /\ Len(n.kids) = m + 1
    BY <2>2, <2>4
  <2>7. \A i \in 1..m + 1 : n.kids[i] \in Kids(n)
    BY <2>6 DEF Kids
  <2>8. \A i \in 1..m + 1 : n.kids[i] \in Good[h - 1] /\ Len(n.kids[i].keys) >= 1
    BY <2>1, <2>7
  <2>9. n.kids \in [1..m + 1 -> Good[h - 1]]
    BY <2>2, <2>6, <2>8
  <2>10. \A i \in 1..m + 1, j \in 1..m : \A p \in Content[n.kids[i]] : Side(j, i, n.keys[j], p)
    BY <2>1, <2>4, <2>6 DEF Ordered, Side
  <2>. QED
    BY <2>3, <2>4, <2>5, <2>8, <2>9, <2>10 DEF Inner
<1>4. ASSUME NEW m \in 0..3, Inner(h, m, n.keys, n.kids), Len(n.keys) = m,
             n = BNode(FALSE, n.keys, n.kids)
      PROVE  n \in Good[h]
  <2>1. m \in Nat /\ m <= 3
    OBVIOUS
  <2>2. /\ Row(m, n.keys) /\ n.kids \in [1..m + 1 -> Good[h - 1]]
        /\ \A i \in 1..m + 1 : Len(n.kids[i].keys) >= 1
        /\ \A i \in 1..m + 1, j \in 1..m : \A p \in Content[n.kids[i]] : Side(j, i, n.keys[j], p)
    BY <1>4 DEF Inner
  <2>3. n.keys \in Seq(Pair) /\ Increasing(n.keys)
    BY <2>1, <2>2, RowIncreasing
  <2>4. n.kids \in [1..m + 1 -> Level[h - 1]]
    BY <1>2, <2>2
  <2>5. n.kids \in Seq(Level[h - 1]) /\ Len(n.kids) = m + 1 /\ DOMAIN n.kids = 1..m + 1
    BY <2>1, <2>4
  <2>6. n \in Level[h]
    BY <1>4, <2>3, <2>5, InnerIn
  <2>7. Ordered(n)
    BY <1>4, <2>2, <2>3, <2>5 DEF Ordered, Side
  <2>8. \A kid \in Kids(n) : kid \in Good[h - 1] /\ Len(kid.keys) >= 1
    BY <2>2, <2>5 DEF Kids
  <2>9. n.leaf = FALSE
    BY <1>4 DEF BNode
  <2>10. Len(n.keys) <= 3
    BY <1>4, <2>1
  <2>. QED
    BY <1>1, <2>6, <2>7, <2>8, <2>9, <2>10, GoodIs DEF GoodOver
<1>. QED
  BY <1>3, <1>4

LEMMA HeldInNode ==
  ASSUME NEW n \in Trees, NEW p
  PROVE  p \in Content[n] <=> \/ \E i \in DOMAIN n.keys : p = n.keys[i]
                              \/ \E i \in DOMAIN n.kids : p \in Content[n.kids[i]]
BY ContentIs DEF ToSet, Kids

LEMMA HeldInLeaf ==
  ASSUME NEW n \in Good[0], NEW m \in Nat, m = Len(n.keys), NEW p
  PROVE  p \in Content[n] <=> \E i \in 1..m : p = n.keys[i]
<1>1. n \in Trees
  BY GoodTrees, TopIs
<1>2. Row(m, n.keys) /\ n = BNode(TRUE, n.keys, <<>>)
  BY GoodLeaf
<1>3. DOMAIN n.keys = 1..m
  BY <1>2 DEF Row
<1>4. n.kids = <<>>
  BY <1>2 DEF BNode
<1>5. DOMAIN n.kids = {}
  BY <1>4
<1>. QED
  BY <1>1, <1>3, <1>5, HeldInNode

InnerHolds(n, m) ==
  \A p : p \in Content[n] <=> \/ \E i \in 1..m : p = n.keys[i]
                             \/ \E i \in 1..m + 1 : p \in Content[n.kids[i]]

LEMMA HeldInInner ==
  ASSUME NEW h \in 1..Top, NEW n \in Good[h], NEW m \in Nat, m = Len(n.keys)
  PROVE  InnerHolds(n, m)
<1>1. n \in Trees
  BY GoodTrees, TopIs
<1>2. Inner(h, m, n.keys, n.kids)
  BY GoodInner
<1>3. DOMAIN n.keys = 1..m /\ DOMAIN n.kids = 1..m + 1
  BY <1>2 DEF Inner, Row
<1>. QED
  BY <1>1, <1>3, HeldInNode DEF InnerHolds

LEMMA HeldArePairs ==
  ASSUME NEW h \in 0..Top, NEW n \in Good[h]
  PROVE  Content[n] \subseteq Pair
BY GoodTrees, ContentIs

(* Inserting into a sequence, and part of one.                             *)
IsInserted(n, S, s, i, e, t) ==
  /\ t \in [1..n + 1 -> S]
  /\ \A j \in 1..n + 1 : t[j] = IF j < i THEN s[j] ELSE IF j = i THEN e ELSE s[j - 1]
IsReplaced(n, S, s, i, e, t) ==
  t \in [1..n -> S] /\ \A j \in 1..n : t[j] = IF j = i THEN e ELSE s[j]

LEMMA Replaced ==
  ASSUME NEW n, NEW S, NEW s \in [1..n -> S], NEW i \in 1..n, NEW e \in S
  PROVE  IsReplaced(n, S, s, i, e, ReplaceAt(s, i, e))
BY DEF IsReplaced, ReplaceAt

LEMMA Inserted ==
  ASSUME NEW n \in Nat, NEW S, NEW s \in [1..n -> S], NEW i \in 1..n + 1, NEW e \in S
  PROVE  IsInserted(n, S, s, i, e, InsertAt(s, i, e))
<1>1. s \in Seq(S) /\ Len(s) = n
  OBVIOUS
<1>2. PICK a \in Seq(S) : a = SubSeq(s, 1, i - 1) /\ Len(a) = i - 1 /\ \A j \in 1..i - 1 : a[j] = s[j]
  <2>1. \A j \in 1..i - 1 : s[j] \in S
    OBVIOUS
  <2>2. /\ SubSeq(s, 1, i - 1) \in Seq(S)
        /\ Len(SubSeq(s, 1, i - 1)) = IF 1 <= i - 1 THEN (i - 1) - 1 + 1 ELSE 0
        /\ \A j \in 1..(i - 1) - 1 + 1 : SubSeq(s, 1, i - 1)[j] = s[1 + j - 1]
    BY <2>1, SubSeqProperties
  <2>3. (IF 1 <= i - 1 THEN (i - 1) - 1 + 1 ELSE 0) = i - 1
    OBVIOUS
  <2>4. \A j \in 1..i - 1 : j \in 1..(i - 1) - 1 + 1 /\ 1 + j - 1 = j
    OBVIOUS
  <2>. QED
    BY <2>2, <2>3, <2>4
<1>3. PICK c \in Seq(S) : /\ c = SubSeq(s, i, n) /\ Len(c) = n - i + 1
                          /\ \A j \in 1..n - i + 1 : c[j] = s[i + j - 1]
  <2>1. \A j \in i..n : s[j] \in S
    OBVIOUS
  <2>2. /\ SubSeq(s, i, n) \in Seq(S)
        /\ Len(SubSeq(s, i, n)) = IF i <= n THEN n - i + 1 ELSE 0
        /\ \A j \in 1..n - i + 1 : SubSeq(s, i, n)[j] = s[i + j - 1]
    BY <2>1, SubSeqProperties
  <2>3. (IF i <= n THEN n - i + 1 ELSE 0) = n - i + 1
    OBVIOUS
  <2>. QED
    BY <2>2, <2>3
<1>4. PICK b \in Seq(S) : b = <<e>> /\ Len(b) = 1 /\ b[1] = e
  <2>1. <<e>> \in Seq(S) /\ Len(<<e>>) = 1 /\ <<e>>[1] = e
    OBVIOUS
  <2>. QED
    BY <2>1
<1>5. PICK d \in Seq(S) : /\ d = a \o b /\ Len(d) = i
                          /\ \A j \in 1..i : d[j] = IF j < i THEN s[j] ELSE e
  <2>1. /\ a \o b \in Seq(S) /\ Len(a \o b) = (i - 1) + 1
        /\ \A j \in 1..(i - 1) + 1 : (a \o b)[j] = IF j <= i - 1 THEN a[j] ELSE b[j - (i - 1)]
    BY <1>2, <1>4, ConcatProperties
  <2>2. ASSUME NEW j \in 1..i PROVE (a \o b)[j] = IF j < i THEN s[j] ELSE e
    <3>1. j \in 1..(i - 1) + 1
      OBVIOUS
    <3>2. CASE j < i
      <4>1. j <= i - 1 /\ j \in 1..i - 1
        BY <3>2
      <4>. QED
        BY <1>2, <2>1, <3>1, <3>2, <4>1
    <3>3. CASE j = i
      <4>1. ~(j <= i - 1) /\ j - (i - 1) = 1
        BY <3>3
      <4>. QED
        BY <1>4, <2>1, <3>1, <3>3, <4>1
    <3>4. j < i \/ j = i
      OBVIOUS
    <3>. QED
      BY <3>2, <3>3, <3>4
  <2>3. (i - 1) + 1 = i
    OBVIOUS
  <2>. QED
    BY <2>1, <2>2, <2>3
<1>6. InsertAt(s, i, e) = d \o c
  BY <1>1, <1>2, <1>3, <1>4, <1>5 DEF InsertAt
<1>7. /\ d \o c \in Seq(S) /\ Len(d \o c) = i + (n - i + 1)
      /\ \A j \in 1..i + (n - i + 1) : (d \o c)[j] = IF j <= i THEN d[j] ELSE c[j - i]
  <2>1. /\ d \o c \in Seq(S) /\ Len(d \o c) = Len(d) + Len(c)
        /\ \A j \in 1..Len(d) + Len(c) : (d \o c)[j] = IF j <= Len(d) THEN d[j] ELSE c[j - Len(d)]
    BY ConcatProperties
  <2>2. Len(d) = i /\ Len(c) = n - i + 1
    BY <1>3, <1>5
  <2>. QED
    BY <2>1, <2>2
<1>8. i + (n - i + 1) = n + 1
  OBVIOUS
<1>9. ASSUME NEW j \in 1..n + 1
      PROVE  (d \o c)[j] = IF j < i THEN s[j] ELSE IF j = i THEN e ELSE s[j - 1]
  <2>1. j \in 1..i + (n - i + 1)
    BY <1>8
  <2>2. CASE j <= i
    <3>1. j \in 1..i
      BY <2>2
    <3>. QED
      BY <1>5, <1>7, <2>1, <2>2, <3>1
  <2>3. CASE j > i
    <3>1. ~(j <= i) /\ j - i \in 1..n - i + 1 /\ i + (j - i) - 1 = j - 1
      BY <2>3
    <3>. QED
      BY <1>3, <1>7, <2>1, <2>3, <3>1
  <2>4. j <= i \/ j > i
    OBVIOUS
  <2>. QED
    BY <2>2, <2>3, <2>4
<1>10. d \o c \in [1..n + 1 -> S]
  <2>1. PICK q \in Seq(S) : q = d \o c /\ Len(q) = n + 1
    BY <1>7, <1>8
  <2>2. q \in [1..Len(q) -> S]
    BY LenProperties
  <2>. QED
    BY <2>1, <2>2
<1>. QED
  BY <1>6, <1>9, <1>10 DEF IsInserted

IsPart(S, s, a, b, n) ==
  SubSeq(s, a, b) \in [1..n -> S] /\ \A j \in 1..n : SubSeq(s, a, b)[j] = s[a + j - 1]

LEMMA Parts ==
  ASSUME NEW n \in Nat, NEW S, NEW s \in [1..n -> S], NEW a \in 1..n, NEW b \in a..n
  PROVE  IsPart(S, s, a, b, b - a + 1)
<1>1. \A j \in a..b : s[j] \in S
  OBVIOUS
<1>2. a \in Int /\ b \in Int /\ a <= b
  OBVIOUS
<1>3. /\ SubSeq(s, a, b) \in Seq(S) /\ Len(SubSeq(s, a, b)) = b - a + 1
      /\ \A j \in 1..b - a + 1 : SubSeq(s, a, b)[j] = s[a + j - 1]
  BY <1>1, <1>2, SubSeqProperties
<1>4. PICK q \in Seq(S) : q = SubSeq(s, a, b) /\ Len(q) = b - a + 1
  BY <1>3
<1>5. q \in [1..Len(q) -> S]
  BY LenProperties
<1>. QED
  BY <1>3, <1>4, <1>5 DEF IsPart

LEMMA HalfParts ==
  ASSUME NEW S
  PROVE  /\ \A s \in [1..3 -> S] :
              /\ SubSeq(s, 1, 1) \in [1..1 -> S] /\ SubSeq(s, 1, 1)[1] = s[1]
              /\ SubSeq(s, 3, 3) \in [1..1 -> S] /\ SubSeq(s, 3, 3)[1] = s[3]
         /\ \A s \in [1..4 -> S] :
              /\ SubSeq(s, 1, 2) \in [1..2 -> S] /\ SubSeq(s, 3, 4) \in [1..2 -> S]
              /\ SubSeq(s, 1, 2)[1] = s[1] /\ SubSeq(s, 1, 2)[2] = s[2]
              /\ SubSeq(s, 3, 4)[1] = s[3] /\ SubSeq(s, 3, 4)[2] = s[4]
<1>1. /\ 1 - 1 + 1 = 1 /\ 3 - 3 + 1 = 1 /\ 2 - 1 + 1 = 2 /\ 4 - 3 + 1 = 2
      /\ 3 \in Nat /\ 4 \in Nat /\ 1 \in 1..3 /\ 1 \in 1..1 /\ 3 \in 1..3 /\ 3 \in 3..3
      /\ 1 \in 1..4 /\ 2 \in 1..4 /\ 3 \in 1..4 /\ 4 \in 3..4 /\ 1 \in 1..2 /\ 2 \in 1..2
      /\ 2 \in 1..4 /\ 1 + 1 - 1 = 1 /\ 1 + 2 - 1 = 2 /\ 3 + 1 - 1 = 3 /\ 3 + 2 - 1 = 4
  OBVIOUS
<1>2. ASSUME NEW s \in [1..3 -> S] PROVE IsPart(S, s, 1, 1, 1) /\ IsPart(S, s, 3, 3, 1)
  <2>1. IsPart(S, s, 1, 1, 1 - 1 + 1)
    BY <1>1, Parts
  <2>2. IsPart(S, s, 3, 3, 3 - 3 + 1)
    BY <1>1, Parts
  <2>. QED
    BY <1>1, <2>1, <2>2
<1>3. ASSUME NEW s \in [1..4 -> S] PROVE IsPart(S, s, 1, 2, 2) /\ IsPart(S, s, 3, 4, 2)
  <2>1. IsPart(S, s, 1, 2, 2 - 1 + 1)
    BY <1>1, Parts
  <2>2. IsPart(S, s, 3, 4, 4 - 3 + 1)
    BY <1>1, Parts
  <2>. QED
    BY <1>1, <2>1, <2>2
<1>. QED
  BY <1>1, <1>2, <1>3 DEF IsPart

-----------------------------------------------------------------------------
(* Splitting a full node: its halves hold what it held, on either side of  *)
(* its middle pair.                                                        *)
LeftHalf(y) ==
  BNode(y.leaf, SubSeq(y.keys, 1, 1), IF y.leaf THEN <<>> ELSE SubSeq(y.kids, 1, 2))
RightHalf(y) ==
  BNode(y.leaf, SubSeq(y.keys, 3, Len(y.keys)),
        IF y.leaf THEN <<>> ELSE SubSeq(y.kids, 3, Len(y.kids)))

Halves(g, y, l, m, r) ==
  /\ l \in Good[g] /\ r \in Good[g] /\ m \in Pair /\ Len(l.keys) = 1 /\ Len(r.keys) = 1
  /\ \A p : p \in Content[y] <=> p \in Content[l] \/ p = m \/ p \in Content[r]
  /\ \A p \in Content[l] : Before(p, m)
  /\ \A p \in Content[r] : Before(m, p)

LEMMA HalvesOfLeaf ==
  ASSUME NEW y \in Good[0], Len(y.keys) = 3
  PROVE  Halves(0, y, LeftHalf(y), y.keys[2], RightHalf(y))
<1>1. Row(3, y.keys) /\ y = BNode(TRUE, y.keys, <<>>)
  BY GoodLeaf
<1>2. /\ y.keys \in [1..3 -> Pair]
      /\ \A i, j \in 1..3 : i < j => Before(y.keys[i], y.keys[j])
  BY <1>1 DEF Row
<1>3. y.leaf = TRUE
  BY <1>1 DEF BNode
<1>4. 1 \in 1..3 /\ 2 \in 1..3 /\ 3 \in 1..3 /\ 1 \in 1..1 /\ \A i \in 1..1 : i = 1
  OBVIOUS
<1>5. PICK a \in [1..1 -> Pair] : a = SubSeq(y.keys, 1, 1) /\ a[1] = y.keys[1]
  <2>1. y.keys \in [1..3 -> Pair]
    BY <1>2
  <2>2. SubSeq(y.keys, 1, 1) \in [1..1 -> Pair] /\ SubSeq(y.keys, 1, 1)[1] = y.keys[1]
    BY <2>1, HalfParts
  <2>. QED
    BY <2>2
<1>6. PICK b \in [1..1 -> Pair] : b = SubSeq(y.keys, 3, 3) /\ b[1] = y.keys[3]
  <2>1. y.keys \in [1..3 -> Pair]
    BY <1>2
  <2>. QED
    BY <2>1, HalfParts
<1>7. PICK l : l = BNode(TRUE, a, <<>>)
  OBVIOUS
<1>8. PICK r : r = BNode(TRUE, b, <<>>)
  OBVIOUS
<1>9. LeftHalf(y) = l /\ RightHalf(y) = r
  BY <1>3, <1>5, <1>6, <1>7, <1>8 DEF LeftHalf, RightHalf
<1>10. l.keys = a /\ r.keys = b /\ Len(a) = 1 /\ Len(b) = 1 /\ 1 \in 0..3
  BY <1>7, <1>8 DEF BNode
<1>11. Row(1, a) /\ Row(1, b)
  BY <1>4 DEF Row
<1>12. l \in Good[0] /\ r \in Good[0]
  BY <1>7, <1>8, <1>10, <1>11, GoodLeaf
<1>13. /\ \A p : p \in Content[y] <=> \E i \in 1..3 : p = y.keys[i]
       /\ \A p : p \in Content[l] <=> \E i \in 1..1 : p = a[i]
       /\ \A p : p \in Content[r] <=> \E i \in 1..1 : p = b[i]
  <2>1. 3 \in Nat /\ 1 \in Nat
    OBVIOUS
  <2>2. \A p : p \in Content[y] <=> \E i \in 1..3 : p = y.keys[i]
    BY <2>1, HeldInLeaf
  <2>3. \A p : p \in Content[l] <=> \E i \in 1..1 : p = l.keys[i]
    BY <1>10, <1>12, <2>1, HeldInLeaf
  <2>4. \A p : p \in Content[r] <=> \E i \in 1..1 : p = r.keys[i]
    BY <1>10, <1>12, <2>1, HeldInLeaf
  <2>. QED
    BY <1>10, <2>2, <2>3, <2>4
<1>14. \A i \in 1..3 : i = 1 \/ i = 2 \/ i = 3
  OBVIOUS
<1>15. \A p : p \in Content[y] <=> p \in Content[l] \/ p = y.keys[2] \/ p \in Content[r]
  BY <1>4, <1>5, <1>6, <1>13, <1>14
<1>16. Before(y.keys[1], y.keys[2]) /\ Before(y.keys[2], y.keys[3]) /\ y.keys[2] \in Pair
  BY <1>2
<1>17. \A p \in Content[l] : Before(p, y.keys[2])
  BY <1>4, <1>5, <1>13, <1>16
<1>18. \A p \in Content[r] : Before(y.keys[2], p)
  BY <1>4, <1>6, <1>13, <1>16
<1>. QED
  BY <1>9, <1>10, <1>12, <1>15, <1>16, <1>17, <1>18 DEF Halves

LEMMA HalvesOfInner ==
  ASSUME NEW g \in 1..Top, NEW y \in Good[g], Len(y.keys) = 3
  PROVE  Halves(g, y, LeftHalf(y), y.keys[2], RightHalf(y))
<1>1. Inner(g, 3, y.keys, y.kids) /\ y = BNode(FALSE, y.keys, y.kids)
  BY GoodInner
<1>2. /\ y.keys \in [1..3 -> Pair]
      /\ \A i, j \in 1..3 : i < j => Before(y.keys[i], y.keys[j])
      /\ y.kids \in [1..4 -> Good[g - 1]]
      /\ \A i \in 1..4 : Len(y.kids[i].keys) >= 1
      /\ \A i \in 1..4, j \in 1..3 : \A p \in Content[y.kids[i]] : Side(j, i, y.keys[j], p)
  <2>1. 3 + 1 = 4
    OBVIOUS
  <2>. QED
    BY <1>1, <2>1 DEF Inner, Row
<1>3. y.leaf = FALSE /\ Len(y.kids) = 4
  BY <1>1, <1>2 DEF BNode
<1>4. /\ 1 \in 1..3 /\ 2 \in 1..3 /\ 3 \in 1..3 /\ 1 \in 1..1 /\ \A i \in 1..1 : i = 1
      /\ \A i \in 1..2 : i = 1 \/ i = 2
      /\ 1 \in 1..4 /\ 2 \in 1..4 /\ 3 \in 1..4 /\ 4 \in 1..4 /\ 1 \in 1..2 /\ 2 \in 1..2
  OBVIOUS
<1>5. PICK a \in [1..1 -> Pair] : a = SubSeq(y.keys, 1, 1) /\ a[1] = y.keys[1]
  <2>1. y.keys \in [1..3 -> Pair]
    BY <1>2
  <2>2. SubSeq(y.keys, 1, 1) \in [1..1 -> Pair] /\ SubSeq(y.keys, 1, 1)[1] = y.keys[1]
    BY <2>1, HalfParts
  <2>. QED
    BY <2>2
<1>6. PICK b \in [1..1 -> Pair] : b = SubSeq(y.keys, 3, 3) /\ b[1] = y.keys[3]
  <2>1. y.keys \in [1..3 -> Pair]
    BY <1>2
  <2>. QED
    BY <2>1, HalfParts
<1>7. PICK c \in [1..2 -> Good[g - 1]] : /\ c = SubSeq(y.kids, 1, 2)
                                         /\ c[1] = y.kids[1] /\ c[2] = y.kids[2]
  <2>1. y.kids \in [1..4 -> Good[g - 1]]
    BY <1>2
  <2>2. SubSeq(y.kids, 1, 2) \in [1..2 -> Good[g - 1]] /\ SubSeq(y.kids, 1, 2)[1] = y.kids[1] /\ SubSeq(y.kids, 1, 2)[2] = y.kids[2]
    BY <2>1, HalfParts
  <2>. QED
    BY <2>2
<1>8. PICK d \in [1..2 -> Good[g - 1]] : /\ d = SubSeq(y.kids, 3, 4)
                                         /\ d[1] = y.kids[3] /\ d[2] = y.kids[4]
  <2>1. y.kids \in [1..4 -> Good[g - 1]]
    BY <1>2
  <2>. QED
    BY <2>1, HalfParts
<1>9. PICK l : l = BNode(FALSE, a, c)
  OBVIOUS
<1>10. PICK r : r = BNode(FALSE, b, d)
  OBVIOUS
<1>11. LeftHalf(y) = l /\ RightHalf(y) = r
  BY <1>3, <1>5, <1>6, <1>7, <1>8, <1>9, <1>10 DEF LeftHalf, RightHalf
<1>12. l.keys = a /\ r.keys = b /\ Len(a) = 1 /\ Len(b) = 1 /\ l.kids = c /\ r.kids = d
  BY <1>9, <1>10 DEF BNode
<1>13. /\ TRUE
       /\ \A k, p : /\ Side(1, 1, k, p) <=> Before(p, k)
                    /\ Side(1, 2, k, p) <=> Before(k, p)
                    /\ Side(2, 1, k, p) <=> Before(p, k)
                    /\ Side(2, 2, k, p) <=> Before(p, k)
                    /\ Side(2, 3, k, p) <=> Before(k, p)
                    /\ Side(2, 4, k, p) <=> Before(k, p)
                    /\ Side(3, 3, k, p) <=> Before(p, k)
                    /\ Side(3, 4, k, p) <=> Before(k, p)
  BY DEF Side
<1>14. Inner(g, 1, a, c)
  <2>1. Row(1, a)
    BY <1>4 DEF Row
  <2>2. \A i \in 1..2 : Len(c[i].keys) >= 1
    BY <1>2, <1>4, <1>7
  <2>3. \A i \in 1..2, j \in 1..1 : \A p \in Content[c[i]] : Side(j, i, a[j], p)
    BY <1>2, <1>4, <1>5, <1>7
  <2>4. 1 + 1 = 2
    OBVIOUS
  <2>. QED
    BY <2>1, <2>2, <2>3, <2>4 DEF Inner
<1>15. Inner(g, 1, b, d)
  <2>1. Row(1, b)
    BY <1>4 DEF Row
  <2>2. \A i \in 1..2 : Len(d[i].keys) >= 1
    BY <1>2, <1>4, <1>8
  <2>3. \A i \in 1..2, j \in 1..1 : \A p \in Content[d[i]] : Side(j, i, b[j], p)
    BY <1>2, <1>4, <1>6, <1>8, <1>13
  <2>4. 1 + 1 = 2
    OBVIOUS
  <2>. QED
    BY <2>1, <2>2, <2>3, <2>4 DEF Inner
<1>16. l \in Good[g] /\ r \in Good[g]
  <2>1. 1 \in 0..3
    OBVIOUS
  <2>. QED
    BY <1>9, <1>10, <1>12, <1>14, <1>15, <2>1, GoodInner
<1>17. /\ \A p : p \in Content[y] <=> \/ \E i \in 1..3 : p = y.keys[i]
                                      \/ \E i \in 1..4 : p \in Content[y.kids[i]]
       /\ \A p : p \in Content[l] <=> (\E i \in 1..1 : p = a[i]) \/ \E i \in 1..2 : p \in Content[c[i]]
       /\ \A p : p \in Content[r] <=> (\E i \in 1..1 : p = b[i]) \/ \E i \in 1..2 : p \in Content[d[i]]
  <2>1. 3 + 1 = 4 /\ 1 + 1 = 2
    OBVIOUS
  <2>2. 3 \in Nat /\ 1 \in Nat
    OBVIOUS
  <2>6. 1 = Len(l.keys) /\ 1 = Len(r.keys)
    BY <1>12
  <2>3. InnerHolds(y, 3)
    BY <2>2, HeldInInner
  <2>4. InnerHolds(l, 1) /\ InnerHolds(r, 1)
    BY <1>16, <2>2, <2>6, HeldInInner
  <2>. QED
    BY <1>12, <2>1, <2>3, <2>4 DEF InnerHolds
<1>18. (\A i \in 1..3 : i = 1 \/ i = 2 \/ i = 3) /\ (\A i \in 1..4 : i = 1 \/ i = 2 \/ i = 3 \/ i = 4)
  OBVIOUS
<1>19. /\ \A p : p \in Content[l] <=> p = y.keys[1] \/ p \in Content[y.kids[1]] \/ p \in Content[y.kids[2]]
       /\ \A p : p \in Content[r] <=> p = y.keys[3] \/ p \in Content[y.kids[3]] \/ p \in Content[y.kids[4]]
  BY <1>4, <1>5, <1>6, <1>7, <1>8, <1>17
<1>20. \A p : p \in Content[y] <=> p \in Content[l] \/ p = y.keys[2] \/ p \in Content[r]
  BY <1>4, <1>17, <1>18, <1>19
<1>21. Before(y.keys[1], y.keys[2]) /\ Before(y.keys[2], y.keys[3]) /\ y.keys[2] \in Pair
  BY <1>2
<1>22. \A p \in Content[l] : Before(p, y.keys[2])
  BY <1>2, <1>4, <1>13, <1>19, <1>21
<1>23. \A p \in Content[r] : Before(y.keys[2], p)
  BY <1>2, <1>4, <1>13, <1>19, <1>21
<1>. QED
  BY <1>11, <1>12, <1>16, <1>20, <1>21, <1>22, <1>23 DEF Halves

LEMMA HalvesHold ==
  ASSUME NEW g \in 0..Top, NEW y \in Good[g], Len(y.keys) = 3
  PROVE  Halves(g, y, LeftHalf(y), y.keys[2], RightHalf(y))
<1>1. CASE g = 0
  BY <1>1, HalvesOfLeaf
<1>2. CASE g # 0
  <2>1. g \in 1..Top
    BY <1>2, TopIs
  <2>. QED
    BY <2>1, HalvesOfInner
<1>. QED
  BY <1>1, <1>2

(* What a node with these pairs and kids holds.                            *)
Holds(n, keys, kids, p) ==
  (\E i \in 1..n : p = keys[i]) \/ \E i \in 1..n + 1 : p \in Content[kids[i]]

SplitAt(h, n, s, keys, kids, keys2, kids2) ==
  /\ Inner(h, n + 1, keys2, kids2)
  /\ \A j \in 1..n + 1 :
       keys2[j] = IF j < s THEN keys[j] ELSE IF j = s THEN kids[s].keys[2] ELSE keys[j - 1]
  /\ Len(kids2[s].keys) = 1 /\ Len(kids2[s + 1].keys) = 1
  /\ \A p : Holds(n, keys, kids, p) <=> Holds(n + 1, keys2, kids2, p)

LEMMA SplitHolds ==
  ASSUME NEW h \in 1..Top, NEW n \in 0..2, NEW keys, NEW kids, Inner(h, n, keys, kids),
         NEW s \in 1..n + 1, Len(kids[s].keys) = 3
  PROVE  \E keys2, kids2 :
            /\ split_child(BNode(FALSE, keys, kids), s) = BNode(FALSE, keys2, kids2)
            /\ SplitAt(h, n, s, keys, kids, keys2, kids2)
<1>1. n \in Nat /\ n + 1 \in Nat /\ h - 1 \in 0..Top
  BY TopIs
<1>2. /\ keys \in [1..n -> Pair]
      /\ \A i, j \in 1..n : i < j => Before(keys[i], keys[j])
      /\ kids \in [1..n + 1 -> Good[h - 1]]
      /\ \A i \in 1..n + 1 : Len(kids[i].keys) >= 1
      /\ \A i \in 1..n + 1, j \in 1..n : \A p \in Content[kids[i]] : Side(j, i, keys[j], p)
  BY DEF Inner, Row
<1>3. PICK y \in Good[h - 1] : y = kids[s] /\ Len(y.keys) = 3
  BY <1>2
<1>4. PICK l, m, r : l = LeftHalf(y) /\ m = y.keys[2] /\ r = RightHalf(y)
  OBVIOUS
<1>5. Halves(h - 1, y, l, m, r)
  BY <1>1, <1>3, <1>4, HalvesHold
<1>6. /\ l \in Good[h - 1] /\ r \in Good[h - 1] /\ m \in Pair
      /\ Len(l.keys) = 1 /\ Len(r.keys) = 1
      /\ \A p : p \in Content[y] <=> p \in Content[l] \/ p = m \/ p \in Content[r]
      /\ \A p \in Content[l] : Before(p, m)
      /\ \A p \in Content[r] : Before(m, p)
  BY <1>5 DEF Halves
<1>7. PICK kids1 \in [1..n + 1 -> Good[h - 1]] :
         /\ kids1 = ReplaceAt(kids, s, l)
         /\ \A j \in 1..n + 1 : kids1[j] = IF j = s THEN l ELSE kids[j]
  <2>1. IsReplaced(n + 1, Good[h - 1], kids, s, l, ReplaceAt(kids, s, l))
    BY <1>2, <1>6, Replaced
  <2>. QED
    BY <2>1 DEF IsReplaced
<1>8. PICK keys2 \in [1..n + 1 -> Pair] :
         /\ keys2 = InsertAt(keys, s, m)
         /\ \A j \in 1..n + 1 : keys2[j] = IF j < s THEN keys[j] ELSE IF j = s THEN m ELSE keys[j - 1]
  <2>1. IsInserted(n, Pair, keys, s, m, InsertAt(keys, s, m))
    BY <1>1, <1>2, <1>6, Inserted
  <2>. QED
    BY <2>1 DEF IsInserted
<1>9. s + 1 \in 1..(n + 1) + 1
  OBVIOUS
<1>10. PICK kids2 \in [1..(n + 1) + 1 -> Good[h - 1]] :
         /\ kids2 = InsertAt(kids1, s + 1, r)
         /\ \A j \in 1..(n + 1) + 1 : kids2[j] =
              IF j < s + 1 THEN kids1[j] ELSE IF j = s + 1 THEN r ELSE kids1[j - 1]
  <2>1. IsInserted(n + 1, Good[h - 1], kids1, s + 1, r, InsertAt(kids1, s + 1, r))
    BY <1>1, <1>6, <1>7, <1>9, Inserted
  <2>. QED
    BY <2>1 DEF IsInserted
<1>11. split_child(BNode(FALSE, keys, kids), s) = BNode(FALSE, keys2, kids2)
  <2>1. /\ BNode(FALSE, keys, kids).leaf = FALSE /\ BNode(FALSE, keys, kids).keys = keys
        /\ BNode(FALSE, keys, kids).kids = kids
    BY DEF BNode
  <2>2. split_child(BNode(FALSE, keys, kids), s)
          = BNode(FALSE, InsertAt(keys, s, m), InsertAt(ReplaceAt(kids, s, l), s + 1, r))
    BY <1>3, <1>4, <2>1 DEF split_child, LeftHalf, RightHalf
  <2>. QED
    BY <1>7, <1>8, <1>10, <2>2
<1>12. \A a \in 1..n + 1 : \A p \in Content[kids[a]] : p \in Pair
  <2>1. \A x \in Good[h - 1] : Content[x] \subseteq Pair
    BY <1>1, HeldArePairs
  <2>. QED
    BY <1>2, <2>1
<1>13. \A j \in 1..n : IF j < s THEN Before(keys[j], m) ELSE Before(m, keys[j])
  BY <1>2, <1>3, <1>6 DEF Side
<1>14. ASSUME NEW a \in 1..n + 1, NEW p \in Content[kids[a]]
       PROVE  (a < s => Before(p, m)) /\ (a > s => Before(m, p))
  <2>1. CASE a < s
    <3>1. a \in 1..n
      BY <2>1
    <3>2. Before(p, keys[a]) /\ Before(keys[a], m)
      BY <1>2, <1>13, <2>1, <3>1 DEF Side
    <3>3. p \in Pair /\ keys[a] \in Pair /\ m \in Pair
      BY <1>2, <1>6, <1>12, <3>1
    <3>. QED
      BY <2>1, <3>2, <3>3, PairOrder
  <2>2. CASE a > s
    <3>1. s \in 1..n
      BY <2>2
    <3>2. Before(keys[s], p) /\ Before(m, keys[s])
      BY <1>2, <1>13, <2>2, <3>1 DEF Side
    <3>3. p \in Pair /\ keys[s] \in Pair /\ m \in Pair
      BY <1>2, <1>6, <1>12, <3>1
    <3>. QED
      BY <2>2, <3>2, <3>3, PairOrder
  <2>. QED
    BY <2>1, <2>2
<1>15. \A i, j \in 1..n + 1 : i < j => Before(keys2[i], keys2[j])
  <2> SUFFICES ASSUME NEW i \in 1..n + 1, NEW j \in 1..n + 1, i < j
               PROVE  Before(keys2[i], keys2[j])
    OBVIOUS
  <2>1. CASE j < s
    <3>1. i \in 1..n /\ j \in 1..n /\ i < s
      BY <2>1
    <3>. QED
      BY <1>2, <1>8, <2>1, <3>1
  <2>2. CASE j = s
    <3>1. i \in 1..n /\ i < s
      BY <2>2
    <3>. QED
      BY <1>8, <1>13, <2>2, <3>1
  <2>3. CASE j > s /\ i < s
    <3>1. i \in 1..n /\ j - 1 \in 1..n /\ i < j - 1 /\ ~(j < s) /\ j # s
      BY <2>3
    <3>. QED
      BY <1>2, <1>8, <2>3, <3>1
  <2>4. CASE j > s /\ i = s
    <3>1. j - 1 \in 1..n /\ ~(j < s) /\ j # s /\ ~(j - 1 < s) /\ ~(i < s)
      BY <2>4
    <3>. QED
      BY <1>8, <1>13, <2>4, <3>1
  <2>5. CASE j > s /\ i > s
    <3>1. /\ i - 1 \in 1..n /\ j - 1 \in 1..n /\ i - 1 < j - 1
          /\ ~(i < s) /\ i # s /\ ~(j < s) /\ j # s
      BY <2>5
    <3>. QED
      BY <1>2, <1>8, <2>5, <3>1
  <2>6. j < s \/ j = s \/ (j > s /\ (i < s \/ i = s \/ i > s))
    OBVIOUS
  <2>. QED
    BY <2>1, <2>2, <2>3, <2>4, <2>5, <2>6
<1>16. ASSUME NEW a \in 1..n + 2
       PROVE  /\ a < s => a \in 1..n + 1 /\ kids2[a] = kids[a]
              /\ a = s => kids2[a] = l
              /\ a = s + 1 => kids2[a] = r
              /\ a > s + 1 => a - 1 \in 1..n + 1 /\ kids2[a] = kids[a - 1]
  <2>1. a \in 1..(n + 1) + 1
    OBVIOUS
  <2>2. CASE a < s
    <3>1. a < s + 1 /\ a \in 1..n + 1 /\ a # s /\ ~(a > s + 1) /\ a # s + 1
      BY <2>2
    <3>. QED
      BY <1>7, <1>10, <2>1, <2>2, <3>1
  <2>3. CASE a = s
    <3>1. a < s + 1 /\ a \in 1..n + 1 /\ ~(a > s + 1) /\ a # s + 1 /\ ~(a < s)
      BY <2>3
    <3>. QED
      BY <1>7, <1>10, <2>1, <2>3, <3>1
  <2>4. CASE a = s + 1
    <3>1. ~(a < s + 1) /\ a # s /\ ~(a > s + 1) /\ ~(a < s)
      BY <2>4
    <3>. QED
      BY <1>10, <2>1, <2>4, <3>1
  <2>5. CASE a > s + 1
    <3>1. ~(a < s + 1) /\ a # s /\ ~(a < s) /\ a - 1 \in 1..n + 1 /\ a - 1 # s /\ a # s + 1
      BY <2>5
    <3>. QED
      BY <1>7, <1>10, <2>1, <2>5, <3>1
  <2>6. a < s \/ a = s \/ a = s + 1 \/ a > s + 1
    OBVIOUS
  <2>. QED
    BY <2>2, <2>3, <2>4, <2>5, <2>6
<1>17. \A a \in 1..n + 2, j \in 1..n + 1 : \A p \in Content[kids2[a]] : Side(j, a, keys2[j], p)
  <2> SUFFICES ASSUME NEW a \in 1..n + 2, NEW j \in 1..n + 1, NEW p \in Content[kids2[a]]
               PROVE  Side(j, a, keys2[j], p)
    OBVIOUS
  <2>1. PICK o \in 1..n + 1 : o = IF a <= s THEN a ELSE a - 1
    <3>1. a <= s => a \in 1..n + 1
      OBVIOUS
    <3>2. ~(a <= s) => a - 1 \in 1..n + 1
      OBVIOUS
    <3>. QED
      BY <3>1, <3>2
  <2>2. p \in Content[kids[o]]
    <3>1. CASE a < s
      BY <1>16, <2>1, <3>1
    <3>2. CASE a = s
      BY <1>3, <1>6, <1>16, <2>1, <3>2
    <3>3. CASE a = s + 1
      <4>1. o = s
        BY <2>1, <3>3
      <4>. QED
        BY <1>3, <1>6, <1>16, <3>3, <4>1
    <3>4. CASE a > s + 1
      <4>1. o = a - 1
        BY <2>1, <3>4
      <4>. QED
        BY <1>16, <3>4, <4>1
    <3>5. a < s \/ a = s \/ a = s + 1 \/ a > s + 1
      OBVIOUS
    <3>. QED
      BY <3>1, <3>2, <3>3, <3>4, <3>5
  <2>3. CASE j < s
    <3>1. j \in 1..n /\ (j < a <=> j < o)
      BY <2>1, <2>3
    <3>2. Side(j, o, keys[j], p) /\ keys2[j] = keys[j]
      BY <1>2, <1>8, <2>2, <2>3, <3>1
    <3>. QED
      BY <3>1, <3>2 DEF Side
  <2>4. CASE j = s /\ a <= s
    <3>1. Before(p, m)
      <4>1. CASE a < s
        <5>1. o < s
          BY <2>1, <4>1
        <5>. QED
          BY <1>14, <2>2, <5>1
      <4>2. CASE a = s
        BY <1>6, <1>16, <4>2
      <4>3. a < s \/ a = s
        BY <2>4
      <4>. QED
        BY <4>1, <4>2, <4>3
    <3>2. keys2[j] = m /\ ~(j < a)
      BY <1>8, <2>4
    <3>. QED
      BY <3>1, <3>2 DEF Side
  <2>5. CASE j = s /\ a > s
    <3>1. Before(m, p)
      <4>1. CASE a = s + 1
        BY <1>6, <1>16, <4>1
      <4>2. CASE a > s + 1
        <5>1. o > s
          BY <2>1, <4>2
        <5>. QED
          BY <1>14, <2>2, <5>1
      <4>3. a = s + 1 \/ a > s + 1
        BY <2>5
      <4>. QED
        BY <4>1, <4>2, <4>3
    <3>2. keys2[j] = m /\ j < a
      BY <1>8, <2>5
    <3>. QED
      BY <3>1, <3>2 DEF Side
  <2>6. CASE j > s
    <3>1. j - 1 \in 1..n /\ (j < a <=> j - 1 < o) /\ ~(j < s) /\ j # s
      BY <2>1, <2>6
    <3>2. Side(j - 1, o, keys[j - 1], p) /\ keys2[j] = keys[j - 1]
      BY <1>2, <1>8, <2>2, <2>6, <3>1
    <3>. QED
      BY <3>1, <3>2 DEF Side
  <2>7. j < s \/ (j = s /\ (a <= s \/ a > s)) \/ j > s
    OBVIOUS
  <2>. QED
    BY <2>3, <2>4, <2>5, <2>6, <2>7
<1>18. \A a \in 1..n + 2 : Len(kids2[a].keys) >= 1
  <2> SUFFICES ASSUME NEW a \in 1..n + 2 PROVE Len(kids2[a].keys) >= 1
    OBVIOUS
  <2>1. a < s \/ a = s \/ a = s + 1 \/ a > s + 1
    OBVIOUS
  <2>2. \A i \in 1..n + 1 : Len(kids[i].keys) >= 1
    BY <1>2
  <2>3. CASE a < s
    BY <1>16, <2>2, <2>3
  <2>7. 1 >= 1
    OBVIOUS
  <2>8. Len(l.keys) >= 1 /\ Len(r.keys) >= 1
    BY <1>6, <2>7
  <2>4. CASE a = s
    <3>1. kids2[a] = l
      BY <1>16, <2>4
    <3>. QED
      BY <2>8, <3>1
  <2>5. CASE a = s + 1
    <3>1. kids2[a] = r
      BY <1>16, <2>5
    <3>. QED
      BY <2>8, <3>1
  <2>6. CASE a > s + 1
    BY <1>16, <2>2, <2>6
  <2>. QED
    BY <2>1, <2>3, <2>4, <2>5, <2>6
<1>19. Inner(h, n + 1, keys2, kids2)
  <2>1. (n + 1) + 1 = n + 2
    OBVIOUS
  <2>. QED
    BY <1>10, <1>15, <1>17, <1>18, <2>1 DEF Inner, Row
<1>20. ASSUME NEW p, Holds(n, keys, kids, p) PROVE Holds(n + 1, keys2, kids2, p)
  <2>1. s \in 1..n + 1 /\ s \in 1..n + 2 /\ s + 1 \in 1..n + 2 /\ (n + 1) + 1 = n + 2
    OBVIOUS
  <2>2. ASSUME NEW i \in 1..n, p = keys[i] PROVE \E j \in 1..n + 1 : p = keys2[j]
    <3>1. CASE i < s
      <4>1. i \in 1..n + 1
        OBVIOUS
      <4>. QED
        BY <1>8, <2>2, <3>1, <4>1
    <3>2. CASE i >= s
      <4>1. i + 1 \in 1..n + 1 /\ ~(i + 1 < s) /\ i + 1 # s /\ (i + 1) - 1 = i
        BY <3>2
      <4>. QED
        BY <1>8, <2>2, <4>1
    <3>3. i < s \/ i >= s
      OBVIOUS
    <3>. QED
      BY <3>1, <3>2, <3>3
  <2>3. ASSUME NEW i \in 1..n + 1, p \in Content[kids[i]]
        PROVE  p = keys2[s] \/ \E j \in 1..n + 2 : p \in Content[kids2[j]]
    <3>1. CASE i < s
      <4>1. i \in 1..n + 2
        OBVIOUS
      <4>. QED
        BY <1>16, <2>3, <3>1, <4>1
    <3>2. CASE i = s
      <4>1. kids2[s] = l /\ kids2[s + 1] = r /\ keys2[s] = m
        BY <1>8, <1>16, <2>1
      <4>. QED
        BY <1>3, <1>6, <2>1, <2>3, <3>2, <4>1
    <3>3. CASE i > s
      <4>1. i + 1 \in 1..n + 2 /\ i + 1 > s + 1 /\ (i + 1) - 1 = i
        BY <3>3
      <4>. QED
        BY <1>16, <2>3, <4>1
    <3>4. i < s \/ i = s \/ i > s
      OBVIOUS
    <3>. QED
      BY <3>1, <3>2, <3>3, <3>4
  <2>. QED
    BY <1>20, <2>1, <2>2, <2>3 DEF Holds
<1>21. ASSUME NEW p, Holds(n + 1, keys2, kids2, p) PROVE Holds(n, keys, kids, p)
  <2>1. s \in 1..n + 1 /\ (n + 1) + 1 = n + 2
    OBVIOUS
  <2>2. ASSUME NEW j \in 1..n + 1, p = keys2[j]
        PROVE  (\E i \in 1..n : p = keys[i]) \/ p \in Content[kids[s]]
    <3>1. CASE j < s
      <4>1. j \in 1..n
        BY <3>1
      <4>. QED
        BY <1>8, <2>2, <3>1, <4>1
    <3>2. CASE j = s
      BY <1>3, <1>6, <1>8, <2>2, <3>2
    <3>3. CASE j > s
      <4>1. j - 1 \in 1..n /\ ~(j < s) /\ j # s
        BY <3>3
      <4>. QED
        BY <1>8, <2>2, <4>1
    <3>4. j < s \/ j = s \/ j > s
      OBVIOUS
    <3>. QED
      BY <3>1, <3>2, <3>3, <3>4
  <2>3. ASSUME NEW a \in 1..n + 2, p \in Content[kids2[a]]
        PROVE  \E i \in 1..n + 1 : p \in Content[kids[i]]
    <3>1. CASE a = s \/ a = s + 1
      BY <1>3, <1>6, <1>16, <2>1, <2>3, <3>1
    <3>2. CASE a < s \/ a > s + 1
      BY <1>16, <2>3, <3>2
    <3>3. a < s \/ a = s \/ a = s + 1 \/ a > s + 1
      OBVIOUS
    <3>. QED
      BY <3>1, <3>2, <3>3
  <2>. QED
    BY <1>21, <2>1, <2>2, <2>3 DEF Holds
<1>22. Len(kids2[s].keys) = 1 /\ Len(kids2[s + 1].keys) = 1
  <2>1. s \in 1..n + 2 /\ s + 1 \in 1..n + 2
    OBVIOUS
  <2>. QED
    BY <1>6, <1>16, <2>1
<1>23. SplitAt(h, n, s, keys, kids, keys2, kids2)
  BY <1>3, <1>4, <1>8, <1>19, <1>20, <1>21, <1>22 DEF SplitAt
<1>. QED
  BY <1>11, <1>23

-----------------------------------------------------------------------------
(* insert_nonfull calls itself on a tree of a lower level.                 *)
LEMMA AsSeq ==
  ASSUME NEW n \in Nat, NEW S, NEW q \in [1..n -> S]
  PROVE  q \in Seq(S) /\ Len(q) = n
OBVIOUS

LEMMA HalvesLevel ==
  ASSUME NEW g \in 0..Top, NEW y \in Level[g], Len(y.keys) = 3
  PROVE  LeftHalf(y) \in Level[g] /\ RightHalf(y) \in Level[g]
<1>1. /\ y.leaf \in BOOLEAN /\ y.keys \in Seq(Pair) /\ y.kids \in Seq(Below(g))
      /\ y.leaf => y.kids = <<>>
      /\ ~y.leaf => Len(y.kids) = Len(y.keys) + 1
      /\ g = 0 => y.leaf
  BY NodeFields
<1>2. y.keys \in [1..3 -> Pair]
  <2>1. y.keys \in [1..Len(y.keys) -> Pair]
    BY <1>1, LenProperties
  <2>. QED
    BY <2>1
<1>3. PICK a \in Seq(Pair) : a = SubSeq(y.keys, 1, 1) /\ Len(a) = 1
  <2>1. SubSeq(y.keys, 1, 1) \in [1..1 -> Pair]
    BY <1>2, HalfParts
  <2>2. PICK q \in [1..1 -> Pair] : q = SubSeq(y.keys, 1, 1)
    BY <2>1
  <2>3. q \in Seq(Pair) /\ Len(q) = 1
    BY AsSeq
  <2>. QED
    BY <2>2, <2>3
<1>4. PICK b \in Seq(Pair) : b = SubSeq(y.keys, 3, 3) /\ Len(b) = 1
  <2>1. SubSeq(y.keys, 3, 3) \in [1..1 -> Pair]
    BY <1>2, HalfParts
  <2>2. PICK q \in [1..1 -> Pair] : q = SubSeq(y.keys, 3, 3)
    BY <2>1
  <2>3. q \in Seq(Pair) /\ Len(q) = 1
    BY AsSeq
  <2>. QED
    BY <2>2, <2>3
<1>5. CASE y.leaf
  <2>1. y.leaf = TRUE
    BY <1>1, <1>5
  <2>2. LeftHalf(y) = BNode(TRUE, a, <<>>) /\ RightHalf(y) = BNode(TRUE, b, <<>>)
    BY <1>3, <1>4, <2>1 DEF LeftHalf, RightHalf
  <2>3. BNode(TRUE, a, <<>>) \in Level[g] /\ BNode(TRUE, b, <<>>) \in Level[g]
    BY LeafIn
  <2>. QED
    BY <2>2, <2>3
<1>6. CASE ~y.leaf
  <2>1. y.leaf = FALSE /\ g # 0
    BY <1>1, <1>6
  <2>2. g \in 1..Top /\ Below(g) = Level[g - 1]
    BY <2>1, TopIs DEF Below
  <2>3. Len(y.kids) = 4
    <3>1. Len(y.kids) = 3 + 1
      BY <1>1, <1>6
    <3>. QED
      BY <3>1
  <2>4. y.kids \in [1..4 -> Level[g - 1]]
    <3>1. y.kids \in Seq(Level[g - 1])
      BY <1>1, <2>2
    <3>2. y.kids \in [1..Len(y.kids) -> Level[g - 1]]
      BY <3>1, LenProperties
    <3>. QED
      BY <2>3, <3>2
  <2>5. PICK c \in Seq(Level[g - 1]) : c = SubSeq(y.kids, 1, 2) /\ Len(c) = 2
    <3>1. SubSeq(y.kids, 1, 2) \in [1..2 -> Level[g - 1]]
      BY <2>4, HalfParts
    <3>2. PICK q \in [1..2 -> Level[g - 1]] : q = SubSeq(y.kids, 1, 2)
      BY <3>1
    <3>3. q \in Seq(Level[g - 1]) /\ Len(q) = 2
      BY AsSeq
    <3>. QED
      BY <3>2, <3>3
  <2>6. PICK d \in Seq(Level[g - 1]) : d = SubSeq(y.kids, 3, 4) /\ Len(d) = 2
    <3>1. SubSeq(y.kids, 3, 4) \in [1..2 -> Level[g - 1]]
      BY <2>4, HalfParts
    <3>2. PICK q \in [1..2 -> Level[g - 1]] : q = SubSeq(y.kids, 3, 4)
      BY <3>1
    <3>3. q \in Seq(Level[g - 1]) /\ Len(q) = 2
      BY AsSeq
    <3>. QED
      BY <3>2, <3>3
  <2>7. LeftHalf(y) = BNode(FALSE, a, c) /\ RightHalf(y) = BNode(FALSE, b, d)
    BY <1>3, <1>4, <2>1, <2>3, <2>5, <2>6 DEF LeftHalf, RightHalf
  <2>8. Len(c) = Len(a) + 1 /\ Len(d) = Len(b) + 1
    <3>1. 2 = 1 + 1
      OBVIOUS
    <3>. QED
      BY <1>3, <1>4, <2>5, <2>6, <3>1
  <2>9. BNode(FALSE, a, c) \in Level[g] /\ BNode(FALSE, b, d) \in Level[g]
    BY <2>2, <2>8, InnerIn
  <2>. QED
    BY <2>7, <2>9
<1>. QED
  BY <1>5, <1>6

PutBody(node, pair, put) ==
  LET key == pair[1]
      i == SlotFromRight(node, key)
      full == Len(node.kids[i + 1].keys) = 3
      down == IF full THEN split_child(node, i + 1) ELSE node
      j == IF full /\ LexLess(down.keys[i + 1][1], key) THEN i + 2 ELSE i + 1
  IN  IF node.leaf THEN IntoLeaf(node, pair)
      ELSE IF i > 0 /\ node.keys[i][1] = key THEN SetSlot(node, i, pair)
      ELSE IF full /\ down.keys[i + 1][1] = key THEN SetSlot(down, i + 1, pair)
      ELSE SetKid(down, j, put[down.kids[j]])

(* The kid it goes down to, when it does.                                  *)
Called(node, pair) ==
  LET key == pair[1]
      i == SlotFromRight(node, key)
      full == Len(node.kids[i + 1].keys) = 3
      down == IF full THEN split_child(node, i + 1) ELSE node
      j == IF full /\ LexLess(down.keys[i + 1][1], key) THEN i + 2 ELSE i + 1
  IN  down.kids[j]

LEMMA CalledBelow ==
  ASSUME NEW h \in 0..Top, NEW node \in Level[h], ~node.leaf, NEW pair
  PROVE  h > 0 /\ Called(node, pair) \in Level[h - 1]
<1>1. /\ node.leaf \in BOOLEAN /\ node.keys \in Seq(Pair) /\ node.kids \in Seq(Below(h))
      /\ Len(node.kids) = Len(node.keys) + 1
      /\ h # 0
  BY NodeFields
<1>2. h > 0 /\ h - 1 \in 0..Top /\ Below(h) = Level[h - 1]
  BY <1>1, TopIs DEF Below
<1>3. PICK n \in Nat : n = Len(node.keys)
  BY <1>1
<1>4. DOMAIN node.keys = 1..n /\ node.keys \in [1..n -> Pair]
  BY <1>1, <1>3
<1>5. node.kids \in [1..n + 1 -> Level[h - 1]]
  <2>1. node.kids \in [1..Len(node.kids) -> Level[h - 1]]
    BY <1>1, <1>2, LenProperties
  <2>. QED
    BY <1>1, <1>3, <2>1
<1>6. PICK key : key = pair[1]
  OBVIOUS
<1>7. PICK i \in 0..n : i = SlotFromRight(node, key)
  BY <1>3, <1>4, SlotRight
<1>8. i + 1 \in 1..n + 1 /\ i + 2 \in 1..n + 2 /\ i + 2 = (i + 1) + 1
  OBVIOUS
<1>9. PICK y \in Level[h - 1] : y = node.kids[i + 1]
  BY <1>5, <1>8
<1>10. CASE Len(y.keys) # 3
  BY <1>2, <1>6, <1>7, <1>9, <1>10 DEF Called
<1>11. CASE Len(y.keys) = 3
  <2>1. PICK l \in Level[h - 1] : l = LeftHalf(y)
    BY <1>2, <1>11, HalvesLevel
  <2>2. PICK r \in Level[h - 1] : r = RightHalf(y)
    BY <1>2, <1>11, HalvesLevel
  <2>3. PICK kids1 : kids1 = ReplaceAt(node.kids, i + 1, l)
    OBVIOUS
  <2>4. kids1 \in [1..n + 1 -> Level[h - 1]] /\ kids1[i + 1] = l
    <3>1. IsReplaced(n + 1, Level[h - 1], node.kids, i + 1, l, ReplaceAt(node.kids, i + 1, l))
      BY <1>5, <1>8, Replaced
    <3>. QED
      BY <1>8, <2>3, <3>1 DEF IsReplaced
  <2>5. PICK kids2 : kids2 = InsertAt(kids1, i + 2, r)
    OBVIOUS
  <2>6. kids2[i + 1] = l /\ kids2[i + 2] = r
    <3>1. n + 1 \in Nat /\ i + 2 \in 1..(n + 1) + 1
      OBVIOUS
    <3>2. IsInserted(n + 1, Level[h - 1], kids1, i + 2, r, kids2)
      BY <2>4, <2>5, <3>1, Inserted
    <3>3. i + 1 \in 1..(n + 1) + 1 /\ i + 1 < i + 2 /\ ~(i + 2 < i + 2)
      OBVIOUS
    <3>. QED
      BY <2>4, <3>1, <3>2, <3>3 DEF IsInserted
  <2>7. split_child(node, i + 1).kids = kids2
    <3>1. split_child(node, i + 1).kids = InsertAt(ReplaceAt(node.kids, i + 1, l), (i + 1) + 1, r)
      BY <1>9, <2>1, <2>2 DEF split_child, LeftHalf, RightHalf, BNode
    <3>. QED
      BY <1>8, <2>3, <2>5, <3>1
  <2>8. Called(node, pair) \in {kids2[i + 1], kids2[i + 2]}
    BY <1>6, <1>7, <1>9, <1>11, <2>7 DEF Called
  <2>. QED
    BY <1>2, <2>6, <2>8
<1>. QED
  BY <1>10, <1>11

LEMMA PutExists ==
  ASSUME NEW pair
  PROVE  \E put : put = [x \in Trees |-> PutBody(x, pair, put)]
<1>1. Top \in Nat /\ Top >= 0
  BY TopIs
<1>2. ASSUME NEW x \in Trees, NEW f, NEW g, ~x.leaf => f[Called(x, pair)] = g[Called(x, pair)]
      PROVE  PutBody(x, pair, f) = PutBody(x, pair, g)
  BY <1>2 DEF PutBody, Called
<1> DEFINE Solves(f, h) == f = [x \in Trees |-> f[x]] /\ \A x \in Level[h] : f[x] = PutBody(x, pair, f)
           P == {n \in Nat : n <= Top => \E f : Solves(f, n)}
<1>3. \A h \in 0..Top : Level[h] \subseteq Trees
  BY LevelTrees
<1>4. 0 \in P
  <2> DEFINE f == [x \in Trees |-> PutBody(x, pair, <<>>)]
  <2>1. ASSUME NEW x \in Level[0] PROVE f[x] = PutBody(x, pair, f)
    <3>1. 0 \in 0..Top /\ x \in Trees
      BY <1>1, <1>3
    <3>2. x.leaf
      BY <3>1, NodeFields
    <3>. QED
      BY <1>2, <3>1, <3>2
  <2>2. f = [x \in Trees |-> f[x]]
    OBVIOUS
  <2>. HIDE DEF f
  <2>. QED
    BY <2>1, <2>2
<1>5. ASSUME NEW n \in Nat, n \in P PROVE n + 1 \in P
  <2> SUFFICES ASSUME n + 1 <= Top PROVE \E f : Solves(f, n + 1)
    OBVIOUS
  <2>1. n + 1 \in 0..Top /\ n \in 0..Top /\ n <= Top /\ (n + 1) - 1 = n
    BY <1>1
  <2>2. PICK f : Solves(f, n)
    BY <1>5, <2>1
  <2> DEFINE g == [x \in Trees |-> PutBody(x, pair, f)]
  <2>3. ASSUME NEW x \in Level[n + 1] PROVE g[x] = PutBody(x, pair, g)
    <3>1. x \in Trees
      BY <1>3, <2>1
    <3>2. CASE ~x.leaf
      <4>1. Called(x, pair) \in Level[n] /\ Called(x, pair) \in Trees
        BY <1>3, <2>1, <3>2, CalledBelow
      <4>2. f[Called(x, pair)] = g[Called(x, pair)]
        BY <2>2, <4>1
      <4>. QED
        BY <1>2, <3>1, <4>2
    <3>3. CASE x.leaf
      BY <1>2, <3>1, <3>3
    <3>. QED
      BY <3>2, <3>3
  <2>4. g = [x \in Trees |-> g[x]]
    OBVIOUS
  <2>. HIDE DEF g
  <2>. QED
    BY <2>3, <2>4
<1>. HIDE DEF P
<1>6. Top \in P
  BY <1>1, <1>4, <1>5, Induction
<1>7. PICK f : Solves(f, Top)
  BY <1>1, <1>6 DEF P
<1>8. Trees = Level[Top]
  BY LevelTrees
<1>9. \A x \in Trees : f[x] = PutBody(x, pair, f)
  BY <1>7, <1>8
<1>10. f = [x \in Trees |-> PutBody(x, pair, f)]
  BY <1>7, <1>9
<1>. QED
  BY <1>10

LEMMA PutIs ==
  ASSUME NEW pair
  PROVE  \E put : /\ \A x \in Trees : put[x] = PutBody(x, pair, put)
                  /\ \A root : insert_nonfull(root, pair) = put[root]
<1> DEFINE Fits(f) == f = [x \in Trees |-> PutBody(x, pair, f)]
           chosen == CHOOSE f : Fits(f)
<1>1. Fits(chosen)
  BY PutExists
<1>2. \A root : insert_nonfull(root, pair) = chosen[root]
  BY DEF insert_nonfull, PutBody
<1>. HIDE DEF chosen
<1>3. \A x \in Trees : chosen[x] = PutBody(x, pair, chosen)
  BY <1>1
<1>. QED
  BY <1>2, <1>3

-----------------------------------------------------------------------------
(* Putting a pair: what is held loses the pair of its key and gains it.    *)
Took(c, d, pair) == \A p : p \in d <=> (p \in c /\ p[1] # pair[1]) \/ p = pair

LEMMA SameKeyBefore ==
  \A p, q, r : p[1] = q[1] =>
    (Before(p, r) <=> Before(q, r)) /\ (Before(r, p) <=> Before(r, q))
BY DEF Before

SlotTaken(n, keys, keys2, pair) ==
  /\ Row(n, keys2)
  /\ \A p : (\E j \in 1..n : p = keys2[j])
              <=> (\E j \in 1..n : p = keys[j] /\ p[1] # pair[1]) \/ p = pair

LEMMA SlotRow ==
  ASSUME NEW n \in Nat, NEW keys, Row(n, keys), NEW pair \in Pair, NEW i \in 1..n,
         keys[i][1] = pair[1], NEW keys2, IsReplaced(n, Pair, keys, i, pair, keys2)
  PROVE  SlotTaken(n, keys, keys2, pair)
<1>1. keys \in [1..n -> Pair] /\ \A a, b \in 1..n : a < b => Before(keys[a], keys[b])
  BY DEF Row
<1>2. keys2 \in [1..n -> Pair] /\ \A j \in 1..n : keys2[j] = IF j = i THEN pair ELSE keys[j]
  BY DEF IsReplaced
<1>3. \A j \in 1..n : keys2[j][1] = keys[j][1]
  BY <1>2
<1>4. \A j \in 1..n : j # i => keys[j][1] # pair[1]
  <2> SUFFICES ASSUME NEW j \in 1..n, j # i, keys[j][1] = keys[i][1] PROVE FALSE
    OBVIOUS
  <2>1. j < i \/ i < j
    OBVIOUS
  <2>2. Before(keys[j], keys[i]) \/ Before(keys[i], keys[j])
    BY <1>1, <2>1
  <2>. QED
    BY <1>1, <2>2, PairOrder
<1>5. Row(n, keys2)
  BY <1>1, <1>2, <1>3 DEF Row, Before
<1>6. \A p : (\E j \in 1..n : p = keys2[j])
              <=> (\E j \in 1..n : p = keys[j] /\ p[1] # pair[1]) \/ p = pair
  BY <1>2, <1>4
<1>. QED
  BY <1>5, <1>6 DEF SlotTaken

RowInserted(n, keys, keys2, pair) ==
  /\ Row(n + 1, keys2)
  /\ \A p : (\E j \in 1..n + 1 : p = keys2[j]) <=> (\E j \in 1..n : p = keys[j]) \/ p = pair

LEMMA InsertRow ==
  ASSUME NEW n \in Nat, NEW keys, Row(n, keys), NEW pair \in Pair, NEW s \in 1..n + 1,
         \A j \in 1..n : IF j < s THEN Before(keys[j], pair) ELSE Before(pair, keys[j]),
         NEW keys2, IsInserted(n, Pair, keys, s, pair, keys2)
  PROVE  RowInserted(n, keys, keys2, pair)
<1>1. keys \in [1..n -> Pair] /\ \A a, b \in 1..n : a < b => Before(keys[a], keys[b])
  BY DEF Row
<1>2. /\ keys2 \in [1..n + 1 -> Pair]
      /\ \A j \in 1..n + 1 : keys2[j] = IF j < s THEN keys[j] ELSE IF j = s THEN pair ELSE keys[j - 1]
  BY DEF IsInserted
<1>3. ASSUME NEW a \in 1..n + 1, NEW b \in 1..n + 1, a < b PROVE Before(keys2[a], keys2[b])
  <2>1. CASE b < s
    <3>1. a \in 1..n /\ b \in 1..n /\ a < s
      BY <1>3, <2>1
    <3>. QED
      BY <1>1, <1>2, <1>3, <2>1, <3>1
  <2>2. CASE b = s
    <3>1. a \in 1..n /\ a < s
      BY <1>3, <2>2
    <3>. QED
      BY <1>2, <2>2, <3>1
  <2>3. CASE b > s /\ a < s
    <3>1. a \in 1..n /\ b - 1 \in 1..n /\ a < b - 1
      BY <2>3
    <3>. QED
      BY <1>1, <1>2, <2>3, <3>1
  <2>4. CASE b > s /\ a = s
    <3>1. b - 1 \in 1..n /\ ~(b - 1 < s)
      BY <2>4
    <3>. QED
      BY <1>2, <2>4, <3>1
  <2>5. CASE b > s /\ a > s
    <3>1. a - 1 \in 1..n /\ b - 1 \in 1..n /\ a - 1 < b - 1
      BY <1>3, <2>5
    <3>. QED
      BY <1>1, <1>2, <2>5, <3>1
  <2>6. b < s \/ b = s \/ (b > s /\ (a < s \/ a = s \/ a > s))
    OBVIOUS
  <2>. QED
    BY <2>1, <2>2, <2>3, <2>4, <2>5, <2>6
<1>4. ASSUME NEW p
      PROVE  (\E j \in 1..n + 1 : p = keys2[j]) <=> (\E j \in 1..n : p = keys[j]) \/ p = pair
  <2>1. ASSUME NEW j \in 1..n + 1, p = keys2[j] PROVE (\E k \in 1..n : p = keys[k]) \/ p = pair
    <3>1. CASE j < s
      <4>1. j \in 1..n
        BY <3>1
      <4>. QED
        BY <1>2, <2>1, <3>1, <4>1
    <3>2. CASE j = s
      BY <1>2, <2>1, <3>2
    <3>3. CASE j > s
      <4>1. j - 1 \in 1..n
        BY <3>3
      <4>. QED
        BY <1>2, <2>1, <3>3, <4>1
    <3>4. j < s \/ j = s \/ j > s
      OBVIOUS
    <3>. QED
      BY <3>1, <3>2, <3>3, <3>4
  <2>2. ASSUME NEW j \in 1..n, p = keys[j] PROVE \E k \in 1..n + 1 : p = keys2[k]
    <3>1. CASE j < s
      <4>1. j \in 1..n + 1
        OBVIOUS
      <4>. QED
        BY <1>2, <2>2, <3>1, <4>1
    <3>2. CASE ~(j < s)
      <4>1. j + 1 \in 1..n + 1 /\ ~(j + 1 < s) /\ j + 1 # s /\ (j + 1) - 1 = j
        BY <3>2
      <4>. QED
        BY <1>2, <2>2, <4>1
    <3>. QED
      BY <3>1, <3>2
  <2>3. p = pair => \E k \in 1..n + 1 : p = keys2[k]
    BY <1>2
  <2>. QED
    BY <2>1, <2>2, <2>3
<1>. QED
  BY <1>2, <1>3, <1>4 DEF Row, RowInserted

(* The tree that comes back when a pair goes into one of height h.         *)
Came(h, node, t, pair) ==
  t \in Good[h] /\ Len(t.keys) >= 1 /\ Took(Content[node], Content[t], pair)

LEMMA LeafTakes ==
  ASSUME NEW m \in 0..2, NEW node \in Good[0], Len(node.keys) = m, NEW pair \in Pair
  PROVE  Came(0, node, IntoLeaf(node, pair), pair)
<1>1. m \in Nat /\ m + 1 \in Nat /\ m + 1 \in 0..3 /\ m \in 0..3 /\ m + 1 >= 1
  OBVIOUS
<1>2. Row(m, node.keys) /\ node = BNode(TRUE, node.keys, <<>>)
  BY GoodLeaf
<1>3. PICK keys \in [1..m -> Pair] : keys = node.keys
  BY <1>2 DEF Row
<1>4. node.leaf = TRUE /\ node.kids = <<>> /\ DOMAIN node.keys = 1..m
  BY <1>2, <1>3 DEF BNode
<1>5. \A a, b \in 1..m : a < b => Before(keys[a], keys[b])
  BY <1>2, <1>3 DEF Row
<1>6. \A p : p \in Content[node] <=> \E i \in 1..m : p = keys[i]
  BY <1>1, <1>3, HeldInLeaf
<1> DEFINE same == {i \in 1..m : keys[i][1] = pair[1]}
<1>7. CASE same # {}
  <2>1. same \in SUBSET Nat
    OBVIOUS
  <2>. HIDE DEF same
  <2>2. PICK x \in same : \A y \in same : ~(y < x)
    BY <1>7, <2>1, LeastElement
  <2>3. \A y \in same : x <= y
    BY <2>1, <2>2
  <2>4. Min(same) \in same
    BY <2>2, <2>3 DEF Min
  <2>5. PICK i \in 1..m : i = Min(same) /\ keys[i][1] = pair[1]
    BY <2>4 DEF same
  <2>6. IntoLeaf(node, pair) = BNode(TRUE, ReplaceAt(keys, i, pair), <<>>)
    BY <1>3, <1>4, <1>7, <2>5 DEF IntoLeaf, SetSlot, same
  <2>7. PICK keys2 : keys2 = ReplaceAt(keys, i, pair)
    OBVIOUS
  <2>8. IsReplaced(m, Pair, keys, i, pair, keys2)
    BY <2>7, Replaced
  <2>9. SlotTaken(m, keys, keys2, pair)
    BY <1>1, <1>2, <1>3, <2>5, <2>8, SlotRow
  <2>10. /\ Row(m, keys2)
         /\ \A p : (\E j \in 1..m : p = keys2[j])
                     <=> (\E j \in 1..m : p = keys[j] /\ p[1] # pair[1]) \/ p = pair
    BY <2>9 DEF SlotTaken
  <2>11. Len(keys2) = m /\ m >= 1
    BY <1>1, <2>10, RowIncreasing
  <2>12. PICK t : t = BNode(TRUE, keys2, <<>>)
    OBVIOUS
  <2>13. t.keys = keys2 /\ t = BNode(TRUE, t.keys, <<>>)
    BY <2>12 DEF BNode
  <2>14. t \in Good[0]
    BY <1>1, <2>10, <2>11, <2>13, GoodLeaf
  <2>15. ASSUME NEW p PROVE p \in Content[t] <=> \E j \in 1..m : p = keys2[j]
    <3>1. m \in Nat /\ m = Len(t.keys)
      BY <2>11, <2>13
    <3>2. p \in Content[t] <=> \E j \in 1..m : p = t.keys[j]
      BY <2>14, <3>1, HeldInLeaf
    <3>. QED
      BY <2>13, <3>2
  <2>16. Took(Content[node], Content[t], pair)
    BY <1>6, <2>10, <2>15 DEF Took
  <2>. QED
    BY <2>6, <2>7, <2>11, <2>12, <2>13, <2>14, <2>16 DEF Came
<1>8. CASE same = {}
  <2>1. PICK s : s = SlotFromLeft(node, pair[1])
    OBVIOUS
  <2>2. /\ s \in 1..m + 1 /\ \A j \in 1..s - 1 : LexLess(keys[j][1], pair[1])
        /\ s <= m => ~LexLess(keys[s][1], pair[1])
    BY <1>1, <1>3, <2>1, SlotLeft
  <2>3. \A j \in 1..m : keys[j][1] # pair[1]
    BY <1>8
  <2>4. ASSUME NEW j \in 1..m PROVE IF j < s THEN Before(keys[j], pair) ELSE Before(pair, keys[j])
    <3>1. CASE j < s
      BY <2>2, <3>1 DEF Before
    <3>2. CASE ~(j < s)
      <4>1. s \in 1..m /\ s <= m
        BY <2>2, <3>2
      <4>2. Before(pair, keys[s])
        BY <2>2, <2>3, <4>1, PairOrder DEF Before
      <4>3. s = j \/ s < j
        BY <2>2, <3>2
      <4>4. s < j => Before(keys[s], keys[j])
        BY <1>5, <4>1
      <4>. QED
        BY <3>2, <4>1, <4>2, <4>3, <4>4, PairOrder
    <3>. QED
      BY <3>1, <3>2
  <2>5. IntoLeaf(node, pair) = BNode(TRUE, InsertAt(keys, s, pair), <<>>)
    <3>1. {i \in DOMAIN node.keys : node.keys[i][1] = pair[1]} = {}
      BY <1>3, <1>4, <1>8
    <3>. QED
      BY <1>3, <2>1, <3>1 DEF IntoLeaf
  <2>. HIDE DEF same
  <2>6. PICK keys2 : keys2 = InsertAt(keys, s, pair)
    OBVIOUS
  <2>7. IsInserted(m, Pair, keys, s, pair, keys2)
    BY <1>1, <2>2, <2>6, Inserted
  <2>8. RowInserted(m, keys, keys2, pair)
    BY <1>1, <1>2, <1>3, <2>2, <2>4, <2>7, InsertRow
  <2>9. /\ Row(m + 1, keys2)
        /\ \A p : (\E j \in 1..m + 1 : p = keys2[j]) <=> (\E j \in 1..m : p = keys[j]) \/ p = pair
    BY <2>8 DEF RowInserted
  <2>10. Len(keys2) = m + 1
    BY <1>1, <2>9, RowIncreasing
  <2>11. PICK t : t = BNode(TRUE, keys2, <<>>)
    OBVIOUS
  <2>12. t.keys = keys2 /\ t = BNode(TRUE, t.keys, <<>>)
    BY <2>11 DEF BNode
  <2>13. t \in Good[0]
    BY <1>1, <2>9, <2>10, <2>12, GoodLeaf
  <2>14. ASSUME NEW p PROVE p \in Content[t] <=> \E j \in 1..m + 1 : p = keys2[j]
    <3>1. m + 1 \in Nat /\ m + 1 = Len(t.keys)
      BY <1>1, <2>10, <2>12
    <3>2. p \in Content[t] <=> \E j \in 1..m + 1 : p = t.keys[j]
      BY <2>13, <3>1, HeldInLeaf
    <3>. QED
      BY <2>12, <3>2
  <2>15. ASSUME NEW p
         PROVE  p \in Content[t] <=> (p \in Content[node] /\ p[1] # pair[1]) \/ p = pair
    <3>1. p \in Content[node] => p[1] # pair[1]
      BY <1>6, <2>3
    <3>2. p \in Content[t] <=> p \in Content[node] \/ p = pair
      BY <1>6, <2>9, <2>14
    <3>. QED
      BY <3>1, <3>2
  <2>16. Took(Content[node], Content[t], pair)
    BY <2>15 DEF Took
  <2>. QED
    BY <1>1, <2>5, <2>6, <2>10, <2>11, <2>12, <2>13, <2>16 DEF Came
<1>. QED
  BY <1>7, <1>8

(* What an inner node holds, before and after.                             *)
Taken(h, n, keys, kids, keys2, kids2, pair) ==
  /\ Inner(h, n, keys2, kids2)
  /\ \A p : Holds(n, keys2, kids2, p)
              <=> (Holds(n, keys, kids, p) /\ p[1] # pair[1]) \/ p = pair

LEMMA SlotTakes ==
  ASSUME NEW h \in 1..Top, NEW n \in Nat, NEW keys, NEW kids, Inner(h, n, keys, kids),
         NEW pair \in Pair, NEW i \in 1..n, keys[i][1] = pair[1]
  PROVE  Taken(h, n, keys, kids, ReplaceAt(keys, i, pair), kids, pair)
<1>1. /\ Row(n, keys) /\ kids \in [1..n + 1 -> Good[h - 1]]
      /\ \A a \in 1..n + 1 : Len(kids[a].keys) >= 1
      /\ \A a \in 1..n + 1, j \in 1..n : \A p \in Content[kids[a]] : Side(j, a, keys[j], p)
  BY DEF Inner
<1>2. keys \in [1..n -> Pair]
  BY <1>1 DEF Row
<1>3. PICK keys2 : keys2 = ReplaceAt(keys, i, pair)
  OBVIOUS
<1>4. IsReplaced(n, Pair, keys, i, pair, keys2)
  BY <1>2, <1>3, Replaced
<1>5. SlotTaken(n, keys, keys2, pair)
  BY <1>1, <1>4, SlotRow
<1>6. /\ Row(n, keys2)
      /\ \A p : (\E j \in 1..n : p = keys2[j])
                  <=> (\E j \in 1..n : p = keys[j] /\ p[1] # pair[1]) \/ p = pair
  BY <1>5 DEF SlotTaken
<1>7. \A j \in 1..n : keys2[j][1] = keys[j][1]
  BY <1>4 DEF IsReplaced
<1>8. \A a \in 1..n + 1 : Content[kids[a]] \subseteq Pair
  <2>1. h - 1 \in 0..Top
    BY TopIs
  <2>. QED
    BY <1>1, <2>1, HeldArePairs
<1>9. ASSUME NEW a \in 1..n + 1, NEW p \in Content[kids[a]] PROVE p[1] # pair[1]
  <2>1. p \in Pair /\ keys[i] \in Pair
    BY <1>2, <1>8
  <2>2. Before(keys[i], p) \/ Before(p, keys[i])
    BY <1>1 DEF Side
  <2>. QED
    BY <2>1, <2>2, PairOrder
<1>10. \A a \in 1..n + 1, j \in 1..n : \A p \in Content[kids[a]] : Side(j, a, keys2[j], p)
  BY <1>1, <1>7, SameKeyBefore DEF Side
<1>11. Inner(h, n, keys2, kids)
  BY <1>1, <1>6, <1>10 DEF Inner
<1>12. \A p : Holds(n, keys2, kids, p)
               <=> (Holds(n, keys, kids, p) /\ p[1] # pair[1]) \/ p = pair
  BY <1>6, <1>9 DEF Holds
<1>. QED
  BY <1>3, <1>11, <1>12 DEF Taken

(* No pair elsewhere in a node has the key that belongs into its jth kid.  *)
Clear(n, keys, kids, j, pair) ==
  /\ \A l \in 1..n : keys[l][1] # pair[1]
  /\ \A a \in 1..n + 1 : a # j => \A p \in Content[kids[a]] : p[1] # pair[1]

LEMMA Elsewhere ==
  ASSUME NEW h \in 1..Top, NEW n \in Nat, NEW keys, NEW kids, Inner(h, n, keys, kids),
         NEW pair \in Pair, NEW j \in 1..n + 1, \A l \in 1..n : Side(l, j, keys[l], pair)
  PROVE  Clear(n, keys, kids, j, pair)
<1>1. /\ Row(n, keys) /\ kids \in [1..n + 1 -> Good[h - 1]]
      /\ \A a \in 1..n + 1, l \in 1..n : \A p \in Content[kids[a]] : Side(l, a, keys[l], p)
  BY DEF Inner
<1>2. keys \in [1..n -> Pair]
  BY <1>1 DEF Row
<1>3. \A a \in 1..n + 1 : Content[kids[a]] \subseteq Pair
  <2>1. h - 1 \in 0..Top
    BY TopIs
  <2>. QED
    BY <1>1, <2>1, HeldArePairs
<1>4. ASSUME NEW l \in 1..n PROVE keys[l][1] # pair[1]
  <2>1. keys[l] \in Pair /\ (Before(keys[l], pair) \/ Before(pair, keys[l]))
    BY <1>2 DEF Side
  <2>. QED
    BY <2>1, PairOrder
<1>5. ASSUME NEW a \in 1..n + 1, a # j, NEW p \in Content[kids[a]] PROVE p[1] # pair[1]
  <2>1. p \in Pair
    BY <1>3
  <2>2. CASE a < j
    <3>1. a \in 1..n /\ keys[a] \in Pair /\ ~(a < a)
      BY <1>2, <2>2
    <3>2. Before(p, keys[a]) /\ Before(keys[a], pair)
      BY <1>1, <2>2, <3>1 DEF Side
    <3>3. Before(p, pair)
      BY <2>1, <3>1, <3>2, PairOrder
    <3>. QED
      BY <2>1, <3>3, PairOrder
  <2>3. CASE j < a
    <3>1. j \in 1..n /\ keys[j] \in Pair /\ ~(j < j)
      BY <1>2, <2>3
    <3>2. Before(keys[j], p) /\ Before(pair, keys[j])
      BY <1>1, <2>3, <3>1 DEF Side
    <3>3. Before(pair, p)
      BY <2>1, <3>1, <3>2, PairOrder
    <3>. QED
      BY <2>1, <3>3, PairOrder
  <2>4. a < j \/ j < a
    BY <1>5
  <2>. QED
    BY <2>2, <2>3, <2>4
<1>. QED
  BY <1>4, <1>5 DEF Clear

LEMMA KidTakes ==
  ASSUME NEW h \in 1..Top, NEW n \in Nat, NEW keys, NEW kids, Inner(h, n, keys, kids),
         NEW pair \in Pair, NEW j \in 1..n + 1, \A l \in 1..n : Side(l, j, keys[l], pair),
         NEW t, Came(h - 1, kids[j], t, pair)
  PROVE  Taken(h, n, keys, kids, keys, ReplaceAt(kids, j, t), pair)
<1>1. /\ Row(n, keys) /\ kids \in [1..n + 1 -> Good[h - 1]]
      /\ \A a \in 1..n + 1 : Len(kids[a].keys) >= 1
      /\ \A a \in 1..n + 1, l \in 1..n : \A p \in Content[kids[a]] : Side(l, a, keys[l], p)
  BY DEF Inner
<1>2. keys \in [1..n -> Pair]
  BY <1>1 DEF Row
<1>3. t \in Good[h - 1] /\ Len(t.keys) >= 1 /\ Took(Content[kids[j]], Content[t], pair)
  BY DEF Came
<1>4. PICK kids2 : kids2 = ReplaceAt(kids, j, t)
  OBVIOUS
<1>5. /\ kids2 \in [1..n + 1 -> Good[h - 1]]
      /\ \A a \in 1..n + 1 : kids2[a] = IF a = j THEN t ELSE kids[a]
  <2>1. IsReplaced(n + 1, Good[h - 1], kids, j, t, kids2)
    BY <1>1, <1>3, <1>4, Replaced
  <2>. QED
    BY <2>1 DEF IsReplaced
<1>6. (\A l \in 1..n : keys[l][1] # pair[1])
      /\ \A a \in 1..n + 1 : a # j => \A p \in Content[kids[a]] : p[1] # pair[1]
  BY Elsewhere DEF Clear
<1>7. ASSUME NEW a \in 1..n + 1, NEW l \in 1..n, NEW p \in Content[kids2[a]]
      PROVE  Side(l, a, keys[l], p)
  <2>1. CASE a # j
    BY <1>1, <1>5, <2>1
  <2>2. CASE a = j
    <3>1. p \in Content[kids[j]] \/ p = pair
      BY <1>3, <1>5, <2>2 DEF Took
    <3>. QED
      BY <1>1, <2>2, <3>1
  <2>. QED
    BY <2>1, <2>2
<1>8. Inner(h, n, keys, kids2)
  BY <1>1, <1>3, <1>5, <1>7 DEF Inner
<1>9. ASSUME NEW p
       PROVE  Holds(n, keys, kids2, p)
               <=> (Holds(n, keys, kids, p) /\ p[1] # pair[1]) \/ p = pair
  <2>1. (\E l \in 1..n : p = keys[l]) => p[1] # pair[1]
    BY <1>6
  <2>2. p \in Content[t] <=> (p \in Content[kids[j]] /\ p[1] # pair[1]) \/ p = pair
    BY <1>3 DEF Took
  <2>3. (\E a \in 1..n + 1 : p \in Content[kids2[a]])
          <=> ((\E a \in 1..n + 1 : p \in Content[kids[a]]) /\ p[1] # pair[1]) \/ p = pair
    BY <1>5, <1>6, <2>2
  <2>. QED
    BY <2>1, <2>3 DEF Holds
<1>. QED
  BY <1>4, <1>8, <1>9 DEF Taken

LEMMA ShortGood == \A h \in 0..Top : \A n \in Good[h] : Len(n.keys) \in 0..3
<1> SUFFICES ASSUME NEW h \in 0..Top, NEW n \in Good[h] PROVE Len(n.keys) \in 0..3
  OBVIOUS
<1>1. CASE h = 0
  BY <1>1, GoodLeaf
<1>2. CASE h # 0
  <2>1. h \in 1..Top
    BY <1>2, TopIs
  <2>. QED
    BY <2>1, GoodInner
<1>. QED
  BY <1>1, <1>2

LEMMA InnerCame ==
  ASSUME NEW h \in 1..Top, NEW node, NEW n \in 1..3, NEW keys, NEW kids, NEW pair,
         Inner(h, n, keys, kids),
         \A p : Holds(n, keys, kids, p) <=> (p \in Content[node] /\ p[1] # pair[1]) \/ p = pair
  PROVE  Came(h, node, BNode(FALSE, keys, kids), pair)
<1>1. n \in Nat /\ n \in 0..3 /\ n >= 1
  OBVIOUS
<1>2. PICK t : t = BNode(FALSE, keys, kids)
  OBVIOUS
<1>3. t.keys = keys /\ t.kids = kids /\ t = BNode(FALSE, t.keys, t.kids)
  BY <1>2 DEF BNode
<1>4. Row(n, keys)
  BY DEF Inner
<1>5. Len(t.keys) = n
  BY <1>1, <1>3, <1>4, RowIncreasing
<1>6. t \in Good[h]
  BY <1>1, <1>3, <1>5, GoodInner
<1>7. InnerHolds(t, n)
  BY <1>1, <1>5, <1>6, HeldInInner
<1>8. \A p : p \in Content[t] <=> Holds(n, keys, kids, p)
  BY <1>3, <1>7 DEF InnerHolds, Holds
<1>9. Took(Content[node], Content[t], pair)
  BY <1>8 DEF Took
<1>. QED
  BY <1>1, <1>2, <1>5, <1>6, <1>9 DEF Came

(* insert_nonfull on every tree of height g that is not full.              *)
Puts(g, put, pair) ==
  \A x \in Good[g] : Len(x.keys) <= 2 /\ (g > 0 => Len(x.keys) >= 1) => Came(g, x, put[x], pair)

LEMMA PutInner ==
  ASSUME NEW h \in 1..Top, NEW pair \in Pair, NEW put, Puts(h - 1, put, pair),
         NEW node \in Good[h], NEW n \in 1..2, Len(node.keys) = n
  PROVE  Came(h, node, PutBody(node, pair, put), pair)
<1>1. n \in Nat /\ n \in 0..2 /\ n \in 1..3 /\ n + 1 \in 1..3 /\ n + 1 \in Nat /\ h - 1 \in 0..Top
  BY TopIs
<1>2. PICK keys, kids : keys = node.keys /\ kids = node.kids
  OBVIOUS
<1>3. Inner(h, n, keys, kids) /\ node = BNode(FALSE, keys, kids)
  BY <1>2, GoodInner
<1>4. node.leaf = FALSE
  BY <1>3 DEF BNode
<1>5. /\ Row(n, keys) /\ kids \in [1..n + 1 -> Good[h - 1]]
      /\ \A a \in 1..n + 1 : Len(kids[a].keys) >= 1
  BY <1>3 DEF Inner
<1>6. keys \in [1..n -> Pair] /\ \A a, b \in 1..n : a < b => Before(keys[a], keys[b])
  BY <1>5 DEF Row
<1>7. \A p : p \in Content[node] <=> Holds(n, keys, kids, p)
  <2>1. InnerHolds(node, n)
    BY <1>1, HeldInInner
  <2>. QED
    BY <1>2, <2>1 DEF InnerHolds, Holds
<1>8. PICK i : i = SlotFromRight(node, pair[1])
  OBVIOUS
<1>9. /\ i \in 0..n /\ \A j \in i + 1..n : LexLess(pair[1], keys[j][1])
      /\ i > 0 => ~LexLess(pair[1], keys[i][1])
  <2>1. DOMAIN node.keys = 1..n
    BY <1>2, <1>6
  <2>. QED
    BY <1>1, <1>2, <1>8, <2>1, SlotRight
<1>10. CASE i > 0 /\ keys[i][1] = pair[1]
  <2>1. PutBody(node, pair, put) = BNode(FALSE, ReplaceAt(keys, i, pair), kids)
    BY <1>2, <1>4, <1>8, <1>10 DEF PutBody, SetSlot
  <2>2. i \in 1..n
    BY <1>9, <1>10
  <2>3. PICK keys2 : keys2 = ReplaceAt(keys, i, pair)
    OBVIOUS
  <2>4. Taken(h, n, keys, kids, keys2, kids, pair)
    BY <1>1, <1>3, <1>10, <2>2, <2>3, SlotTakes
  <2>5. /\ Inner(h, n, keys2, kids)
        /\ \A p : Holds(n, keys2, kids, p) <=> (p \in Content[node] /\ p[1] # pair[1]) \/ p = pair
    BY <1>7, <2>4 DEF Taken
  <2>6. Came(h, node, BNode(FALSE, keys2, kids), pair)
    BY <1>1, <2>5, InnerCame
  <2>. QED
    BY <2>1, <2>3, <2>6
<1>11. CASE ~(i > 0 /\ keys[i][1] = pair[1])
  <2>1. ASSUME NEW l \in 1..n
        PROVE  (l <= i => Before(keys[l], pair)) /\ (l > i => Before(pair, keys[l]))
    <3>1. CASE l > i
      <4>1. l \in i + 1..n
        BY <1>9, <3>1
      <4>. QED
        BY <1>9, <3>1, <4>1 DEF Before
    <3>2. CASE l <= i
      <4>1. i \in 1..n /\ i > 0
        BY <1>9, <3>2
      <4>2. Before(keys[i], pair)
        BY <1>6, <1>9, <1>11, <4>1, PairOrder DEF Before
      <4>3. l = i \/ l < i
        BY <1>9, <3>2
      <4>4. l < i => Before(keys[l], keys[i])
        BY <1>6, <4>1
      <4>5. keys[l] \in Pair /\ keys[i] \in Pair
        BY <1>6, <4>1
      <4>6. Before(keys[l], pair)
        BY <4>2, <4>3, <4>4, <4>5, PairOrder
      <4>. QED
        BY <1>9, <3>2, <4>6
    <3>. QED
      BY <1>9, <3>1, <3>2
  <2>2. PICK s \in 1..n + 1 : s = i + 1 /\ s + 1 = i + 2
    BY <1>9
  <2>3. PICK y \in Good[h - 1] : y = kids[s] /\ Len(y.keys) >= 1
    BY <1>5
  <2>4. CASE Len(y.keys) # 3
    <3>1. PutBody(node, pair, put) = BNode(FALSE, keys, ReplaceAt(kids, s, put[y]))
      BY <1>2, <1>4, <1>8, <1>11, <2>2, <2>3, <2>4 DEF PutBody, SetKid
    <3>2. Len(y.keys) <= 2
      <4>1. PICK m \in 0..3 : m = Len(y.keys)
        BY <1>1, ShortGood
      <4>2. m # 3 => m <= 2
        OBVIOUS
      <4>. QED
        BY <2>4, <4>1, <4>2
    <3>3. PICK t : t = put[y]
      OBVIOUS
    <3>4. Came(h - 1, kids[s], t, pair)
      BY <2>3, <3>2, <3>3 DEF Puts
    <3>5. \A l \in 1..n : Side(l, s, keys[l], pair)
      BY <1>9, <2>1, <2>2 DEF Side
    <3>6. PICK kids2 : kids2 = ReplaceAt(kids, s, t)
      OBVIOUS
    <3>7. Taken(h, n, keys, kids, keys, kids2, pair)
      BY <1>1, <1>3, <3>4, <3>5, <3>6, KidTakes
    <3>8. /\ Inner(h, n, keys, kids2)
          /\ \A p : Holds(n, keys, kids2, p) <=> (p \in Content[node] /\ p[1] # pair[1]) \/ p = pair
      BY <1>7, <3>7 DEF Taken
    <3>9. Came(h, node, BNode(FALSE, keys, kids2), pair)
      BY <1>1, <3>8, InnerCame
    <3>. QED
      BY <3>1, <3>3, <3>6, <3>9
  <2>5. CASE Len(y.keys) = 3
    <3>1. PICK keys2, kids2 :
            /\ split_child(BNode(FALSE, keys, kids), s) = BNode(FALSE, keys2, kids2)
            /\ SplitAt(h, n, s, keys, kids, keys2, kids2)
      BY <1>1, <1>3, <2>3, <2>5, SplitHolds
    <3>2. PICK down : down = split_child(node, s)
      OBVIOUS
    <3>3. down = BNode(FALSE, keys2, kids2) /\ down.keys = keys2 /\ down.kids = kids2
          /\ down.leaf = FALSE
      BY <1>3, <3>1, <3>2 DEF BNode
    <3>4. /\ Inner(h, n + 1, keys2, kids2)
          /\ \A j \in 1..n + 1 :
               keys2[j] = IF j < s THEN keys[j] ELSE IF j = s THEN kids[s].keys[2] ELSE keys[j - 1]
          /\ Len(kids2[s].keys) = 1 /\ Len(kids2[s + 1].keys) = 1
          /\ \A p : Holds(n, keys, kids, p) <=> Holds(n + 1, keys2, kids2, p)
      BY <3>1 DEF SplitAt
    <3>5. /\ keys2 \in [1..n + 1 -> Pair] /\ kids2 \in [1..(n + 1) + 1 -> Good[h - 1]]
      BY <3>4 DEF Inner, Row
    <3>6. CASE keys2[s][1] = pair[1]
      <4>1. PutBody(node, pair, put) = BNode(FALSE, ReplaceAt(keys2, s, pair), kids2)
        BY <1>2, <1>4, <1>8, <1>11, <2>2, <2>3, <2>5, <3>2, <3>3, <3>6 DEF PutBody, SetSlot
      <4>2. PICK keys3 : keys3 = ReplaceAt(keys2, s, pair)
        OBVIOUS
      <4>3. Taken(h, n + 1, keys2, kids2, keys3, kids2, pair)
        BY <1>1, <3>4, <3>6, <4>2, SlotTakes
      <4>4. /\ Inner(h, n + 1, keys3, kids2)
            /\ \A p : Holds(n + 1, keys3, kids2, p)
                        <=> (p \in Content[node] /\ p[1] # pair[1]) \/ p = pair
        BY <1>7, <3>4, <4>3 DEF Taken
      <4>5. Came(h, node, BNode(FALSE, keys3, kids2), pair)
        BY <1>1, <4>4, InnerCame
      <4>. QED
        BY <4>1, <4>2, <4>5
    <3>7. CASE keys2[s][1] # pair[1]
      <4>1. PICK j \in 1..(n + 1) + 1 :
              /\ j = IF LexLess(keys2[s][1], pair[1]) THEN s + 1 ELSE s
              /\ j = s \/ j = s + 1
        <5>1. s \in 1..(n + 1) + 1 /\ s + 1 \in 1..(n + 1) + 1
          OBVIOUS
        <5>. QED
          BY <5>1
      <4>2. PutBody(node, pair, put) = BNode(FALSE, keys2, ReplaceAt(kids2, j, put[kids2[j]]))
        BY <1>2, <1>4, <1>8, <1>11, <2>2, <2>3, <2>5, <3>2, <3>3, <3>7, <4>1 DEF PutBody, SetKid
      <4>3. PICK t : t = put[kids2[j]]
        OBVIOUS
      <4>4. Came(h - 1, kids2[j], t, pair)
        <5>1. kids2[j] \in Good[h - 1] /\ Len(kids2[j].keys) = 1
          BY <3>4, <3>5, <4>1
        <5>2. 1 <= 2 /\ 1 >= 1
          OBVIOUS
        <5>. QED
          BY <4>3, <5>1, <5>2 DEF Puts
      <4>5. ASSUME NEW l \in 1..n + 1 PROVE Side(l, j, keys2[l], pair)
        <5>1. CASE l < s
          <6>1. l \in 1..n /\ l <= i /\ l < j
            BY <1>9, <2>2, <4>1, <5>1
          <6>. QED
            BY <2>1, <3>4, <5>1, <6>1 DEF Side
        <5>2. CASE l = s
          <6>1. Before(keys2[s], pair) \/ Before(pair, keys2[s])
            BY <3>5, <3>7, PairOrder
          <6>2. LexLess(keys2[s][1], pair[1]) => s < j
            BY <4>1
          <6>3. ~LexLess(keys2[s][1], pair[1]) => ~(s < j)
            BY <4>1
          <6>. QED
            BY <5>2, <6>1, <6>2, <6>3 DEF Side, Before
        <5>3. CASE l > s
          <6>1. l - 1 \in 1..n /\ l - 1 > i /\ ~(l < s) /\ l # s /\ ~(l < j)
            BY <1>9, <2>2, <4>1, <5>3
          <6>. QED
            BY <2>1, <3>4, <6>1 DEF Side
        <5>4. l < s \/ l = s \/ l > s
          OBVIOUS
        <5>. QED
          BY <5>1, <5>2, <5>3, <5>4
      <4>6. PICK kids3 : kids3 = ReplaceAt(kids2, j, t)
        OBVIOUS
      <4>7. Taken(h, n + 1, keys2, kids2, keys2, kids3, pair)
        BY <1>1, <3>4, <4>4, <4>5, <4>6, KidTakes
      <4>8. /\ Inner(h, n + 1, keys2, kids3)
            /\ \A p : Holds(n + 1, keys2, kids3, p)
                        <=> (p \in Content[node] /\ p[1] # pair[1]) \/ p = pair
        BY <1>7, <3>4, <4>7 DEF Taken
      <4>9. Came(h, node, BNode(FALSE, keys2, kids3), pair)
        BY <1>1, <4>8, InnerCame
      <4>. QED
        BY <4>2, <4>3, <4>6, <4>9
    <3>. QED
      BY <3>6, <3>7
  <2>. QED
    BY <2>4, <2>5
<1>. QED
  BY <1>10, <1>11

LEMMA PutTakes ==
  ASSUME NEW pair \in Pair, NEW put, \A x \in Trees : put[x] = PutBody(x, pair, put)
  PROVE  \A h \in 0..Top : Puts(h, put, pair)
<1> DEFINE P == {n \in Nat : n <= Top => Puts(n, put, pair)}
<1>1. Top \in Nat /\ 0 \in 0..Top
  BY TopIs
<1>2. Puts(0, put, pair)
  <2> SUFFICES ASSUME NEW x \in Good[0], Len(x.keys) <= 2 PROVE Came(0, x, put[x], pair)
    BY DEF Puts
  <2>1. PICK m \in 0..3 : x = BNode(TRUE, x.keys, <<>>) /\ Len(x.keys) = m
    BY GoodLeaf
  <2>2. m \in 0..2
    BY <2>1
  <2>3. x \in Trees
    BY <1>1, GoodTrees
  <2>4. x.leaf = TRUE
    BY <2>1 DEF BNode
  <2>5. put[x] = IntoLeaf(x, pair)
    BY <2>3, <2>4 DEF PutBody
  <2>. QED
    BY <2>1, <2>2, <2>5, LeafTakes
<1>3. ASSUME NEW n \in Nat, n <= Top => Puts(n, put, pair), n + 1 <= Top
      PROVE  Puts(n + 1, put, pair)
  <2>1. n + 1 \in 1..Top /\ n + 1 \in 0..Top /\ (n + 1) - 1 = n /\ n <= Top /\ n + 1 > 0
    BY <1>1, <1>3
  <2> SUFFICES ASSUME NEW x \in Good[n + 1], Len(x.keys) <= 2, Len(x.keys) >= 1
               PROVE  Came(n + 1, x, put[x], pair)
    BY <2>1 DEF Puts
  <2>2. x \in Trees
    BY <2>1, GoodTrees
  <2>3. PICK m \in 0..3 : Len(x.keys) = m
    BY <2>1, GoodInner
  <2>4. m \in 1..2
    BY <2>3
  <2>5. Puts((n + 1) - 1, put, pair)
    BY <1>3, <2>1
  <2>6. Came(n + 1, x, PutBody(x, pair, put), pair)
    BY <2>1, <2>3, <2>4, <2>5, PutInner
  <2>. QED
    BY <2>2, <2>6
<1>4. 0 \in P /\ \A n \in Nat : n \in P => n + 1 \in P
  BY <1>2, <1>3
<1>. HIDE DEF P
<1>5. Nat \subseteq P
  BY <1>4, Induction
<1>. QED
  BY <1>1, <1>5 DEF P

LEMMA Single ==
  ASSUME NEW S, NEW x \in S
  PROVE  <<x>> \in Seq(S) /\ Len(<<x>>) = 1 /\ <<x>>[1] = x
OBVIOUS

(* tree_put: a full root is split first, and the tree gains a level.       *)
LEMMA TreePut ==
  ASSUME NEW pair \in Pair, NEW h \in 0..Top, NEW root \in Good[h],
         h > 0 => Len(root.keys) >= 1, Len(root.keys) = 3 => h + 1 \in 1..Top
  PROVE  \E g \in 0..Top : Came(g, root, tree_put(root, pair), pair)
<1>1. PICK put : /\ \A x \in Trees : put[x] = PutBody(x, pair, put)
                 /\ \A x : insert_nonfull(x, pair) = put[x]
  BY PutIs
<1>2. \A g \in 0..Top : Puts(g, put, pair)
  BY <1>1, PutTakes
<1>3. CASE Len(root.keys) # 3
  <2>1. Len(root.keys) <= 2
    <3>1. PICK m \in 0..3 : m = Len(root.keys)
      BY ShortGood
    <3>2. m # 3 => m <= 2
      OBVIOUS
    <3>. QED
      BY <1>3, <3>1, <3>2
  <2>2. Came(h, root, put[root], pair)
    BY <1>2, <2>1 DEF Puts
  <2>. QED
    BY <1>1, <1>3, <2>2 DEF tree_put
<1>4. CASE Len(root.keys) = 3
  <2>1. PICK g \in 1..Top : g = h + 1 /\ g - 1 = h /\ g \in 0..Top /\ g > 0
    BY <1>4, TopIs
  <2>2. PICK kids \in [1..1 -> Good[h]] : kids = <<root>> /\ kids[1] = root
    <3>1. PICK q : q = <<root>>
      OBVIOUS
    <3>2. q \in Seq(Good[h]) /\ Len(q) = 1 /\ q[1] = root
      BY <3>1, Single
    <3>3. q \in [1..1 -> Good[h]]
      BY <3>2, LenProperties
    <3>. QED
      BY <3>1, <3>2, <3>3
  <2>3. PICK keys \in [1..0 -> Pair] : keys = <<>>
    <3>1. PICK q : q = <<>>
      OBVIOUS
    <3>2. q \in Seq(Pair) /\ Len(q) = 0
      BY <3>1
    <3>3. q \in [1..0 -> Pair]
      BY <3>2, LenProperties
    <3>. QED
      BY <3>1, <3>3
  <2>4. Inner(g, 0, keys, kids)
    <3>1. Row(0, keys)
      BY DEF Row
    <3>2. 0 + 1 = 1 /\ \A i \in 1..1 : i = 1
      OBVIOUS
    <3>3. Len(root.keys) >= 1
      BY <1>4
    <3>. QED
      BY <2>1, <2>2, <3>1, <3>2, <3>3 DEF Inner
  <2>5. 0 \in 0..2 /\ 1 \in 1..0 + 1 /\ 0 + 1 = 1 /\ 1 \in Nat /\ 1 \in 0..3
    OBVIOUS
  <2>6. PICK keys2, kids2 :
           /\ split_child(BNode(FALSE, keys, kids), 1) = BNode(FALSE, keys2, kids2)
           /\ SplitAt(g, 0, 1, keys, kids, keys2, kids2)
    BY <1>4, <2>2, <2>4, <2>5, SplitHolds
  <2>7. Inner(g, 1, keys2, kids2) /\ \A p : Holds(0, keys, kids, p) <=> Holds(1, keys2, kids2, p)
    BY <2>5, <2>6 DEF SplitAt
  <2>8. PICK x : x = BNode(FALSE, keys2, kids2)
    OBVIOUS
  <2>9. x.keys = keys2 /\ x.kids = kids2 /\ x = BNode(FALSE, x.keys, x.kids)
    BY <2>8 DEF BNode
  <2>10. Len(x.keys) = 1
    <3>1. Row(1, keys2)
      BY <2>7 DEF Inner
    <3>. QED
      BY <2>5, <2>9, <3>1, RowIncreasing
  <2>11. x \in Good[g]
    BY <2>1, <2>5, <2>7, <2>9, <2>10, GoodInner
  <2>12. Came(g, x, put[x], pair)
    <3>1. 1 <= 2 /\ 1 >= 1
      OBVIOUS
    <3>. QED
      BY <1>2, <2>1, <2>10, <2>11, <3>1 DEF Puts
  <2>13. \A p : p \in Content[x] <=> p \in Content[root]
    <3>1. InnerHolds(x, 1)
      BY <2>1, <2>5, <2>10, <2>11, HeldInInner
    <3>2. \A p : p \in Content[x] <=> Holds(1, keys2, kids2, p)
      BY <2>9, <3>1 DEF InnerHolds, Holds
    <3>3. \A p : Holds(0, keys, kids, p) <=> p \in Content[kids[1]]
      <4>1. (\A i \in 1..0 : FALSE) /\ \A i \in 1..0 + 1 : i = 1
        OBVIOUS
      <4>. QED
        BY <2>5, <4>1 DEF Holds
    <3>. QED
      BY <2>2, <2>7, <3>2, <3>3
  <2>14. Came(g, root, put[x], pair)
    BY <2>12, <2>13 DEF Came, Took
  <2>15. tree_put(root, pair) = put[x]
    BY <1>1, <1>4, <2>2, <2>3, <2>6, <2>8 DEF tree_put
  <2>. QED
    BY <2>1, <2>14, <2>15
<1>. QED
  BY <1>3, <1>4

-----------------------------------------------------------------------------
(* tree_get finds the value of a key that is held, and Absent for others.  *)
Elem == ({"int"} \X Int) \cup ({"str"} \X Seq(Int))

GetBody(node, key, get) ==
  LET i == SlotFromLeft(node, key)
  IN  IF i <= Len(node.keys) /\ node.keys[i][1] = key THEN node.keys[i][2]
      ELSE IF node.leaf THEN Absent
      ELSE get[node.kids[i]]

LEMMA GetIs ==
  ASSUME NEW key
  PROVE  \E get : /\ \A x \in Trees : get[x] = GetBody(x, key, get)
                  /\ \A root : tree_get(root, key) = get[root]
<1> DEFINE V == Elem \cup {Absent}
           W == [x \in Trees |-> V]
           K == [x \in Trees |-> Kids(x)]
           E == [z \in Trees \X [Trees -> V] |-> GetBody(z[1], key, z[2])]
<1>1. Calls(K)
  BY KidsCalls
<1>2. ASSUME NEW x \in Trees
      PROVE  \E n \in Nat : /\ n = Len(x.keys) /\ x.keys \in [1..n -> Pair]
                            /\ SlotFromLeft(x, key) \in 1..n + 1
                            /\ ~x.leaf => \A i \in 1..n + 1 : x.kids[i] \in Kids(x)
  <2>1. /\ x.leaf \in BOOLEAN /\ x.keys \in Seq(Pair)
        /\ ~x.leaf => Len(x.kids) = Len(x.keys) + 1
    BY KeysIn
  <2>2. Top \in 0..Top /\ x \in Level[Top]
    BY TopIs, LevelTrees
  <2>3. x.kids \in Seq(Below(Top))
    BY <2>2, NodeFields
  <2>4. PICK n \in Nat : n = Len(x.keys)
    BY <2>1
  <2>5. x.keys \in [1..n -> Pair]
    <3>1. x.keys \in [1..Len(x.keys) -> Pair]
      BY <2>1, LenProperties
    <3>. QED
      BY <2>4, <3>1
  <2>6. SlotFromLeft(x, key) \in 1..n + 1
    BY <2>4, SlotLeft
  <2>7. DOMAIN x.kids = 1..Len(x.kids)
    BY <2>3
  <2>8. ~x.leaf => DOMAIN x.kids = 1..n + 1
    BY <2>1, <2>4, <2>7
  <2>9. ~x.leaf => \A i \in 1..n + 1 : x.kids[i] \in Kids(x)
    BY <2>8 DEF Kids
  <2>. QED
    BY <2>4, <2>5, <2>6, <2>9
<1>3. ASSUME NEW x \in Trees, NEW f \in [Trees -> V] PROVE GetBody(x, key, f) \in V
  <2>1. PICK n \in Nat : /\ n = Len(x.keys) /\ x.keys \in [1..n -> Pair]
                         /\ SlotFromLeft(x, key) \in 1..n + 1
                         /\ ~x.leaf => \A i \in 1..n + 1 : x.kids[i] \in Kids(x)
    BY <1>2
  <2>2. PICK i \in 1..n + 1 : i = SlotFromLeft(x, key)
    BY <2>1
  <2>3. CASE i <= n /\ x.keys[i][1] = key
    <3>1. x.keys[i] \in Pair
      BY <2>1, <2>3
    <3>2. x.keys[i][2] \in Elem
      BY <3>1 DEF Pair, Elem
    <3>. QED
      BY <2>1, <2>2, <2>3, <3>2 DEF GetBody
  <2>4. CASE ~(i <= n /\ x.keys[i][1] = key) /\ x.leaf
    BY <2>1, <2>2, <2>4 DEF GetBody
  <2>5. CASE ~(i <= n /\ x.keys[i][1] = key) /\ ~x.leaf
    <3>1. x.kids[i] \in Trees
      BY <2>1, <2>5, KidsIn
    <3>2. f[x.kids[i]] \in V
      BY <3>1
    <3>. QED
      BY <2>1, <2>2, <2>5, <3>2 DEF GetBody
  <2>. QED
    BY <2>3, <2>4, <2>5
<1>4. ASSUME NEW x \in Trees, NEW f, NEW g, \A y \in Kids(x) : f[y] = g[y]
      PROVE  GetBody(x, key, f) = GetBody(x, key, g)
  BY <1>2, <1>4 DEF GetBody
<1>5. V # {} /\ W \in [Trees -> SUBSET V] /\ E \in [Trees \X [Trees -> V] -> V]
  BY <1>3
<1>6. \A x \in Trees, f \in [Trees -> V] : E[<<x, f>>] = GetBody(x, key, f) /\ E[<<x, f>>] \in W[x]
  BY <1>3
<1>7. \A x \in Trees : K[x] = Kids(x)
  OBVIOUS
<1>. HIDE DEF V, W, K, E
<1>8. Equations(V, W, K, E)
  <2>1. \A x \in Trees : \A f, g \in [Trees -> V] :
          (\A y \in K[x] : f[y] = g[y] /\ f[y] \in W[y]) =>
             E[<<x, f>>] = E[<<x, g>>] /\ E[<<x, f>>] \in W[x]
    BY <1>4, <1>6, <1>7
  <2>. QED
    BY <1>1, <1>5, <2>1 DEF Equations
<1>9. PICK f \in [Trees -> V] : \A x \in Trees : f[x] = E[<<x, f>>] /\ f[x] \in W[x]
  BY <1>8, Recursion
<1>10. f = [x \in Trees |-> GetBody(x, key, f)]
  BY <1>6, <1>9
<1> DEFINE Fits(g) == g = [x \in Trees |-> GetBody(x, key, g)]
           chosen == CHOOSE g : Fits(g)
<1>11. Fits(chosen)
  BY <1>10
<1>12. \A root : tree_get(root, key) = chosen[root]
  BY DEF tree_get, GetBody
<1>. HIDE DEF chosen
<1>13. \A x \in Trees : chosen[x] = GetBody(x, key, chosen)
  BY <1>11
<1>. QED
  BY <1>12, <1>13

(* What a search of a tree comes to.                                       *)
Finds(node, key, v) ==
  IF \E p \in Content[node] : p[1] = key THEN <<key, v>> \in Content[node] ELSE v = Absent

LEMMA FindsInner ==
  ASSUME NEW h \in 1..Top, NEW node \in Good[h], NEW key \in Word, NEW get,
         \A kid \in Good[h - 1] : Finds(kid, key, get[kid])
  PROVE  Finds(node, key, GetBody(node, key, get))
<1>1. PICK n \in 0..3 : Inner(h, n, node.keys, node.kids) /\ Len(node.keys) = n
                        /\ node = BNode(FALSE, node.keys, node.kids)
  BY GoodInner
<1>2. n \in Nat
  OBVIOUS
<1>3. PICK keys, kids : keys = node.keys /\ kids = node.kids
  OBVIOUS
<1>4. Inner(h, n, keys, kids) /\ Len(keys) = n /\ node.leaf = FALSE
  BY <1>1, <1>3 DEF BNode
<1>5. /\ Row(n, keys) /\ kids \in [1..n + 1 -> Good[h - 1]]
  BY <1>4 DEF Inner
<1>6. keys \in [1..n -> Pair] /\ \A a, b \in 1..n : a < b => Before(keys[a], keys[b])
  BY <1>5 DEF Row
<1>7. \A p : p \in Content[node] <=> Holds(n, keys, kids, p)
  <2>1. InnerHolds(node, n)
    BY <1>1, <1>2, HeldInInner
  <2>. QED
    BY <1>3, <2>1 DEF InnerHolds, Holds
<1>8. PICK i \in 1..n + 1 : /\ i = SlotFromLeft(node, key)
                            /\ \A j \in 1..i - 1 : LexLess(keys[j][1], key)
                            /\ i <= n => ~LexLess(keys[i][1], key)
  BY <1>1, <1>2, <1>3, SlotLeft
<1>9. PICK pair \in Pair : pair[1] = key
  <2>1. <<key, <<"int", 0>>>> \in Pair
    BY DEF Pair, Word
  <2>. QED
    BY <2>1
<1>10. CASE i <= n /\ keys[i][1] = key
  <2>1. i \in 1..n
    BY <1>10
  <2>2. keys[i] \in Content[node]
    BY <1>7, <2>1 DEF Holds
  <2>3. keys[i] \in Pair
    BY <1>6, <2>1
  <2>4. keys[i] = <<key, keys[i][2]>>
    BY <1>10, <2>3 DEF Pair
  <2>5. GetBody(node, key, get) = keys[i][2]
    BY <1>3, <1>4, <1>8, <1>10 DEF GetBody
  <2>. QED
    BY <1>10, <2>2, <2>4, <2>5 DEF Finds
<1>11. CASE ~(i <= n /\ keys[i][1] = key)
  <2>1. ASSUME NEW l \in 1..n PROVE Side(l, i, keys[l], pair)
    <3>1. CASE l < i
      <4>1. l \in 1..i - 1
        BY <3>1
      <4>. QED
        BY <1>8, <1>9, <3>1, <4>1 DEF Side, Before
    <3>2. CASE ~(l < i)
      <4>1. i \in 1..n /\ i <= n /\ (i = l \/ i < l)
        BY <3>2
      <4>2. Before(pair, keys[i])
        BY <1>6, <1>8, <1>9, <1>11, <4>1, PairOrder DEF Before
      <4>3. i < l => Before(keys[i], keys[l])
        BY <1>6, <4>1
      <4>4. keys[i] \in Pair /\ keys[l] \in Pair
        BY <1>6, <4>1
      <4>5. Before(pair, keys[l])
        BY <4>1, <4>2, <4>3, <4>4, PairOrder
      <4>. QED
        BY <3>2, <4>5 DEF Side
    <3>. QED
      BY <3>1, <3>2
  <2>2. Clear(n, keys, kids, i, pair)
    BY <1>2, <1>4, <2>1, Elsewhere
  <2>3. /\ \A l \in 1..n : keys[l][1] # key
        /\ \A a \in 1..n + 1 : a # i => \A p \in Content[kids[a]] : p[1] # key
    BY <1>9, <2>2 DEF Clear
  <2>4. PICK kid \in Good[h - 1] : kid = kids[i]
    BY <1>5
  <2>5. ASSUME NEW p, p[1] = key PROVE p \in Content[node] <=> p \in Content[kid]
    BY <1>7, <2>3, <2>4, <2>5 DEF Holds
  <2>6. GetBody(node, key, get) = get[kid]
    BY <1>3, <1>4, <1>8, <1>11, <2>4 DEF GetBody
  <2>7. Finds(kid, key, get[kid])
    BY <2>4
  <2>8. \A v : <<key, v>>[1] = key
    OBVIOUS
  <2>9. (\E p \in Content[node] : p[1] = key) <=> \E p \in Content[kid] : p[1] = key
    BY <2>5
  <2>10. <<key, get[kid]>> \in Content[node] <=> <<key, get[kid]>> \in Content[kid]
    BY <2>5, <2>8
  <2>. QED
    BY <2>6, <2>7, <2>9, <2>10 DEF Finds
<1>. QED
  BY <1>10, <1>11

LEMMA FindsLeaf ==
  ASSUME NEW node \in Good[0], NEW key \in Word, NEW get
  PROVE  Finds(node, key, GetBody(node, key, get))
<1>1. PICK n \in 0..3 : /\ Row(n, node.keys) /\ Len(node.keys) = n
                        /\ node = BNode(TRUE, node.keys, <<>>)
  BY GoodLeaf
<1>2. n \in Nat
  OBVIOUS
<1>3. PICK keys : keys = node.keys
  OBVIOUS
<1>4. Len(keys) = n /\ node.leaf = TRUE
  BY <1>1, <1>3 DEF BNode
<1>5. keys \in [1..n -> Pair] /\ \A a, b \in 1..n : a < b => Before(keys[a], keys[b])
  BY <1>1, <1>3 DEF Row
<1>6. ASSUME NEW p PROVE p \in Content[node] <=> \E a \in 1..n : p = keys[a]
  BY <1>2, <1>3, <1>4, HeldInLeaf
<1>7. PICK i \in 1..n + 1 : /\ i = SlotFromLeft(node, key)
                            /\ \A j \in 1..i - 1 : LexLess(keys[j][1], key)
                            /\ i <= n => ~LexLess(keys[i][1], key)
  BY <1>1, <1>2, <1>3, SlotLeft
<1>8. CASE i <= n /\ keys[i][1] = key
  <2>1. i \in 1..n
    BY <1>8
  <2>2. keys[i] \in Content[node] /\ keys[i] \in Pair
    BY <1>5, <1>6, <2>1
  <2>3. keys[i] = <<key, keys[i][2]>>
    BY <1>8, <2>2 DEF Pair
  <2>4. GetBody(node, key, get) = keys[i][2]
    BY <1>3, <1>4, <1>7, <1>8 DEF GetBody
  <2>. QED
    BY <1>8, <2>2, <2>3, <2>4 DEF Finds
<1>9. CASE ~(i <= n /\ keys[i][1] = key)
  <2>1. ASSUME NEW l \in 1..n PROVE keys[l][1] # key
    <3>1. \A a \in Word : ~LexLess(a, a)
      BY LexOrder
    <3>2. CASE l < i
      <4>1. l \in 1..i - 1
        BY <3>2
      <4>. QED
        BY <1>7, <3>1, <4>1
    <3>3. CASE l = i
      BY <1>9, <3>3
    <3>4. CASE i < l
      <4>1. i \in 1..n
        BY <3>4
      <4>2. Before(keys[i], keys[l]) /\ keys[i] \in Pair /\ keys[l] \in Pair
        BY <1>5, <3>4, <4>1
      <4>3. i <= n
        BY <4>1
      <4>. QED
        BY <1>7, <4>2, <4>3 DEF Before
    <3>5. l < i \/ l = i \/ i < l
      OBVIOUS
    <3>. QED
      BY <3>2, <3>3, <3>4, <3>5
  <2>2. \A p \in Content[node] : p[1] # key
    BY <1>6, <2>1
  <2>3. GetBody(node, key, get) = Absent
    BY <1>3, <1>4, <1>7, <1>9 DEF GetBody
  <2>. QED
    BY <2>2, <2>3 DEF Finds
<1>. QED
  BY <1>8, <1>9

LEMMA TreeGet ==
  ASSUME NEW key \in Word
  PROVE  \A h \in 0..Top : \A node \in Good[h] : Finds(node, key, tree_get(node, key))
<1>1. Top \in Nat /\ 0 \in 0..Top
  BY TopIs
<1>2. PICK get : /\ \A x \in Trees : get[x] = GetBody(x, key, get)
                 /\ \A root : tree_get(root, key) = get[root]
  BY GetIs
<1> DEFINE P == {n \in Nat : n <= Top => \A node \in Good[n] : Finds(node, key, get[node])}
<1>3. 0 \in P
  BY <1>1, <1>2, GoodTrees, FindsLeaf
<1>4. ASSUME NEW n \in Nat, n \in P PROVE n + 1 \in P
  <2> SUFFICES ASSUME n + 1 <= Top, NEW node \in Good[n + 1] PROVE Finds(node, key, get[node])
    OBVIOUS
  <2>1. n + 1 \in 1..Top /\ n + 1 \in 0..Top /\ (n + 1) - 1 = n /\ n <= Top
    BY <1>1
  <2>2. \A kid \in Good[(n + 1) - 1] : Finds(kid, key, get[kid])
    BY <1>4, <2>1
  <2>3. Finds(node, key, GetBody(node, key, get))
    BY <2>1, <2>2, FindsInner
  <2>4. node \in Trees
    BY <2>1, GoodTrees
  <2>. QED
    BY <1>2, <2>3, <2>4
<1>. HIDE DEF P
<1>5. Nat \subseteq P
  BY <1>3, <1>4, Induction
<1>. QED
  BY <1>1, <1>2, <1>5 DEF P

-----------------------------------------------------------------------------
(* tree_count is how many pairs are held, and a tree that is not empty     *)
(* holds more pairs than it has levels.                                    *)
LEMMA TotalFirst ==
  ASSUME NEW n \in Nat, NEW ns \in [1..n -> Nat]
  PROVE  /\ Total(ns) \in Nat
         /\ n = 0 => Total(ns) = 0
         /\ n >= 1 => Total(ns) >= ns[1]
<1>1. PICK upto \in [0..n -> Nat] :
         upto[0] = 0 /\ (\A i \in 1..n : upto[i] = upto[i - 1] + ns[i]) /\ Total(ns) = upto[n]
  BY TotalSums
<1> DEFINE P == {m \in Nat : m + 1 <= n => upto[m + 1] >= ns[1]}
<1>2. 0 \in P
  BY <1>1
<1>3. ASSUME NEW m \in Nat, m \in P PROVE m + 1 \in P
  <2> SUFFICES ASSUME (m + 1) + 1 <= n PROVE upto[(m + 1) + 1] >= ns[1]
    OBVIOUS
  <2>1. /\ m + 1 \in 0..n /\ (m + 1) + 1 \in 1..n /\ ((m + 1) + 1) - 1 = m + 1
        /\ upto[m + 1] >= ns[1] /\ 1 \in 1..n
    BY <1>3
  <2>2. upto[(m + 1) + 1] = upto[m + 1] + ns[(m + 1) + 1]
    BY <1>1, <2>1
  <2>3. upto[m + 1] \in Nat /\ ns[(m + 1) + 1] \in Nat /\ ns[1] \in Nat
    BY <1>1, <2>1
  <2>4. PICK a \in Nat, b \in Nat, c \in Nat :
           a = upto[m + 1] /\ b = ns[(m + 1) + 1] /\ c = ns[1]
    BY <2>3
  <2>5. a >= c /\ upto[(m + 1) + 1] = a + b
    BY <2>1, <2>2, <2>4
  <2>6. a + b >= c
    BY <2>5
  <2>. QED
    BY <2>4, <2>5, <2>6
<1>. HIDE DEF P
<1>4. Nat \subseteq P
  BY <1>2, <1>3, Induction
<1>5. n >= 1 => upto[n] >= ns[1]
  <2> SUFFICES ASSUME n >= 1 PROVE upto[n] >= ns[1]
    OBVIOUS
  <2>1. n - 1 \in P /\ (n - 1) + 1 = n /\ n <= n
    BY <1>4
  <2>. QED
    BY <2>1 DEF P
<1>. QED
  BY <1>1, <1>5

Counted(h, n) ==
  /\ IsFiniteSet(Content[n]) /\ Cardinality(Content[n]) = tree_count[n] /\ tree_count[n] \in Nat
  /\ Len(n.keys) >= 1 => tree_count[n] >= h + Len(n.keys)

LEMMA LeafCounted == \A n \in Good[0] : Counted(0, n)
<1> SUFFICES ASSUME NEW n \in Good[0] PROVE Counted(0, n)
  OBVIOUS
<1>1. PICK m \in 0..3 : /\ Row(m, n.keys) /\ Len(n.keys) = m
                        /\ n = BNode(TRUE, n.keys, <<>>)
  BY GoodLeaf
<1>2. m \in Nat /\ 0 + m = m
  OBVIOUS
<1>3. n \in Trees
  BY GoodTrees, TopIs
<1>4. PICK keys \in Seq(Pair) : keys = n.keys /\ Len(keys) = m /\ Increasing(keys)
  BY <1>1, <1>2, RowIncreasing
<1>5. DOMAIN n.kids = {} /\ Kids(n) = {}
  <2>1. n.kids = <<>>
    BY <1>1 DEF BNode
  <2>. QED
    BY <2>1 DEF Kids
<1>6. Content[n] = ToSet(keys)
  BY <1>3, <1>4, <1>5, ContentIs
<1>7. IsFiniteSet(ToSet(keys)) /\ Cardinality(ToSet(keys)) = m
  BY <1>4, KeysCount
<1>8. tree_count[n] = m + Total([i \in DOMAIN n.kids |-> tree_count[n.kids[i]]])
  BY <1>1, <1>3, CountIs
<1>9. Total([i \in DOMAIN n.kids |-> tree_count[n.kids[i]]]) = 0
  <2>1. PICK ns : ns = [i \in DOMAIN n.kids |-> tree_count[n.kids[i]]]
    OBVIOUS
  <2>2. ns \in [1..0 -> Nat] /\ 0 \in Nat
    BY <1>5, <2>1
  <2>. QED
    BY <2>1, <2>2, TotalFirst
<1>10. tree_count[n] = m
  BY <1>2, <1>8, <1>9
<1>. QED
  BY <1>1, <1>2, <1>6, <1>7, <1>10 DEF Counted

LEMMA InnerCounted ==
  ASSUME NEW h \in 1..Top, NEW n \in Good[h], \A kid \in Good[h - 1] : Counted(h - 1, kid)
  PROVE  Counted(h, n)
<1>1. PICK m \in 0..3 : /\ Inner(h, m, n.keys, n.kids) /\ Len(n.keys) = m
                        /\ n = BNode(FALSE, n.keys, n.kids)
  BY GoodInner
<1>2. m \in Nat /\ m + 1 \in Nat /\ m + 1 >= 1 /\ 1 \in 1..m + 1 /\ h - 1 \in 0..Top /\ h \in Nat
  BY TopIs
<1>3. n \in Trees
  BY GoodTrees, TopIs
<1>4. PICK keys, kids : keys = n.keys /\ kids = n.kids
  OBVIOUS
<1>5. /\ Row(m, keys) /\ kids \in [1..m + 1 -> Good[h - 1]]
      /\ \A i \in 1..m + 1 : Len(kids[i].keys) >= 1
      /\ \A i \in 1..m + 1, j \in 1..m : \A p \in Content[kids[i]] : Side(j, i, keys[j], p)
  BY <1>1, <1>4 DEF Inner
<1>6. keys \in Seq(Pair) /\ Len(keys) = m /\ Increasing(keys) /\ keys \in [1..m -> Pair]
  BY <1>2, <1>5, RowIncreasing DEF Row
<1>7. \A i \in 1..m + 1 : Content[kids[i]] \subseteq Pair
  BY <1>2, <1>5, HeldArePairs
<1>8. PICK S : S = [i \in 1..m + 1 |-> Content[kids[i]]]
  OBVIOUS
<1>9. PICK ns : ns = [i \in 1..m + 1 |-> tree_count[kids[i]]]
  OBVIOUS
<1>10. \A i \in 1..m + 1 : Counted(h - 1, kids[i])
  BY <1>5
<1>11. /\ ns \in [1..m + 1 -> Nat]
       /\ \A i \in 1..m + 1 : IsFiniteSet(S[i]) /\ ns[i] = Cardinality(S[i])
  BY <1>8, <1>9, <1>10 DEF Counted
<1>12. ASSUME NEW i \in 1..m + 1, NEW j \in 1..m + 1, i < j PROVE S[i] \cap S[j] = {}
  <2> SUFFICES ASSUME NEW p \in Content[kids[i]], p \in Content[kids[j]] PROVE FALSE
    BY <1>8
  <2>1. i \in 1..m /\ ~(i < i)
    BY <1>12
  <2>2. Before(p, keys[i]) /\ Before(keys[i], p)
    BY <1>5, <1>12, <2>1 DEF Side
  <2>3. p \in Pair /\ keys[i] \in Pair
    BY <1>6, <1>7, <2>1
  <2>. QED
    BY <2>2, <2>3, PairOrder
<1>13. Apart(S, m + 1)
  <2> SUFFICES ASSUME NEW i \in 1..m + 1, NEW j \in 1..m + 1, i # j PROVE S[i] \cap S[j] = {}
    BY DEF Apart
  <2>1. i < j \/ j < i
    OBVIOUS
  <2>. QED
    BY <1>12, <2>1
<1>14. PICK U : U = UNION {S[i] : i \in 1..m + 1}
  OBVIOUS
<1>15. IsFiniteSet(U) /\ Cardinality(U) = Total(ns)
  <2>1. PICK k \in Nat : k = m + 1
    BY <1>2
  <2>2. /\ ns \in [1..k -> Nat] /\ Apart(S, k)
        /\ \A i \in 1..k : IsFiniteSet(S[i]) /\ ns[i] = Cardinality(S[i])
    BY <1>11, <1>13, <2>1
  <2>3. /\ IsFiniteSet(UNION {S[i] : i \in 1..k})
        /\ Cardinality(UNION {S[i] : i \in 1..k}) = Total(ns)
    BY <2>2, UnionCount
  <2>. QED
    BY <1>14, <2>1, <2>3
<1>16. PICK K : K = ToSet(keys)
  OBVIOUS
<1>17. IsFiniteSet(K) /\ Cardinality(K) = m
  BY <1>6, <1>16, KeysCount
<1>18. K \cap U = {}
  <2> SUFFICES ASSUME NEW l \in 1..m, NEW i \in 1..m + 1, keys[l] \in Content[kids[i]] PROVE FALSE
    <3>1. DOMAIN keys = 1..m
      BY <1>6
    <3>. QED
      BY <1>8, <1>14, <1>16, <3>1 DEF ToSet
  <2>1. Before(keys[l], keys[l])
    BY <1>5 DEF Side
  <2>. QED
    BY <1>6, <2>1, PairOrder
<1>19. DOMAIN kids = 1..m + 1
  BY <1>5
<1>20. Content[n] = K \cup U
  <2>1. {Content[kid] : kid \in Kids(n)} = {S[i] : i \in 1..m + 1}
    BY <1>4, <1>8, <1>19 DEF Kids
  <2>. QED
    BY <1>3, <1>4, <1>14, <1>16, <2>1, ContentIs
<1>21. Total(ns) \in Nat /\ Total(ns) >= ns[1]
  BY <1>2, <1>11, TotalFirst
<1>22. IsFiniteSet(Content[n]) /\ Cardinality(Content[n]) = m + Total(ns)
  <2>1. /\ IsFiniteSet(K \cup U)
        /\ Cardinality(K \cup U) = Cardinality(K) + Cardinality(U) - Cardinality(K \cap U)
    BY <1>15, <1>17, FS_Union
  <2>2. Cardinality(K \cap U) = 0
    BY <1>18, FS_EmptySet
  <2>3. PICK t \in Nat : t = Total(ns)
    BY <1>21
  <2>4. Cardinality(K \cup U) = m + t - 0
    BY <1>15, <1>17, <2>1, <2>2, <2>3
  <2>5. m + t - 0 = m + t
    BY <1>2
  <2>. QED
    BY <1>20, <2>1, <2>3, <2>4, <2>5
<1>23. tree_count[n] = m + Total(ns)
  <2>1. [i \in DOMAIN n.kids |-> tree_count[n.kids[i]]] = ns
    BY <1>4, <1>9, <1>19
  <2>. QED
    BY <1>1, <1>3, <2>1, CountIs
<1>24. ns[1] >= h
  <2>1. Counted(h - 1, kids[1]) /\ Len(kids[1].keys) >= 1 /\ ns[1] = tree_count[kids[1]]
    BY <1>2, <1>5, <1>9, <1>10
  <2>2. kids[1] \in Good[h - 1]
    BY <1>2, <1>5
  <2>3. PICK l \in 0..3 : l = Len(kids[1].keys)
    BY <1>2, <2>2, ShortGood
  <2>4. ns[1] \in Nat /\ ns[1] >= (h - 1) + l
    BY <2>1, <2>3 DEF Counted
  <2>5. l >= 1
    BY <2>1, <2>3
  <2>6. PICK a \in Nat : a = ns[1]
    BY <2>4
  <2>7. a >= (h - 1) + l
    BY <2>4, <2>6
  <2>8. a >= h
    BY <1>2, <2>5, <2>7
  <2>. QED
    BY <2>6, <2>8
<1>25. m + Total(ns) \in Nat /\ m + Total(ns) >= h + m
  <2>1. PICK t \in Nat : t = Total(ns)
    BY <1>21
  <2>2. PICK a \in Nat : a = ns[1]
    BY <1>2, <1>11
  <2>3. t >= a /\ a >= h
    BY <1>21, <1>24, <2>1, <2>2
  <2>4. m + t \in Nat /\ m + t >= h + m
    BY <1>2, <2>3
  <2>. QED
    BY <2>1, <2>4
<1>. QED
  BY <1>1, <1>22, <1>23, <1>25 DEF Counted

LEMMA TreeCount == \A h \in 0..Top : \A n \in Good[h] : Counted(h, n)
<1>1. Top \in Nat
  BY TopIs
<1> DEFINE P == {i \in Nat : i <= Top => \A n \in Good[i] : Counted(i, n)}
<1>2. 0 \in P
  BY LeafCounted
<1>3. ASSUME NEW i \in Nat, i \in P PROVE i + 1 \in P
  <2> SUFFICES ASSUME i + 1 <= Top, NEW n \in Good[i + 1] PROVE Counted(i + 1, n)
    OBVIOUS
  <2>1. i + 1 \in 1..Top /\ (i + 1) - 1 = i /\ i <= Top
    BY <1>1
  <2>2. \A kid \in Good[(i + 1) - 1] : Counted((i + 1) - 1, kid)
    BY <1>3, <2>1
  <2>. QED
    BY <2>1, <2>2, InnerCounted
<1>. HIDE DEF P
<1>4. Nat \subseteq P
  BY <1>2, <1>3, Induction
<1>. QED
  BY <1>1, <1>4 DEF P

(* A good tree of height h has its leaves h levels down.                   *)
LEMMA GoodShape == \A h \in 0..Top : \A n \in Good[h] : Depths[n] = {h} /\ Shaped[n]
<1>1. Top \in Nat
  BY TopIs
<1> DEFINE P == {i \in Nat : i <= Top => \A n \in Good[i] : Depths[n] = {i} /\ Shaped[n]}
<1>2. 0 \in P
  <2> SUFFICES ASSUME NEW n \in Good[0] PROVE Depths[n] = {0} /\ Shaped[n]
    OBVIOUS
  <2>1. n = BNode(TRUE, n.keys, <<>>)
    BY GoodLeaf
  <2>2. n.leaf = TRUE /\ n.kids = <<>>
    BY <2>1 DEF BNode
  <2>3. DOMAIN n.kids = {}
    BY <2>2
  <2>4. n \in Trees
    BY <1>1, GoodTrees
  <2>5. Shaped[n] = \A i \in DOMAIN n.kids : Sized(n.kids[i], 1) /\ Shaped[n.kids[i]]
    BY <2>4, ShapedIs
  <2>. QED
    BY <2>2, <2>3, <2>4, <2>5, DepthsIs
<1>3. ASSUME NEW i \in Nat, i \in P PROVE i + 1 \in P
  <2> SUFFICES ASSUME i + 1 <= Top, NEW n \in Good[i + 1]
               PROVE  Depths[n] = {i + 1} /\ Shaped[n]
    OBVIOUS
  <2>1. i + 1 \in 1..Top /\ (i + 1) - 1 = i /\ i <= Top /\ i \in 0..Top
    BY <1>1
  <2>2. PICK m \in 0..3 : /\ Inner(i + 1, m, n.keys, n.kids)
                          /\ n = BNode(FALSE, n.keys, n.kids)
    BY <2>1, GoodInner
  <2>3. /\ n.kids \in [1..m + 1 -> Good[i]] /\ n.leaf = FALSE /\ 1 \in 1..m + 1
        /\ \A a \in 1..m + 1 : Len(n.kids[a].keys) >= 1
    BY <2>1, <2>2 DEF Inner, BNode
  <2>4. n \in Trees
    BY <2>1, GoodTrees
  <2>5. \A a \in 1..m + 1 : Depths[n.kids[a]] = {i} /\ Shaped[n.kids[a]]
    BY <1>3, <2>1, <2>3
  <2>6. DOMAIN n.kids = 1..m + 1
    BY <2>3
  <2>7. UNION {Depths[n.kids[a]] : a \in DOMAIN n.kids} = {i}
    BY <2>3, <2>5, <2>6
  <2>8. Depths[n] = {d + 1 : d \in {i}}
    BY <2>3, <2>4, <2>7, DepthsIs
  <2>9. \A a \in DOMAIN n.kids : Sized(n.kids[a], 1)
    <3> SUFFICES ASSUME NEW a \in 1..m + 1 PROVE Sized(n.kids[a], 1)
      BY <2>6
    <3>1. PICK l \in 0..3 : l = Len(n.kids[a].keys)
      BY <2>1, <2>3, ShortGood
    <3>2. l >= 1
      BY <2>3, <3>1
    <3>3. l \in 1..3
      BY <3>2
    <3>. QED
      BY <3>1, <3>3 DEF Sized
  <2>10. Shaped[n] = \A a \in DOMAIN n.kids : Sized(n.kids[a], 1) /\ Shaped[n.kids[a]]
    BY <2>4, ShapedIs
  <2>. QED
    BY <2>5, <2>6, <2>8, <2>9, <2>10
<1>. HIDE DEF P
<1>4. Nat \subseteq P
  BY <1>2, <1>3, Induction
<1>. QED
  BY <1>1, <1>4 DEF P

-----------------------------------------------------------------------------
(* A B-tree stays a good tree, and never holds more than its limit.        *)
Grown(h, root) ==
  /\ root \in Good[h] /\ (h > 0 => Len(root.keys) >= 1)
  /\ tree_count[root] <= Top

Tree == kind = "te" => \E h \in 0..Top : Grown(h, body)

LEMMA TreeInit ==
  ASSUME Init
  PROVE  kind \in Kinds /\ Tree
<1>0. kind \in Kinds /\ body = fresh(kind, size) /\ 0 \in 0..Top
  <2>1. 0 \in 0..Top
    BY TopIs
  <2>2. kind \in Kinds /\ body = fresh(kind, size)
    BY Zenon DEF Init
  <2>. QED
    BY <2>1, <2>2
<1> SUFFICES ASSUME kind = "te" PROVE Grown(0, body)
  BY <1>0 DEF Tree
<1>1. PICK x : x = BNode(TRUE, <<>>, <<>>)
  OBVIOUS
<1>2. body = x
  <2>1. fresh("te", size) = BNode(TRUE, <<>>, <<>>)
    BY DEF fresh
  <2>. QED
    BY <1>0, <1>1, <2>1
<1>3. x.keys = <<>> /\ x = BNode(TRUE, x.keys, <<>>)
  BY <1>1 DEF BNode
<1>4. Row(0, x.keys) /\ Len(x.keys) = 0
  <2>1. x.keys \in Seq(Pair) /\ Len(x.keys) = 0 /\ 0 \in Nat
    BY <1>3
  <2>2. \A i, j \in 1..0 : FALSE
    OBVIOUS
  <2>3. Increasing(x.keys)
    BY <2>1, <2>2 DEF Increasing
  <2>. QED
    BY <2>1, <2>3, RowIncreasing
<1>5. x \in Good[0]
  <2>1. 0 \in 0..3
    OBVIOUS
  <2>. QED
    BY <1>3, <1>4, <2>1, GoodLeaf
<1>6. Content[x] = {}
  <2>1. \A p : p \in Content[x] <=> \E i \in 1..0 : p = x.keys[i]
    BY <1>4, <1>5, HeldInLeaf
  <2>2. \A i \in 1..0 : FALSE
    OBVIOUS
  <2>. QED
    BY <2>1, <2>2
<1>7. tree_count[x] = 0
  <2>1. Counted(0, x)
    BY <1>5, LeafCounted
  <2>. QED
    BY <1>6, <2>1, FS_EmptySet DEF Counted
<1>. QED
  BY <1>2, <1>5, <1>7, TopIs DEF Grown

LEMMA OneMore ==
  ASSUME NEW c, IsFiniteSet(c), NEW x
  PROVE  /\ IsFiniteSet(c \cup {x}) /\ Cardinality(c) \in Nat
         /\ Cardinality(c \cup {x}) \in Nat /\ Cardinality(c \cup {x}) <= Cardinality(c) + 1
<1>1. Cardinality(c) \in Nat
  BY FS_CardinalityType
<1>2. /\ IsFiniteSet(c \cup {x})
      /\ Cardinality(c \cup {x}) = IF x \in c THEN Cardinality(c) ELSE Cardinality(c) + 1
  BY FS_AddElement
<1>. QED
  BY <1>1, <1>2

LEMMA TookCount ==
  ASSUME NEW c, NEW d, NEW pair, IsFiniteSet(c), IsFiniteSet(d), Took(c, d, pair)
  PROVE  /\ Cardinality(d) <= Cardinality(c) + 1
         /\ (\E p \in c : p[1] = pair[1]) => Cardinality(d) <= Cardinality(c)
<1>1. d \subseteq c \cup {pair}
  BY DEF Took
<1>2. /\ IsFiniteSet(c \cup {pair}) /\ Cardinality(c) \in Nat /\ Cardinality(d) \in Nat
      /\ Cardinality(c \cup {pair}) \in Nat /\ Cardinality(c \cup {pair}) <= Cardinality(c) + 1
  BY OneMore, FS_CardinalityType
<1>3. Cardinality(d) <= Cardinality(c \cup {pair})
  BY <1>1, <1>2, FS_Subset
<1>4. Cardinality(d) <= Cardinality(c) + 1
  BY <1>2, <1>3
<1>5. ASSUME NEW q \in c, q[1] = pair[1] PROVE Cardinality(d) <= Cardinality(c)
  <2>1. PICK e : e = c \ {q}
    OBVIOUS
  <2>2. IsFiniteSet(e) /\ Cardinality(e) = Cardinality(c) - 1
    BY <2>1, FS_RemoveElement
  <2>3. d \subseteq e \cup {pair}
    BY <1>5, <2>1 DEF Took
  <2>4. /\ IsFiniteSet(e \cup {pair}) /\ Cardinality(e) \in Nat
        /\ Cardinality(e \cup {pair}) \in Nat /\ Cardinality(e \cup {pair}) <= Cardinality(e) + 1
    BY <2>2, OneMore
  <2>5. Cardinality(d) <= Cardinality(e \cup {pair})
    BY <2>3, <2>4, FS_Subset
  <2>. QED
    BY <1>2, <2>2, <2>4, <2>5
<1>. QED
  BY <1>4, <1>5

LEMMA TreePush ==
  ASSUME NEW root, \E h \in 0..Top : Grown(h, root), NEW pair \in Pair,
         tree_get(root, pair[1]) # Absent \/ tree_count[root] + 1 <= Top
  PROVE  \E g \in 0..Top : /\ Grown(g, tree_put(root, pair))
                           /\ Took(Content[root], Content[tree_put(root, pair)], pair)
<1>1. PICK h \in 0..Top : Grown(h, root)
  OBVIOUS
<1>2. root \in Good[h] /\ (h > 0 => Len(root.keys) >= 1) /\ tree_count[root] <= Top
  BY <1>1 DEF Grown
<1>3. Counted(h, root) /\ Top \in Nat
  BY <1>2, TreeCount, TopIs
<1>4. PICK n \in Nat : n = tree_count[root]
  BY <1>3 DEF Counted
<1>5. Len(root.keys) = 3 => h + 1 \in 1..Top
  <2> SUFFICES ASSUME Len(root.keys) = 3 PROVE h + 1 \in 1..Top
    OBVIOUS
  <2>1. 3 >= 1
    OBVIOUS
  <2>2. n >= h + 3 /\ n <= Top
    BY <1>2, <1>3, <1>4, <2>1 DEF Counted
  <2>. QED
    BY <1>3, <2>2
<1>6. PICK g \in 0..Top : Came(g, root, tree_put(root, pair), pair)
  BY <1>2, <1>5, TreePut
<1>7. PICK t : t = tree_put(root, pair)
  OBVIOUS
<1>8. t \in Good[g] /\ Len(t.keys) >= 1 /\ Took(Content[root], Content[t], pair)
  BY <1>6, <1>7 DEF Came
<1>9. Counted(g, t)
  BY <1>8, TreeCount
<1>10. PICK m \in Nat : m = tree_count[t]
  BY <1>9 DEF Counted
<1>11. /\ m <= n + 1
       /\ (\E p \in Content[root] : p[1] = pair[1]) => m <= n
  BY <1>3, <1>4, <1>8, <1>9, <1>10, TookCount DEF Counted
<1>12. tree_get(root, pair[1]) # Absent => \E p \in Content[root] : p[1] = pair[1]
  <2>1. pair[1] \in Word
    BY DEF Pair, Word
  <2>2. Finds(root, pair[1], tree_get(root, pair[1]))
    BY <1>2, <2>1, TreeGet
  <2>. QED
    BY <2>2 DEF Finds
<1>13. m <= Top
  <2>1. CASE tree_get(root, pair[1]) # Absent
    <3>1. m <= n /\ n <= Top
      BY <1>2, <1>4, <1>11, <1>12, <2>1
    <3>. QED
      BY <1>3, <3>1
  <2>2. CASE tree_count[root] + 1 <= Top
    <3>1. n + 1 <= Top
      BY <1>4, <2>2
    <3>. QED
      BY <1>3, <1>11, <3>1
  <2>. QED
    BY <2>1, <2>2
<1>. QED
  BY <1>7, <1>8, <1>10, <1>13 DEF Grown

LEMMA TreeStep ==
  ASSUME kind \in Kinds, Tree, Next
  PROVE  Tree'
<1>1. CASE \E v \in Operands[kind], x \in Handles : b_ps(v, x)
  <2>1. PICK v \in Operands[kind], x \in Handles : b_ps(v, x)
    BY <1>1
  <2>2. kind = "te" => body' = body
    <3>1. SUFFICES ASSUME kind = "te" PROVE body' = body
      OBVIOUS
    <3>2. \A f, g : ((Unless(TYPE_MISMATCH, kind \in PUSH) ?? f) ?? g) # Fine
      BY <3>1, BothPass, Passes DEF PUSH, Unless
    <3>. QED
      BY <2>1, <3>2 DEF b_ps, Answer
  <2>3. kind' = kind
    BY <2>1 DEF b_ps
  <2>. QED
    BY <2>2, <2>3 DEF Tree
<1>2. CASE \E v \in Operands[kind], x \in Handles : PutTrie(v, x)
  BY <1>2 DEF PutTrie, Keep, Tree
<1>3. CASE \E x \in Handles : b_po(x)
  <2>1. PICK x \in Handles : b_po(x)
    BY <1>3
  <2>2. kind' = kind
    BY <2>1 DEF b_po, Keep
  <2>3. kind = "te" => body' = body
    <3>1. SUFFICES ASSUME kind = "te" PROVE body' = body
      OBVIOUS
    <3>2. \A f, g : ((Unless(TYPE_MISMATCH, kind \in POP) ?? f) ?? g) # Fine
      BY <3>1, BothPass, Passes DEF POP, Unless
    <3>. QED
      BY <2>1, <3>2 DEF b_po, Answer
  <2>. QED
    BY <2>2, <2>3 DEF Tree
<1>4. CASE \E x \in Handles : b_len(x)
  BY <1>4 DEF b_len, Answer, Tree
<1>5. CASE \E k \in Operands[kind], v \in Values[kind], x \in Handles : b_pt(k, v, x)
  <2>1. PICK k \in Operands[kind], v \in Values[kind], x \in Handles : b_pt(k, v, x)
    BY <1>5
  <2>2. kind' = kind
    BY <2>1 DEF b_pt, Keep
  <2> SUFFICES ASSUME kind = "te" PROVE \E h \in 0..Top : Grown(h, body')
    BY <2>2 DEF Tree, Grown
  <2> DEFINE fault == excl(x, freed) ??
               (key_str(k) ?? elem(v) ?? Unless(BOUNDS, tree_get(body, k[2]) # Absent
                                                  \/ tree_count[body] + 1 <= BufMax["te"]))
  <2>4. body' = (IF fault = Fine THEN tree_put(body, <<k[2], v>>) ELSE body)
    BY <2>1 DEF b_pt, Answer
  <2>5. \E h \in 0..Top : Grown(h, body)
    BY DEF Tree
  <2>6. CASE fault = Fine
    <3>1. /\ key_str(k) = Fine /\ elem(v) = Fine
          /\ tree_get(body, k[2]) # Absent \/ tree_count[body] + 1 <= Top
      <4> DEFINE fits == tree_get(body, k[2]) # Absent \/ tree_count[body] + 1 <= BufMax["te"]
      <4>1. PICK last : last = Unless(BOUNDS, fits)
        OBVIOUS
      <4>2. fault = (excl(x, freed) ?? (key_str(k) ?? elem(v) ?? last))
        BY <4>1
      <4>. HIDE DEF fault
      <4>3. key_str(k) = Fine /\ elem(v) = Fine /\ last = Fine
        BY <2>6, <4>2, BothPass
      <4>4. ASSUME ~fits PROVE FALSE
        <5>1. Unless(BOUNDS, fits) = BOUNDS
          BY <4>4 DEF Unless
        <5>. QED
          BY <4>1, <4>3, <5>1, Passes
      <4>. QED
        BY <4>3, <4>4 DEF Top
    <3>2. k \in Operand /\ v \in Operand
      BY OperandAssumption
    <3>3. k[2] \in Seq(Int)
      BY <3>1, <3>2, ChecksPass, OperandIs DEF IsWord
    <3>4. v \in ({"int"} \X Int) \cup ({"str"} \X Seq(Int))
      BY <3>1, <3>2, ChecksPass DEF Operand, Other, IsInt, IsStr
    <3>5. PICK pair \in Pair : pair = <<k[2], v>>
      BY <3>3, <3>4 DEF Pair
    <3>6. pair[1] = k[2]
      BY <3>5
    <3>7. \E g \in 0..Top : Grown(g, tree_put(body, pair))
      BY <2>5, <3>1, <3>6, TreePush
    <3>. QED
      BY <2>4, <2>6, <3>5, <3>7
  <2>7. CASE fault # Fine
    BY <2>4, <2>5, <2>7
  <2>. QED
    BY <2>6, <2>7
<1>6. CASE DropOwner
  <2>1. kind' = kind /\ body' = body
    BY <1>6, Zenon DEF DropOwner
  <2>. QED
    BY <2>1 DEF Tree
<1>. QED
  BY <1>1, <1>2, <1>3, <1>4, <1>5, <1>6 DEF Next

(* TreeBalanced: however keys arrive, every leaf of a B-tree is at one     *)
(* depth and no node but the root is empty or overfull.  tree_put and      *)
(* insert_nonfull (coll.rs) take good trees to good trees; that a tree is  *)
(* never higher than its limit follows from the pairs it holds.            *)
THEOREM TreeBalancedTheorem == Spec => []TreeBalanced
<1>1. Init => kind \in Kinds /\ Tree
  BY TreeInit
<1>2. (kind \in Kinds /\ Tree) /\ [Next]_vars => (kind \in Kinds /\ Tree)'
  <2> SUFFICES ASSUME kind \in Kinds, Tree, [Next]_vars
               PROVE  kind' \in Kinds /\ Tree'
    OBVIOUS
  <2>1. CASE Next
    BY <2>1, TreeStep, SameKind
  <2>2. CASE UNCHANGED vars
    BY <2>2 DEF vars, Tree
  <2>. QED
    BY <2>1, <2>2
<1>3. Tree => TreeBalanced
  <2> SUFFICES ASSUME kind = "te", NEW h \in 0..Top, Grown(h, body)
               PROVE  Sized(body, 0) /\ Shaped[body] /\ Cardinality(Depths[body]) = 1
    BY DEF Tree, TreeBalanced
  <2>1. body \in Good[h]
    BY DEF Grown
  <2>2. Len(body.keys) \in 0..3 /\ Depths[body] = {h} /\ Shaped[body]
    BY <2>1, ShortGood, GoodShape
  <2>. QED
    BY <2>2, FS_Singleton DEF Sized
<1>. QED
  BY <1>1, <1>2, <1>3, PTL DEF Spec

-----------------------------------------------------------------------------
(* The words of the contract ask the same of their operands.               *)
LEMMA SameWords ==
  /\ \A f, v : Contract!Reply(f, v) = Reply(f, v)
  /\ \A f, g : Contract!??(f, g) = (f ?? g)
  /\ \A f, holds : Contract!Unless(f, holds) = Unless(f, holds)
  /\ \A v : /\ Contract!elem(v) = elem(v) /\ Contract!key_str(v) = key_str(v)
            /\ Contract!plain(v) = plain(v)
  /\ \A k, n : Contract!room(k, n) = room(k, n)
  /\ \A f : Contract!coll_live(f) = coll_live(f)
  /\ \A x, f : Contract!excl(x, f) = excl(x, f)
  /\ \A v, n : Contract!Index(v, n) = Index(v, n)
  /\ Contract!Fine = Fine /\ Contract!None = None
  /\ Contract!BOUNDS = BOUNDS /\ Contract!TYPE_MISMATCH = TYPE_MISMATCH
  /\ \A n : Contract!Int_(n) = Int_(n)
<1>1. Contract!Fine = Fine /\ Contract!None = None
  BY DEF Contract!Fine, Contract!None, Fine, None
<1>2. Contract!BOUNDS = BOUNDS /\ Contract!TYPE_MISMATCH = TYPE_MISMATCH
  BY DEF Contract!BOUNDS, Contract!TYPE_MISMATCH, BOUNDS, TYPE_MISMATCH
<1>3. \A f, v : Contract!Reply(f, v) = Reply(f, v)
  BY <1>1 DEF Contract!Reply, Reply
<1>4. \A f, g : Contract!??(f, g) = (f ?? g)
  BY <1>1 DEF Contract!??, ??
<1>5. \A f, holds : Contract!Unless(f, holds) = Unless(f, holds)
  BY <1>1 DEF Contract!Unless, Unless
<1>6. \A v : Contract!IsInt(v) = IsInt(v) /\ Contract!IsStr(v) = IsStr(v) /\ Contract!IsWord(v) = IsWord(v)
  BY DEF Contract!IsInt, IsInt, Contract!IsStr, IsStr, Contract!IsWord, IsWord,
         Contract!White, White, Contract!Newline, Newline, Contract!Blank, Blank,
         Contract!ToSet, ToSet
<1>7. \A v : Contract!key_str(v) = key_str(v) /\ Contract!plain(v) = plain(v)
  BY <1>2, <1>5, <1>6 DEF Contract!key_str, key_str, Contract!plain, plain
<1>8. \A v : Contract!elem(v) = elem(v)
  <2>1. \A s : Contract!ToSet(s) = ToSet(s)
    BY DEF Contract!ToSet, ToSet
  <2>2. Contract!Newline = Newline
    BY DEF Contract!Newline, Newline
  <2>. QED
    BY <1>2, <1>5, <1>6, <2>1, <2>2 DEF Contract!elem, elem
<1>9. \A k, n : Contract!room(k, n) = room(k, n)
  BY <1>2, <1>5 DEF Contract!room, room
<1>10. \A f : Contract!coll_live(f) = coll_live(f)
  BY <1>2, <1>5 DEF Contract!coll_live, coll_live
<1>11. \A x, f : Contract!excl(x, f) = excl(x, f)
  BY <1>2, <1>4, <1>5, <1>10 DEF Contract!excl, excl
<1>12. \A v, n : Contract!Index(v, n) = Index(v, n)
  BY <1>2, <1>4, <1>5, <1>7 DEF Contract!Index, Index
<1>13. \A n : Contract!Int_(n) = Int_(n)
  BY DEF Contract!Int_, Int_
<1>. QED
  BY <1>1, <1>2, <1>3, <1>4, <1>5, <1>7, <1>8, <1>9, <1>10, <1>11, <1>12, <1>13

LEMMA SameCardinality == \A S : Contract!Cardinality(S) = Cardinality(S)
BY DEF Contract!Cardinality, Cardinality

-----------------------------------------------------------------------------
(* What a collection of each kind stands for.                              *)
PairsOf(b) == [i \in DOMAIN b.order |-> <<b.order[i], b.pairs[b.order[i]]>>]
WordsOf(trie) == ToSet(trie_walk(trie, <<>>))
PlacesOf(heap, n) == {i \in DOMAIN heap : heap[i][1] = n}
IntsOf(heap) == {p[1] : p \in ToSet(heap)}
BagOf(heap) == [n \in IntsOf(heap) |-> Cardinality(PlacesOf(heap, n))]
VectorOf(bits, n) == [i \in 0 .. n - 1 |-> Bit(bits, i)]
HitsOf(bits, n) == {i \in 0 .. n - 1 : Bit(bits, i) = 1}

Shows(k, n, b, h) ==
  /\ k \in {"ls", "qu", "rg", "sc"} => h = b
  /\ k = "mp" => h = PairsOf(b)
  /\ k = "te" => h = ToSet(tree_walk[b])
  /\ k = "ti" => h = WordsOf(b.trie)
  /\ k = "pq" => h = BagOf(b.heap)
  /\ k = "bv" => h = VectorOf(b, n)
  /\ k = "bm" => h = HitsOf(b, n)

LEMMA HeldIs == Shows(kind, size, body, Held)
BY DEF Held, Shows, PairsOf, WordsOf, BagOf, IntsOf, PlacesOf, VectorOf, HitsOf

LEMMA HeldNext == Shows(kind', size', body', Held')
BY DEF Held, Shows, PairsOf, WordsOf, BagOf, IntsOf, PlacesOf, VectorOf, HitsOf

LEMMA HeldSame ==
  ASSUME UNCHANGED <<kind, size, body>>
  PROVE  Held' = Held
BY DEF Held

-----------------------------------------------------------------------------
(* A word of the contract, in terms of what is held now and next.          *)
Wants(word, fault, changed, value) ==
  /\ out' = <<word, Reply(fault, value)>>
  /\ Held' = IF fault = Fine THEN changed ELSE Held

LEMMA WantsIs ==
  \A word, fault, changed, value :
    Contract!Answer(word, fault, changed, value) <=> Wants(word, fault, changed, value)
BY SameWords DEF Contract!Answer, Wants

LEMMA Follows ==
  ASSUME NEW word, NEW fault, NEW changed, NEW value, NEW holds,
         Answer(word, fault, changed, value), UNCHANGED <<kind, size>>,
         fault = Fine /\ body' = changed => Held' = holds
  PROVE  Wants(word, fault, holds, value)
<1>1. CASE fault = Fine
  BY <1>1 DEF Answer, Wants
<1>2. CASE fault # Fine
  <2>1. body' = body /\ out' = <<word, Reply(fault, value)>>
    BY <1>2 DEF Answer
  <2>. QED
    BY <1>2, <2>1, HeldSame DEF Wants
<1>. QED
  BY <1>1, <1>2

(* A fault is the same whatever else the word would have done.             *)
LEMMA Refuses ==
  \A word, fault, changed, changed2, value, value2 :
    fault # Fine => (Wants(word, fault, changed, value) <=> Wants(word, fault, changed2, value2))
BY DEF Wants, Reply

LEMMA ContractPush ==
  \A v, x : Contract!Push(v, x) <=>
    Wants("ps", Unless(TYPE_MISMATCH, kind \in PUSH) ?? excl(x, freed) ?? Contract!PushFault(v),
          Contract!Pushed(v), None)
BY SameWords, WantsIs DEF Contract!Push, Contract!PUSH, PUSH

LEMMA ContractPushFault ==
  \A v : /\ kind = "bm" => Contract!PushFault(v) = key_str(v)
         /\ kind = "rg" => Contract!PushFault(v) = elem(v)
         /\ kind = "sc" => Contract!PushFault(v) = (elem(v) ?? room(kind, Cardinality(Held \cup {v})))
         /\ kind = "pq" => Contract!PushFault(v) = (plain(v) ?? room(kind, Contract!Count + 1))
         /\ kind \in {"ls", "qu"} => Contract!PushFault(v) = (elem(v) ?? room(kind, Contract!Count + 1))
BY SameWords, SameCardinality DEF Contract!PushFault

LEMMA ContractPushed ==
  \A v : /\ kind = "bm" => Contract!Pushed(v) = Held \cup {Hash(v[2]) % size}
         /\ kind = "sc" => Contract!Pushed(v) = Held \cup {v}
         /\ kind = "rg" => Contract!Pushed(v) =
              IF Len(Append(Held, v)) > size THEN Tail(Append(Held, v)) ELSE Append(Held, v)
         /\ kind \in {"ls", "qu"} => Contract!Pushed(v) = Append(Held, v)
         /\ kind = "pq" => Contract!Pushed(v) = Contract!(+)(Held, Contract!SetToBag({v[2]}))
BY DEF Contract!Pushed

LEMMA ContractPop ==
  \A x :
    LET fault == Unless(TYPE_MISMATCH, kind \in POP) ?? excl(x, freed) ?? Unless(BOUNDS, Contract!Count > 0)
    IN  /\ kind = "ls" => (Contract!Pop(x) <=> Wants("po", fault, Front(Held), Last(Held)))
        /\ kind \in {"qu", "rg"} => (Contract!Pop(x) <=> Wants("po", fault, Tail(Held), Head(Held)))
        /\ kind = "pq" =>
             (Contract!Pop(x) <=>
                Wants("po", fault, Contract!(-)(Held, Contract!SetToBag({Contract!Least(Held)})),
                      Int_(Contract!Least(Held))))
BY SameWords, WantsIs DEF Contract!Pop, Contract!POP, POP, Contract!Front, Front, Contract!Last, Last

PutWants(k, v, x, checks) ==
  /\ kind = "bv" =>
       (Contract!Put(k, v, x) <=>
          Wants("pt", checks ?? (plain(k) ?? Index(v, 2) ?? Index(k, size)),
                [Held EXCEPT ![k[2]] = v[2]], None))
  /\ kind = "te" =>
       (Contract!Put(k, v, x) <=>
          Wants("pt", checks ?? (key_str(k) ?? elem(v)
                   ?? room(kind, Cardinality(Contract!Keys(Held) \cup {k[2]}))),
                {p \in Held : p[1] # k[2]} \cup {<<k[2], v>>}, None))
  /\ kind = "mp" =>
       (Contract!Put(k, v, x) <=>
          Wants("pt", checks ?? (key_str(k) ?? elem(v)
                   ?? room(kind, Cardinality(Contract!Keys(ToSet(Held)) \cup {k[2]}))),
                Contract!MapPut(k[2], v), None))
  /\ kind \notin {"bv", "te", "mp", "ti"} =>
       (Contract!Put(k, v, x) <=> Wants("pt", checks ?? TYPE_MISMATCH, {}, None))

LEMMA ContractPut == \A k, v, x : PutWants(k, v, x, excl(x, freed))
<1> SUFFICES ASSUME NEW k, NEW v, NEW x
             PROVE  PutWants(k, v, x, excl(x, freed))
  OBVIOUS
<1> DEFINE checks == excl(x, freed)
           keys == Contract!Keys(Contract!Pairs)
           fault == CASE kind = "bv" -> plain(k) ?? Index(v, 2) ?? Index(k, size)
                      [] kind \in {"mp", "te"} ->
                           key_str(k) ?? elem(v) ?? room(kind, Cardinality(keys \cup {k[2]}))
                      [] OTHER -> TYPE_MISMATCH
           cell == [Held EXCEPT ![k[2]] = v[2]]
           pairs == {p \in Held : p[1] # k[2]} \cup {<<k[2], v>>}
           mapped == Contract!MapPut(k[2], v)
           changed == CASE kind = "bv" -> cell
                        [] kind = "te" -> pairs
                        [] kind = "mp" -> mapped
<1>1. Contract!Put(k, v, x) <=> kind # "ti" /\ Contract!Answer("pt", checks ?? fault, changed, None)
  BY SameWords, SameCardinality DEF Contract!Put
<1>2. /\ kind = "mp" => keys = Contract!Keys(ToSet(Held))
      /\ kind # "mp" => keys = Contract!Keys(Held)
  BY DEF Contract!Pairs, Contract!ToSet, ToSet
<1>. HIDE DEF keys, checks
<1>3. /\ kind = "bv" => fault = (plain(k) ?? Index(v, 2) ?? Index(k, size))
      /\ kind \in {"mp", "te"} => fault = (key_str(k) ?? elem(v) ?? room(kind, Cardinality(keys \cup {k[2]})))
      /\ kind \notin {"bv", "te", "mp"} => fault = TYPE_MISMATCH
  OBVIOUS
<1>. HIDE DEF cell, pairs, mapped
<1>4. /\ kind = "bv" => changed = cell
      /\ kind = "te" => changed = pairs
      /\ kind = "mp" => changed = mapped
  OBVIOUS
<1>. HIDE DEF fault, changed
<1>5. Contract!Put(k, v, x) <=> kind # "ti" /\ Wants("pt", checks ?? fault, changed, None)
  BY <1>1, WantsIs
<1>6. kind \notin {"bv", "te", "mp"} => (checks ?? fault) # Fine
  BY <1>3, BothPass, Passes
<1>. HIDE DEF checks
<1>7. kind = "bv" => PutWants(k, v, x, checks)
  BY <1>3, <1>4, <1>5 DEF PutWants, cell
<1>8. kind = "te" => PutWants(k, v, x, checks)
  BY <1>2, <1>3, <1>4, <1>5 DEF PutWants, pairs
<1>9. kind = "mp" => PutWants(k, v, x, checks)
  BY <1>2, <1>3, <1>4, <1>5 DEF PutWants, mapped
<1>10. kind \notin {"bv", "te", "mp"} => PutWants(k, v, x, checks)
  BY <1>3, <1>5, <1>6, Refuses DEF PutWants
<1>. QED
  BY <1>7, <1>8, <1>9, <1>10 DEF checks

LEMMA ContractPutWord ==
  \A k, x :
    kind = "ti" =>
      (Contract!PutWord(k, x) <=>
         Wants("pt", excl(x, freed) ?? key_str(k) ?? room(kind, Cardinality(Held \cup {k[2]})),
               Held \cup {k[2]}, None))
BY SameWords, SameCardinality, WantsIs DEF Contract!PutWord

LEMMA ContractCount ==
  /\ kind \in {"ls", "qu", "rg", "mp"} => Contract!Count = Len(Held)
  /\ kind \in {"sc", "ti", "te"} => Contract!Count = Cardinality(Held)
  /\ kind = "pq" => Contract!Count = Cardinality(Contract!Copies(Held))
  /\ kind \in {"bm", "bv"} => Contract!Count = size
BY SameCardinality DEF Contract!Count

-----------------------------------------------------------------------------
(* Lists, queues, rings and sets are stored as what they stand for.        *)
RowKinds == {"ls", "qu", "rg"}

Rows ==
  /\ kind \in RowKinds => body \in Seq(Operand)
  /\ kind = "rg" => size \in Int /\ size >= 1 /\ Len(body) <= size

LEMMA PushRow ==
  ASSUME kind \in RowKinds \cup {"sc"}, Rows, NEW v \in Operands[kind], NEW x, b_ps(v, x)
  PROVE  Contract!Push(v, x) /\ Rows'
<1>1. kind \in Kinds /\ v \in Operand /\ kind \in PUSH
  BY OperandAssumption DEF RowKinds, Kinds, PUSH
<1>2. UNCHANGED <<kind, size, freed>>
  BY DEF b_ps
<1>3. Held = body /\ Held' = body'
  BY <1>2, HeldIs, HeldNext DEF Shows, RowKinds
<1> DEFINE checks == Unless(TYPE_MISMATCH, kind \in PUSH) ?? excl(x, freed)
<1>4. Contract!Push(v, x) <=> Wants("ps", checks ?? Contract!PushFault(v), Contract!Pushed(v), None)
  BY ContractPush
<1>. HIDE DEF checks
<1>5. CASE kind \in {"ls", "qu"}
  <2> DEFINE fault == checks ?? (elem(v) ?? room(kind, Len(body) + 1))
  <2>1. Answer("ps", fault, Append(body, v), None)
    BY <1>5 DEF b_ps, checks
  <2>2. Contract!PushFault(v) = (elem(v) ?? room(kind, Len(body) + 1)) /\ Contract!Pushed(v) = Append(Held, v)
    BY <1>3, <1>5, ContractPushFault, ContractPushed, ContractCount
  <2>3. Wants("ps", fault, Append(Held, v), None)
    BY <1>2, <1>3, <2>1, Follows
  <2>4. body' \in Seq(Operand)
    BY <1>1, <1>5, <2>1 DEF Answer, Rows, RowKinds
  <2>. QED
    BY <1>2, <1>4, <1>5, <2>2, <2>3, <2>4 DEF Rows
<1>6. CASE kind = "sc"
  <2> DEFINE fault == checks ?? (elem(v) ?? room(kind, Cardinality(body \cup {v})))
  <2>1. Answer("ps", fault, body \cup {v}, None)
    BY <1>6 DEF b_ps, checks
  <2>2. Contract!PushFault(v) = (elem(v) ?? room(kind, Cardinality(body \cup {v}))) /\ Contract!Pushed(v) = Held \cup {v}
    BY <1>3, <1>6, ContractPushFault, ContractPushed
  <2>3. Wants("ps", fault, Held \cup {v}, None)
    BY <1>2, <1>3, <2>1, Follows
  <2>. QED
    BY <1>2, <1>4, <1>6, <2>2, <2>3 DEF Rows, RowKinds
<1>7. CASE kind = "rg"
  <2> DEFINE fault == checks ?? elem(v)
             longer == Append(body, v)
             next == IF Len(body) = size THEN Tail(longer) ELSE longer
  <2>1. Answer("ps", fault, next, None)
    BY <1>7 DEF b_ps, checks
  <2>2. PICK n \in Nat : n = Len(body) /\ n <= size /\ size \in Int
    BY <1>7 DEF Rows, RowKinds
  <2>3. longer \in Seq(Operand) /\ longer # <<>> /\ Len(longer) = n + 1
    BY <1>1, <1>7, <2>2 DEF Rows, RowKinds
  <2>4. Tail(longer) \in Seq(Operand) /\ Len(Tail(longer)) = n
    BY <2>3
  <2>5. Contract!PushFault(v) = elem(v) /\ Contract!Pushed(v) = (IF Len(longer) > size THEN Tail(longer) ELSE longer)
    BY <1>3, <1>7, ContractPushFault, ContractPushed
  <2>6. Len(longer) > size <=> Len(body) = size
    BY <2>2, <2>3
  <2>7. Contract!Pushed(v) = next
    BY <2>5, <2>6
  <2>8. next \in Seq(Operand) /\ Len(next) <= size
    BY <2>2, <2>3, <2>4
  <2>. HIDE DEF next, longer
  <2>9. Wants("ps", fault, next, None)
    BY <1>2, <1>3, <2>1, Follows
  <2>10. Rows'
    BY <1>2, <1>7, <2>1, <2>8 DEF Answer, Rows, RowKinds
  <2>. QED
    BY <1>4, <2>5, <2>7, <2>9, <2>10
<1>. QED
  BY <1>5, <1>6, <1>7 DEF RowKinds

LEMMA PopRow ==
  ASSUME kind \in RowKinds, Rows, NEW x, b_po(x)
  PROVE  Contract!Pop(x) /\ Rows'
<1>1. UNCHANGED <<kind, size, freed>> /\ kind # "pq"
  BY DEF b_po, Keep, RowKinds
<1>2. Held = body /\ Held' = body'
  BY <1>1, HeldIs, HeldNext DEF Shows, RowKinds
<1>3. body \in Seq(Operand) /\ (Contract!Count > 0 <=> body # <<>>)
  <2>1. body \in Seq(Operand) /\ Contract!Count = Len(body)
    BY <1>2, ContractCount DEF Rows, RowKinds
  <2>2. Len(body) \in Nat /\ (Len(body) = 0 <=> body = <<>>)
    BY <2>1
  <2>. QED
    BY <2>1, <2>2
<1> DEFINE checks == Unless(TYPE_MISMATCH, kind \in POP) ?? excl(x, freed)
           fault == checks ?? Unless(BOUNDS, body # <<>>)
           less == IF kind = "ls" THEN Front(body) ELSE Tail(body)
           value == IF kind = "ls" THEN Last(body) ELSE Head(body)
<1>4. Answer("po", fault, less, value)
  BY <1>1 DEF b_po
<1>5. fault = (checks ?? Unless(BOUNDS, Contract!Count > 0))
  BY <1>3
<1>6. Contract!Pop(x) <=> Wants("po", fault, less, value)
  BY <1>2, <1>5, ContractPop DEF RowKinds
<1>7. fault = Fine => less \in Seq(Operand) /\ Len(less) <= Len(body)
  <2>1. fault = Fine => body # <<>>
    <3>. HIDE DEF checks
    <3>1. fault = Fine => Unless(BOUNDS, body # <<>>) = Fine
      BY BothPass
    <3>. QED
      BY <3>1, Passes
  <2>2. ASSUME body # <<>> PROVE less \in Seq(Operand) /\ Len(less) <= Len(body)
    <3>1. PICK n \in Nat : n = Len(body) /\ n >= 1
      BY <1>3, <2>2
    <3>2. Tail(body) \in Seq(Operand) /\ Len(Tail(body)) = n - 1
      BY <1>3, <2>2, <3>1
    <3>3. Front(body) \in Seq(Operand) /\ Len(Front(body)) = n - 1
      BY <1>3, <2>2, <3>1 DEF Front
    <3>. QED
      BY <3>1, <3>2, <3>3
  <2>. QED
    BY <2>1, <2>2
<1>. HIDE DEF fault, less, value
<1>8. Wants("po", fault, less, value)
  BY <1>1, <1>2, <1>4, Follows
<1>9. body' \in Seq(Operand) /\ (kind = "rg" => Len(body') <= size)
  <2>1. CASE fault = Fine
    <3>1. body' = less
      BY <1>4, <2>1 DEF Answer
    <3>2. PICK n \in Nat : n = Len(body)
      BY <1>3
    <3>3. less \in Seq(Operand) /\ Len(less) <= n /\ Len(less) \in Nat
      BY <1>7, <2>1, <3>2
    <3>4. kind = "rg" => n <= size /\ size \in Int
      BY <3>2 DEF Rows
    <3>. QED
      BY <3>1, <3>2, <3>3, <3>4
  <2>2. CASE fault # Fine
    BY <1>3, <1>4, <2>2 DEF Answer, Rows
  <2>. QED
    BY <2>1, <2>2
<1>. QED
  BY <1>1, <1>6, <1>8, <1>9 DEF Rows

-----------------------------------------------------------------------------
(* Bit vectors and filters.                                                *)
Bits == kind \in {"bm", "bv"} => size \in Nat \ {0} /\ body \in Packed(size)

LEMMA PushBit ==
  ASSUME kind = "bm", Bits, NEW v \in Operands["bm"], NEW x, b_ps(v, x)
  PROVE  Contract!Push(v, x) /\ Bits'
<1>1. UNCHANGED <<kind, size, freed>> /\ size \in Nat \ {0} /\ body \in Packed(size)
  BY DEF b_ps, Bits
<1>2. Held = HitsOf(body, size) /\ Held' = HitsOf(body', size)
  BY <1>1, HeldIs, HeldNext DEF Shows
<1> DEFINE checks == Unless(TYPE_MISMATCH, kind \in PUSH) ?? excl(x, freed)
           fault == checks ?? key_str(v)
<1>3. Contract!Push(v, x) <=> Wants("ps", fault, Held \cup {Hash(v[2]) % size}, None)
  BY ContractPush, ContractPushFault, ContractPushed
<1>4. Answer("ps", fault, SetBit(body, Hash(v[2]) % size), None)
  BY DEF b_ps
<1>. HIDE DEF checks
<1>5. CASE fault = Fine
  <2>1. IsStr(v)
    BY <1>5, BothPass, ChecksPass DEF IsWord
  <2>2. Hash(v[2]) \in Nat
    BY <2>1, OperandAssumption
  <2>3. Hash(v[2]) % size \in 0..size - 1
    BY <1>1, <2>2
  <2>4. PICK c \in 0..size - 1 : c = Hash(v[2]) % size
    BY <2>3
  <2>5. body' = SetBit(body, c)
    BY <1>4, <1>5, <2>4 DEF Answer
  <2>6. /\ SetBit(body, c) \in Packed(size)
        /\ \A j \in 0..size - 1 : Bit(SetBit(body, c), j) = (IF j = c THEN 1 ELSE Bit(body, j))
    BY <1>1, BitsHold
  <2>7. HitsOf(body', size) = HitsOf(body, size) \cup {c}
    BY <2>5, <2>6 DEF HitsOf
  <2>8. Wants("ps", fault, Held \cup {c}, None)
    BY <1>2, <1>4, <1>5, <2>7 DEF Answer, Wants
  <2>. QED
    BY <1>1, <1>3, <2>4, <2>5, <2>6, <2>8 DEF Bits
<1>6. CASE fault # Fine
  <2>1. body' = body /\ Wants("ps", fault, Held \cup {Hash(v[2]) % size}, None)
    BY <1>2, <1>4, <1>6 DEF Answer, Wants
  <2>. QED
    BY <1>1, <1>3, <2>1 DEF Bits
<1>. QED
  BY <1>5, <1>6

LEMMA PutBit ==
  ASSUME kind = "bv", Bits, NEW k \in Operands["bv"], NEW v \in Values["bv"], NEW x, b_pt(k, v, x)
  PROVE  Contract!Put(k, v, x) /\ Bits'
<1>1. UNCHANGED <<kind, size, freed>> /\ size \in Nat \ {0} /\ body \in Packed(size)
  BY DEF b_pt, Keep, Bits
<1>2. Held = VectorOf(body, size) /\ Held' = VectorOf(body', size)
  BY <1>1, HeldIs, HeldNext DEF Shows
<1> DEFINE checks == excl(x, freed)
           fault == checks ?? (plain(k) ?? Index(v, 2) ?? Index(k, size))
           next == CASE kind = "bv" /\ v[2] = 1 -> SetBit(body, k[2])
                     [] kind = "bv" /\ v[2] = 0 -> ClearBit(body, k[2])
                     [] kind = "mp" -> MapPut(body, k[2], v)
                     [] kind = "te" -> tree_put(body, <<k[2], v>>)
           holds == [Held EXCEPT ![k[2]] = v[2]]
<1>3. Contract!Put(k, v, x) <=> Wants("pt", fault, holds, None)
  BY ContractPut DEF PutWants
<1>4. Answer("pt", fault, next, None)
  BY DEF b_pt
<1>5. fault = Fine => k[2] \in 0..size - 1 /\ v[2] \in 0..1
  <2>. HIDE DEF checks
  <2>1. fault = Fine => Index(v, 2) = Fine /\ Index(k, size) = Fine
    BY BothPass
  <2>. QED
    BY <2>1, ChecksPass
<1>6. /\ v[2] = 1 => next = SetBit(body, k[2])
      /\ v[2] = 0 => next = ClearBit(body, k[2])
  OBVIOUS
<1>. HIDE DEF fault, next, checks
<1>7. CASE fault = Fine
  <2>1. PICK i \in 0..size - 1 : i = k[2]
    BY <1>5, <1>7
  <2>2. PICK w \in 0..1 : w = v[2]
    BY <1>5, <1>7
  <2>3. body' = next
    BY <1>4, <1>7 DEF Answer
  <2>4. /\ w = 1 => body' = SetBit(body, i)
        /\ w = 0 => body' = ClearBit(body, i)
    BY <1>6, <2>1, <2>2, <2>3
  <2>5. w = 0 \/ w = 1
    OBVIOUS
  <2>6. /\ SetBit(body, i) \in Packed(size) /\ ClearBit(body, i) \in Packed(size)
        /\ \A j \in 0..size - 1 :
              /\ Bit(SetBit(body, i), j) = (IF j = i THEN 1 ELSE Bit(body, j))
              /\ Bit(ClearBit(body, i), j) = (IF j = i THEN 0 ELSE Bit(body, j))
    BY <1>1, BitsHold
  <2>7. body' \in Packed(size) /\ \A j \in 0..size - 1 : Bit(body', j) = (IF j = i THEN w ELSE Bit(body, j))
    BY <2>4, <2>5, <2>6
  <2>8. VectorOf(body', size) = [VectorOf(body, size) EXCEPT ![i] = w]
    BY <2>7 DEF VectorOf
  <2>9. Held' = holds
    BY <1>2, <2>1, <2>2, <2>8
  <2>10. Wants("pt", fault, holds, None)
    BY <1>4, <1>7, <2>9 DEF Answer, Wants
  <2>. QED
    BY <1>1, <1>3, <2>7, <2>10 DEF Bits
<1>8. CASE fault # Fine
  <2>1. body' = body /\ Wants("pt", fault, holds, None)
    BY <1>2, <1>4, <1>8 DEF Answer, Wants
  <2>. QED
    BY <1>1, <1>3, <2>1 DEF Bits
<1>. QED
  BY <1>7, <1>8

-----------------------------------------------------------------------------
(* Maps: the keys in the order they were first put, and the values.        *)
Injected(s) == \A i, j \in 1..Len(s) : s[i] = s[j] => i = j

MapGood(b) ==
  /\ b = [order |-> b.order, pairs |-> b.pairs]
  /\ b.order \in Seq(Word) /\ Injected(b.order)
  /\ b.pairs \in [ToSet(b.order) -> Operand]
  /\ Len(b.order) <= BufMax["mp"]

Maps == kind = "mp" => MapGood(body)

LEMMA InjectedCount ==
  ASSUME NEW S, NEW s \in Seq(S), Injected(s)
  PROVE  IsFiniteSet(ToSet(s)) /\ Cardinality(ToSet(s)) = Len(s)
<1>1. PICK n \in Nat : n = Len(s)
  OBVIOUS
<1>2. DOMAIN s = 1..n /\ \A i \in 1..n : s[i] \in S
  BY <1>1
<1>3. s \in Injection(1..n, ToSet(s))
  BY <1>1, <1>2 DEF Injection, IsInjective, ToSet, Injected
<1>4. s \in Surjection(1..n, ToSet(s))
  BY <1>1, <1>2 DEF Surjection, ToSet
<1>5. IsFiniteSet(1..n) /\ Cardinality(1..n) = n
  BY FS_Interval
<1>. QED
  BY <1>1, <1>3, <1>4, <1>5, FS_Surjection

(* What a map shows, and how many keys it has with one more.               *)
LEMMA MapShows ==
  ASSUME NEW b, MapGood(b), NEW k
  PROVE  LET keys == Contract!Keys(ToSet(PairsOf(b)))
         IN  /\ keys = ToSet(b.order) /\ keys = DOMAIN b.pairs
             /\ Cardinality(keys \cup {k}) = IF k \in DOMAIN b.pairs THEN Len(b.order)
                                             ELSE Len(b.order) + 1
<1>1. PICK n \in Nat : n = Len(b.order)
  BY DEF MapGood
<1>2. DOMAIN b.order = 1..n /\ b.order \in Seq(Word)
  BY <1>1 DEF MapGood
<1>3. PairsOf(b) = [i \in 1..n |-> <<b.order[i], b.pairs[b.order[i]]>>]
  BY <1>2 DEF PairsOf
<1>4. Contract!Keys(ToSet(PairsOf(b))) = ToSet(b.order)
  BY <1>2, <1>3 DEF Contract!Keys, ToSet
<1>5. DOMAIN b.pairs = ToSet(b.order)
  BY DEF MapGood
<1>6. IsFiniteSet(ToSet(b.order)) /\ Cardinality(ToSet(b.order)) = n
  BY <1>1, <1>2, InjectedCount DEF MapGood
<1>7. Cardinality(ToSet(b.order) \cup {k}) = IF k \in ToSet(b.order) THEN n ELSE n + 1
  BY <1>6, FS_AddElement
<1>. QED
  BY <1>1, <1>4, <1>5, <1>7

LEMMA MapPuts ==
  ASSUME NEW b, MapGood(b), NEW k \in Word, NEW v \in Operand
  PROVE  LET next == MapPut(b, k, v)
             held == PairsOf(b)
         IN  /\ k \in DOMAIN b.pairs \/ Len(b.order) + 1 <= BufMax["mp"] => MapGood(next)
             /\ k \in DOMAIN b.pairs => PairsOf(next) = [i \in DOMAIN held |-> IF held[i][1] = k THEN <<k, v>> ELSE held[i]]
             /\ k \notin DOMAIN b.pairs => PairsOf(next) = Append(held, <<k, v>>)
<1> DEFINE D == ToSet(b.order)
<1>0. PICK n \in Nat, o \in Seq(Word) : n = Len(o) /\ o = b.order
  BY DEF MapGood
<1>. PICK f \in [D -> Operand] : f = b.pairs
  BY DEF MapGood
<1>1. /\ n = Len(o) /\ o = b.order /\ f = b.pairs
      /\ D = ToSet(o) /\ Injected(o) /\ n <= BufMax["mp"]
  BY <1>0 DEF MapGood
<1>. HIDE DEF D
<1>2. DOMAIN o = 1..n /\ (\A i \in 1..n : o[i] \in Word /\ o[i] \in D) /\ D \subseteq Word
  BY <1>1 DEF ToSet
<1>3. PICK g \in [D \cup {k} -> Operand] : g = [d \in D \cup {k} |-> IF d = k THEN v ELSE f[d]]
  OBVIOUS
<1>4. PICK next : next = MapPut(b, k, v)
  OBVIOUS
<1>5. PICK held : held = PairsOf(b)
  OBVIOUS
<1>6. held = [i \in 1..n |-> <<o[i], f[o[i]]>>]
  BY <1>1, <1>2, <1>5 DEF PairsOf
<1>7. DOMAIN b.pairs = D
  BY <1>1
<1>8. next = [order |-> IF k \in D THEN o ELSE Append(o, k), pairs |-> g]
  BY <1>1, <1>3, <1>4, <1>7 DEF MapPut
<1>9. CASE k \in D
  <2>1. next.order = o /\ next.pairs = g /\ next = [order |-> o, pairs |-> g]
    BY <1>8, <1>9
  <2>2. D \cup {k} = D
    BY <1>9
  <2>3. MapGood(next)
    BY <1>1, <1>3, <2>1, <2>2 DEF MapGood
  <2>4. PairsOf(next) = [i \in 1..n |-> <<o[i], g[o[i]]>>]
    BY <1>2, <2>1 DEF PairsOf
  <2>5. \A i \in 1..n : <<o[i], g[o[i]]>> = IF held[i][1] = k THEN <<k, v>> ELSE held[i]
    BY <1>2, <1>3, <1>6
  <2>6. DOMAIN held = 1..n
    BY <1>6
  <2>7. PairsOf(next) = [i \in DOMAIN held |-> IF held[i][1] = k THEN <<k, v>> ELSE held[i]]
    BY <2>4, <2>5, <2>6
  <2>. QED
    BY <1>4, <1>5, <1>7, <1>9, <2>3, <2>7
<1>10. CASE k \notin D
  <2>1. PICK o2 : o2 = Append(o, k)
    OBVIOUS
  <2>2. next.order = o2 /\ next.pairs = g /\ next = [order |-> o2, pairs |-> g]
    BY <1>8, <1>10, <2>1
  <2>3. o2 \in Seq(Word) /\ Len(o2) = n + 1 /\ DOMAIN o2 = 1..n + 1
        /\ (\A i \in 1..n : o2[i] = o[i]) /\ o2[n + 1] = k
    BY <1>1, <1>2, <2>1
  <2>4. Injected(o2)
    <3> SUFFICES ASSUME NEW i \in 1..n + 1, NEW j \in 1..n + 1, o2[i] = o2[j] PROVE i = j
      BY <2>3 DEF Injected
    <3>1. \A m \in 1..n : o2[m] # k
      BY <1>2, <1>10, <2>3
    <3>2. (i \in 1..n \/ i = n + 1) /\ (j \in 1..n \/ j = n + 1)
      OBVIOUS
    <3>3. i \in 1..n /\ j \in 1..n => i = j
      BY <1>1, <2>3 DEF Injected
    <3>. QED
      BY <2>3, <3>1, <3>2, <3>3
  <2>5. ToSet(o2) = D \cup {k}
    <3>1. \A d : d \in ToSet(o2) <=> \E i \in 1..n + 1 : d = o2[i]
      BY <2>3 DEF ToSet
    <3>2. \A d : d \in D <=> \E i \in 1..n : d = o[i]
      BY <1>1, <1>2 DEF ToSet
    <3>3. \A i \in 1..n + 1 : i \in 1..n \/ i = n + 1
      OBVIOUS
    <3>4. n + 1 \in 1..n + 1 /\ \A i \in 1..n : i \in 1..n + 1
      OBVIOUS
    <3>5. ASSUME NEW d PROVE d \in ToSet(o2) <=> d \in D \cup {k}
      BY <2>3, <3>1, <3>2, <3>3, <3>4
    <3>. QED
      BY <3>5
  <2>6. n + 1 <= BufMax["mp"] => MapGood(next)
    BY <1>3, <2>2, <2>3, <2>4, <2>5 DEF MapGood
  <2>7. PairsOf(next) = [i \in 1..n + 1 |-> <<o2[i], g[o2[i]]>>]
    BY <2>2, <2>3 DEF PairsOf
  <2>8. held \in [1..n -> Word \X Operand]
    BY <1>1, <1>2, <1>6
  <2>9. held \in Seq(Word \X Operand) /\ Len(held) = n
    BY <2>8, AsSeq
  <2>10. <<k, v>> \in Word \X Operand
    OBVIOUS
  <2>11. PICK e \in Word \X Operand : e = <<k, v>>
    BY <2>10
  <2>12. PICK longer : longer = Append(held, e)
    OBVIOUS
  <2>13. longer \in Seq(Word \X Operand) /\ Len(longer) = n + 1
         /\ (\A i \in 1..n : longer[i] = held[i]) /\ longer[n + 1] = e
    BY <2>9, <2>12
  <2>14. PICK shown : shown = PairsOf(next)
    OBVIOUS
  <2>15. shown \in [1..n + 1 -> Word \X Operand]
    <3>1. \A i \in 1..n + 1 : o2[i] \in Word /\ g[o2[i]] \in Operand
      BY <1>2, <1>3, <2>3, <2>5 DEF ToSet
    <3>. QED
      BY <2>7, <2>14, <3>1
  <2>16. shown \in Seq(Word \X Operand) /\ Len(shown) = n + 1
    <3>1. n + 1 \in Nat
      OBVIOUS
    <3>. QED
      BY <2>15, <3>1, AsSeq
  <2>17. ASSUME NEW i \in 1..n + 1 PROVE shown[i] = longer[i]
    <3>1. shown[i] = <<o2[i], g[o2[i]]>>
      BY <2>7, <2>14
    <3>2. CASE i \in 1..n
      <4>1. o2[i] = o[i] /\ o[i] \in D /\ o[i] # k
        BY <1>2, <1>10, <2>3, <3>2
      <4>2. g[o[i]] = f[o[i]]
        BY <1>3, <4>1
      <4>3. held[i] = <<o[i], f[o[i]]>>
        BY <1>6, <3>2
      <4>. QED
        BY <2>13, <3>1, <3>2, <4>1, <4>2, <4>3
    <3>3. CASE i = n + 1
      <4>1. o2[i] = k /\ g[k] = v
        BY <1>3, <2>3, <3>3
      <4>. QED
        BY <2>11, <2>13, <3>1, <3>3, <4>1
    <3>. QED
      BY <3>2, <3>3
  <2>18. shown = longer
    BY <2>13, <2>16, <2>17, SeqEqual
  <2>. QED
    BY <1>1, <1>4, <1>5, <1>7, <1>10, <2>6, <2>11, <2>12, <2>14, <2>18
<1>. QED
  BY <1>9, <1>10

LEMMA PutMap ==
  ASSUME kind = "mp", Maps, NEW k \in Operands["mp"], NEW v \in Values["mp"], NEW x, b_pt(k, v, x)
  PROVE  Contract!Put(k, v, x) /\ Maps'
<1>1. UNCHANGED <<kind, size, freed>> /\ MapGood(body) /\ k \in Operand /\ v \in Operand
  BY OperandAssumption DEF b_pt, Keep, Maps, Kinds
<1>2. Held = PairsOf(body) /\ Held' = PairsOf(body')
  BY <1>1, HeldIs, HeldNext DEF Shows
<1> DEFINE there == k[2] \in DOMAIN body.pairs
           keys == Contract!Keys(ToSet(PairsOf(body)))
           checks == key_str(k) ?? elem(v)
           fault == excl(x, freed) ?? (checks ?? Unless(BOUNDS, there \/ Len(body.order) + 1 <= BufMax["mp"]))
           next == CASE kind = "bv" /\ v[2] = 1 -> SetBit(body, k[2])
                     [] kind = "bv" /\ v[2] = 0 -> ClearBit(body, k[2])
                     [] kind = "mp" -> MapPut(body, k[2], v)
                     [] kind = "te" -> tree_put(body, <<k[2], v>>)
           holds == Contract!MapPut(k[2], v)
<1>3. next = MapPut(body, k[2], v)
  OBVIOUS
<1>4. Answer("pt", fault, next, None)
  BY DEF b_pt
<1>5. keys = DOMAIN body.pairs /\ Cardinality(keys \cup {k[2]}) = IF there THEN Len(body.order) ELSE Len(body.order) + 1
  BY <1>1, MapShows
<1>6. Len(body.order) <= BufMax["mp"] /\ Len(body.order) \in Nat /\ BufMax["mp"] \in Nat
  BY <1>1, CollAssumption DEF MapGood, Kinds
<1>7. room(kind, Cardinality(keys \cup {k[2]})) = Unless(BOUNDS, there \/ Len(body.order) + 1 <= BufMax["mp"])
  <2>. PICK c : c = Cardinality(keys \cup {k[2]})
    OBVIOUS
  <2>1. c = IF there THEN Len(body.order) ELSE Len(body.order) + 1
    BY <1>5
  <2>. HIDE DEF there
  <2>2. c <= BufMax["mp"] <=> (there \/ Len(body.order) + 1 <= BufMax["mp"])
    BY <1>6, <2>1
  <2>. QED
    BY <2>2 DEF room
<1>8. Contract!Put(k, v, x) <=> Wants("pt", fault, holds, None)
  BY <1>2, <1>7, ContractPut DEF PutWants
<1>9. holds = IF there THEN [i \in DOMAIN Held |-> IF Held[i][1] = k[2] THEN <<k[2], v>> ELSE Held[i]]
              ELSE Append(Held, <<k[2], v>>)
  BY <1>2, <1>5 DEF Contract!MapPut, Contract!Pairs, Contract!ToSet, ToSet
<1>10. fault = Fine => IsWord(k) /\ (there \/ Len(body.order) + 1 <= BufMax["mp"])
  <2>. HIDE DEF there
  <2>. PICK fits : fits = (there \/ Len(body.order) + 1 <= BufMax["mp"])
    OBVIOUS
  <2>1. fault = Fine => key_str(k) = Fine /\ Unless(BOUNDS, fits) = Fine
    BY BothPass
  <2>. QED
    BY <2>1, ChecksPass, Passes
<1>. HIDE DEF fault, next, checks, holds, keys, there
<1>11. CASE fault = Fine
  <2>1. PICK w \in Word : w = k[2]
    BY <1>1, <1>10, <1>11, OperandIs DEF IsWord, Word
  <2>2. body' = MapPut(body, w, v)
    BY <1>3, <1>4, <1>11, <2>1 DEF Answer
  <2>3. PICK next2 : next2 = MapPut(body, w, v)
    OBVIOUS
  <2>4. PICK held : held = Held /\ held = PairsOf(body)
    BY <1>2
  <2>5. there <=> w \in DOMAIN body.pairs
    BY <2>1 DEF there
  <2>6. v \in Operand /\ (w \in DOMAIN body.pairs \/ Len(body.order) + 1 <= BufMax["mp"])
    BY <1>1, <1>10, <1>11, <2>5
  <2>7. /\ MapGood(next2)
        /\ w \in DOMAIN body.pairs => PairsOf(next2) =
             [i \in DOMAIN held |-> IF held[i][1] = w THEN <<w, v>> ELSE held[i]]
        /\ w \notin DOMAIN body.pairs => PairsOf(next2) = Append(held, <<w, v>>)
    BY <1>1, <2>3, <2>4, <2>6, MapPuts
  <2>8. holds = IF w \in DOMAIN body.pairs
                THEN [i \in DOMAIN held |-> IF held[i][1] = w THEN <<w, v>> ELSE held[i]]
                ELSE Append(held, <<w, v>>)
    BY <1>9, <2>1, <2>4, <2>5
  <2>9. Held' = holds
    BY <1>2, <2>2, <2>3, <2>7, <2>8
  <2>10. Wants("pt", fault, holds, None)
    BY <1>4, <1>11, <2>9 DEF Answer, Wants
  <2>. QED
    BY <1>1, <1>8, <2>2, <2>3, <2>7, <2>10 DEF Maps
<1>12. CASE fault # Fine
  <2>1. body' = body /\ Wants("pt", fault, holds, None)
    BY <1>2, <1>4, <1>12 DEF Answer, Wants
  <2>. QED
    BY <1>1, <1>8, <2>1 DEF Maps
<1>. QED
  BY <1>11, <1>12

-----------------------------------------------------------------------------
(* Sorting: a finite set with a strict total order has one list in which   *)
(* each member is less than the next.                                      *)
StrictOrder(S, R) ==
  /\ \A x \in S : <<x, x>> \notin R
  /\ \A x, y, z \in S : <<x, y>> \in R /\ <<y, z>> \in R => <<x, z>> \in R
  /\ \A x, y \in S : x = y \/ <<x, y>> \in R \/ <<y, x>> \in R

Ascends(s, R) == \A i, j \in 1..Len(s) : i < j => <<s[i], s[j]>> \in R
Lists(s, S, R) == s \in Seq(S) /\ ToSet(s) = S /\ Ascends(s, R)

Lesser(S, R, x) == {y \in S : <<y, x>> \in R}
Rank(S, R, x) == Cardinality(Lesser(S, R, x))

LEMMA RankGrows ==
  ASSUME NEW S, IsFiniteSet(S), NEW R, StrictOrder(S, R), NEW x \in S, NEW y \in S, <<x, y>> \in R
  PROVE  Rank(S, R, x) \in Nat /\ Rank(S, R, y) \in Nat /\ Rank(S, R, x) < Rank(S, R, y)
<1>. PICK A : A = Lesser(S, R, x)
  OBVIOUS
<1>. PICK B : B = Lesser(S, R, y)
  OBVIOUS
<1>1. A \subseteq B /\ x \in B /\ x \notin A /\ B \in SUBSET S
  BY DEF Lesser, StrictOrder
<1>2. IsFiniteSet(B)
  BY <1>1, FS_Subset
<1>3. IsFiniteSet(A) /\ Cardinality(A) <= Cardinality(B) /\ (Cardinality(B) = Cardinality(A) => B = A)
  BY <1>1, <1>2, FS_Subset
<1>4. Cardinality(A) \in Nat /\ Cardinality(B) \in Nat /\ A # B
  BY <1>1, <1>2, <1>3, FS_CardinalityType
<1>. QED
  BY <1>3, <1>4 DEF Rank

LEMMA RankOnce ==
  ASSUME NEW S, IsFiniteSet(S), NEW R, StrictOrder(S, R), NEW x \in S, NEW y \in S
  PROVE  /\ Rank(S, R, x) = Rank(S, R, y) => x = y
         /\ Rank(S, R, x) < Rank(S, R, y) => <<x, y>> \in R
<1>1. x = y \/ <<x, y>> \in R \/ <<y, x>> \in R
  BY DEF StrictOrder
<1>2. <<x, y>> \in R => Rank(S, R, x) \in Nat /\ Rank(S, R, y) \in Nat /\ Rank(S, R, x) < Rank(S, R, y)
  BY RankGrows
<1>3. <<y, x>> \in R => Rank(S, R, x) \in Nat /\ Rank(S, R, y) \in Nat /\ Rank(S, R, y) < Rank(S, R, x)
  BY RankGrows
<1>4. x = y => Rank(S, R, x) \in Nat
  <2>1. Lesser(S, R, x) \in SUBSET S
    BY DEF Lesser
  <2>. QED
    BY <2>1, FS_Subset, FS_CardinalityType DEF Rank
<1>. QED
  BY <1>1, <1>2, <1>3, <1>4

(* Every place in the list has a member of that rank.                      *)
LEMMA RanksFill ==
  ASSUME NEW S, IsFiniteSet(S), NEW R, StrictOrder(S, R), NEW n \in Nat, n = Cardinality(S)
  PROVE  /\ \A x \in S : Rank(S, R, x) \in 0..n - 1
         /\ \A i \in 0..n - 1 : \E x \in S : Rank(S, R, x) = i
<1> DEFINE rank == [x \in S |-> Rank(S, R, x)]
<1>1. ASSUME NEW x \in S PROVE Rank(S, R, x) \in 0..n - 1
  <2>1. Lesser(S, R, x) \in SUBSET S /\ x \notin Lesser(S, R, x)
    BY DEF Lesser, StrictOrder
  <2>2. /\ IsFiniteSet(Lesser(S, R, x)) /\ Rank(S, R, x) <= n
        /\ (n = Rank(S, R, x) => S = Lesser(S, R, x))
    BY <2>1, FS_Subset DEF Rank
  <2>3. Rank(S, R, x) \in Nat /\ n # Rank(S, R, x)
    BY <2>1, <2>2, FS_CardinalityType DEF Rank
  <2>. QED
    BY <2>2, <2>3
<1>2. rank \in [S -> 0..n - 1] /\ \A x \in S : rank[x] = Rank(S, R, x)
  BY <1>1
<1>. HIDE DEF rank
<1>3. \A x, y \in S : rank[x] = rank[y] => x = y
  BY <1>2, RankOnce
<1>4. rank \in Injection(S, 0..n - 1)
  BY <1>2, <1>3 DEF Injection, IsInjective
<1>5. IsFiniteSet(0..n - 1) /\ Cardinality(0..n - 1) = n
  <2>. PICK m \in Int : m = n - 1
    OBVIOUS
  <2>. PICK z \in Int : z = 0
    OBVIOUS
  <2>0. IsFiniteSet(z..m) /\ Cardinality(z..m) = IF z > m THEN 0 ELSE m - z + 1
    BY FS_Interval
  <2>1. IsFiniteSet(0..m) /\ Cardinality(0..m) = IF 0 > m THEN 0 ELSE m + 1
    BY <2>0
  <2>. QED
    BY <2>1
<1>6. rank \in Surjection(S, 0..n - 1)
  BY <1>4, <1>5, FS_Injection
<1>. QED
  BY <1>1, <1>2, <1>6 DEF Surjection

(* What puts each member where its rank says lists the set.                *)
LEMMA RanksList ==
  ASSUME NEW S, IsFiniteSet(S), NEW R, StrictOrder(S, R), NEW res,
         res = [i \in 1..Cardinality(S) |-> res[i]],
         \A i \in 1..Cardinality(S) : (\E x \in S : Rank(S, R, x) = i - 1) =>
             res[i] \in S /\ Rank(S, R, res[i]) = i - 1
  PROVE  Lists(res, S, R) /\ Len(res) = Cardinality(S)
<1>1. PICK n \in Nat : n = Cardinality(S)
  BY FS_CardinalityType
<1>2. /\ \A x \in S : Rank(S, R, x) \in 0..n - 1
      /\ \A i \in 0..n - 1 : \E x \in S : Rank(S, R, x) = i
  BY <1>1, RanksFill
<1>3. ASSUME NEW i \in 1..n PROVE res[i] \in S /\ Rank(S, R, res[i]) = i - 1
  <2>1. i - 1 \in 0..n - 1
    OBVIOUS
  <2>. QED
    BY <1>1, <1>2, <2>1
<1>4. res \in [1..n -> S]
  BY <1>1, <1>3
<1>5. res \in Seq(S) /\ Len(res) = n
  BY <1>4, AsSeq
<1>6. ASSUME NEW x \in S PROVE x \in ToSet(res)
  <2>1. PICK r \in 0..n - 1 : r = Rank(S, R, x)
    BY <1>2
  <2>2. r + 1 \in 1..n /\ (r + 1) - 1 = r
    OBVIOUS
  <2>3. res[r + 1] \in S /\ Rank(S, R, res[r + 1]) = r
    BY <1>3, <2>2
  <2>4. x = res[r + 1]
    BY <2>1, <2>3, RankOnce
  <2>. QED
    BY <1>4, <2>2, <2>4 DEF ToSet
<1>7. ToSet(res) \subseteq S
  BY <1>4 DEF ToSet
<1>8. ASSUME NEW i \in 1..n, NEW j \in 1..n, i < j PROVE <<res[i], res[j]>> \in R
  <2>1. Rank(S, R, res[i]) < Rank(S, R, res[j]) /\ res[i] \in S /\ res[j] \in S
    BY <1>3, <1>8
  <2>. QED
    BY <2>1, RankOnce
<1>. QED
  BY <1>1, <1>5, <1>6, <1>7, <1>8 DEF Lists, Ascends

(* The members of a list in order have their place for a rank.             *)
LEMMA ListRanks ==
  ASSUME NEW S, NEW R, StrictOrder(S, R), NEW s, Lists(s, S, R)
  PROVE  /\ IsFiniteSet(S) /\ Cardinality(S) = Len(s)
         /\ \A i \in 1..Len(s) : Rank(S, R, s[i]) = i - 1
<1>1. PICK n \in Nat : n = Len(s)
  BY DEF Lists
<1>2. s \in [1..n -> S] /\ s \in Seq(S) /\ ToSet(s) = S
  BY <1>1 DEF Lists
<1>3. ASSUME NEW i \in 1..n, NEW j \in 1..n, i < j PROVE <<s[i], s[j]>> \in R
  BY <1>1, <1>3 DEF Lists, Ascends
<1>4. ASSUME NEW i \in 1..n, NEW j \in 1..n, s[i] = s[j] PROVE i = j
  <2>1. s[i] \in S /\ <<s[i], s[i]>> \notin R
    BY <1>2 DEF StrictOrder
  <2>2. i < j \/ i = j \/ j < i
    OBVIOUS
  <2>. QED
    BY <1>3, <1>4, <2>1, <2>2
<1>5. IsFiniteSet(S) /\ Cardinality(S) = n
  BY <1>1, <1>2, <1>4, InjectedCount DEF Injected
<1>6. ASSUME NEW i \in 1..n PROVE Rank(S, R, s[i]) = i - 1
  <2>. PICK m \in Nat : m = i - 1
    OBVIOUS
  <2>1. \A j \in 1..m : j \in 1..n /\ j < i
    OBVIOUS
  <2> DEFINE f == [j \in 1..m |-> s[j]]
             A == Lesser(S, R, s[i])
  <2>2. ASSUME NEW y \in A PROVE \E j \in 1..m : s[j] = y
    <3>1. y \in S /\ <<y, s[i]>> \in R
      BY DEF Lesser
    <3>2. PICK j \in 1..n : y = s[j]
      BY <1>1, <1>2, <3>1 DEF ToSet
    <3>3. ~(i <= j)
      <4>1. SUFFICES ASSUME i <= j PROVE FALSE
        OBVIOUS
      <4>2. i = j \/ i < j
        BY <4>1
      <4>3. s[i] \in S /\ s[j] \in S
        BY <1>2
      <4>4. <<s[j], s[i]>> \in R
        BY <3>1, <3>2
      <4>5. CASE i = j
        BY <4>3, <4>4, <4>5 DEF StrictOrder
      <4>6. CASE i < j
        <5>1. <<s[i], s[j]>> \in R
          BY <1>3, <4>6
        <5>2. <<s[i], s[i]>> \in R
          BY <4>3, <4>4, <5>1 DEF StrictOrder
        <5>. QED
          BY <4>3, <5>2 DEF StrictOrder
      <4>. QED
        BY <4>2, <4>5, <4>6
    <3>4. j \in 1..m
      BY <3>3
    <3>. QED
      BY <3>2, <3>4
  <2>3. ASSUME NEW j \in 1..m PROVE s[j] \in A
    BY <1>2, <1>3, <2>1 DEF Lesser
  <2>. HIDE DEF A
  <2>4. f \in Surjection(1..m, A)
    BY <2>2, <2>3 DEF Surjection
  <2>5. \A j, k \in 1..m : f[j] = f[k] => j = k
    BY <1>4, <2>1
  <2>6. f \in Injection(1..m, A)
    <3>1. f \in [1..m -> A]
      BY <2>3
    <3>2. DOMAIN f = 1..m
      OBVIOUS
    <3>. HIDE DEF f
    <3>. QED
      BY <2>5, <3>1, <3>2 DEF Injection, IsInjective
  <2>7. IsFiniteSet(1..m) /\ Cardinality(1..m) = m
    BY FS_Interval
  <2>8. Cardinality(A) = m
    BY <2>4, <2>6, <2>7, FS_Surjection
  <2>. QED
    BY <2>8 DEF A, Rank
<1>. QED
  BY <1>1, <1>5, <1>6

LEMMA ListsOnce ==
  ASSUME NEW S, NEW R, StrictOrder(S, R), NEW s, Lists(s, S, R), NEW t, Lists(t, S, R)
  PROVE  s = t
<1>1. /\ IsFiniteSet(S) /\ Cardinality(S) = Len(s) /\ Cardinality(S) = Len(t)
      /\ \A i \in 1..Len(s) : Rank(S, R, s[i]) = i - 1
      /\ \A i \in 1..Len(t) : Rank(S, R, t[i]) = i - 1
  BY ListRanks
<1>2. s \in Seq(S) /\ t \in Seq(S)
  BY DEF Lists
<1>3. PICK n \in Nat : n = Len(s) /\ n = Len(t)
  BY <1>1, <1>2
<1>4. ASSUME NEW i \in 1..n PROVE s[i] = t[i]
  <2>1. s[i] \in S /\ t[i] \in S
    <3>1. i \in 1..Len(s) /\ i \in 1..Len(t)
      BY <1>3
    <3>2. \A u \in Seq(S) : \A j \in 1..Len(u) : u[j] \in S
      OBVIOUS
    <3>. QED
      BY <1>2, <3>1, <3>2
  <2>2. Rank(S, R, s[i]) = Rank(S, R, t[i])
    BY <1>1, <1>3
  <2>. QED
    BY <1>1, <2>1, <2>2, RankOnce
<1>. QED
  BY <1>2, <1>3, <1>4, SeqEqual

-----------------------------------------------------------------------------
(* Lists one after another.                                                *)
LEMMA JoinedIs ==
  ASSUME NEW S, NEW n \in Nat, NEW rows \in [1..n -> Seq(S)]
  PROVE  \E upto \in [0..n -> Seq(S)] :
            upto[0] = <<>> /\ (\A i \in 1..n : upto[i] = upto[i - 1] \o rows[i]) /\ Joined(rows) = upto[n]
<1> DEFINE V == Seq(S)
           E == [z \in (1..n) \X V |-> z[2] \o rows[z[1]]]
<1>1. E \in [(1..n) \X V -> V] /\ <<>> \in V
  <2>1. \A z \in (1..n) \X V : z[2] \in Seq(S) /\ rows[z[1]] \in Seq(S)
    OBVIOUS
  <2>2. \A s, t \in Seq(S) : s \o t \in Seq(S)
    OBVIOUS
  <2>. QED
    BY <2>1, <2>2
<1>2. \A i \in 1..n, k \in V : E[<<i, k>>] = k \o rows[i]
  OBVIOUS
<1>. HIDE DEF E, V
<1>3. PICK f : Folds(f, V, <<>>, E, n)
  BY <1>1, FoldExists
<1>4. f \in [0..n -> V] /\ f[0] = <<>> /\ \A i \in 1..n : f[i] = E[<<i, f[i - 1]>>]
  BY <1>3 DEF Folds
<1>5. \A i \in 1..n : f[i] = f[i - 1] \o rows[i]
  <2> SUFFICES ASSUME NEW i \in 1..n PROVE f[i] = f[i - 1] \o rows[i]
    OBVIOUS
  <2>1. i - 1 \in 0..n
    OBVIOUS
  <2>. QED
    BY <1>2, <1>4, <2>1
<1> DEFINE Of(u, i) == IF i = 0 THEN <<>> ELSE u[i - 1] \o rows[i]
           Fits(u) == u = [i \in 0..n |-> Of(u, i)]
           chosen == CHOOSE u : Fits(u)
<1>6. f = [i \in 0..n |-> Of(f, i)]
  <2>1. \A i \in 0..n : i = 0 \/ i \in 1..n
    OBVIOUS
  <2>2. \A i \in 0..n : f[i] = Of(f, i)
    BY <1>4, <1>5, <2>1
  <2>. HIDE DEF Of
  <2>. QED
    BY <1>4, <2>2
<1>7. Fits(chosen)
  BY <1>6
<1>8. Len(rows) = n
  BY AsSeq
<1>9. Joined(rows) = chosen[n]
  BY <1>8 DEF Joined
<1>. HIDE DEF chosen
<1>10. chosen = [i \in 0..n |-> Of(chosen, i)]
  BY <1>7
<1>11. chosen[0] = <<>> /\ \A i \in 1..n : chosen[i] = chosen[i - 1] \o rows[i]
  <2>1. 0 \in 0..n /\ \A i \in 1..n : i \in 0..n /\ i # 0
    OBVIOUS
  <2>2. chosen[0] = Of(chosen, 0) /\ \A i \in 1..n : chosen[i] = Of(chosen, i)
    BY <1>10, <2>1
  <2>. QED
    BY <2>1, <2>2
<1> DEFINE P == {m \in Nat : m <= n => chosen[m] = f[m]}
<1>12. 0 \in P
  BY <1>4, <1>11
<1>13. ASSUME NEW m \in Nat, m \in P PROVE m + 1 \in P
  <2> SUFFICES ASSUME m + 1 <= n PROVE chosen[m + 1] = f[m + 1]
    OBVIOUS
  <2>1. m + 1 \in 1..n /\ (m + 1) - 1 = m /\ chosen[m] = f[m]
    BY <1>13
  <2>. QED
    BY <1>5, <1>11, <2>1
<1>. HIDE DEF P
<1>14. n \in P
  BY <1>12, <1>13, Induction
<1>15. chosen[n] = f[n]
  BY <1>14 DEF P
<1>. QED
  BY <1>4, <1>5, <1>9, <1>15 DEF V

(* Two lists in order, every member of the first less than every member of *)
(* the second, are a list in order.                                        *)
LEMMA TwoLists ==
  ASSUME NEW S, NEW R, NEW s \in Seq(S), NEW t \in Seq(S), Ascends(s, R), Ascends(t, R),
         \A x \in ToSet(s), y \in ToSet(t) : <<x, y>> \in R
  PROVE  s \o t \in Seq(S) /\ ToSet(s \o t) = ToSet(s) \cup ToSet(t) /\ Ascends(s \o t, R)
<1>1. PICK m \in Nat, n \in Nat : m = Len(s) /\ n = Len(t)
  OBVIOUS
<1>2. PICK u : u = s \o t
  OBVIOUS
<1>3. /\ u \in Seq(S) /\ Len(u) = m + n
      /\ \A i \in 1..m : u[i] = s[i]
      /\ \A i \in 1..n : u[m + i] = t[i]
  BY <1>1, <1>2
<1>4. /\ \A x : x \in ToSet(s) <=> \E i \in 1..m : x = s[i]
      /\ \A x : x \in ToSet(t) <=> \E i \in 1..n : x = t[i]
      /\ \A x : x \in ToSet(u) <=> \E i \in 1..m + n : x = u[i]
  <2>1. DOMAIN s = 1..m /\ DOMAIN t = 1..n /\ DOMAIN u = 1..m + n
    BY <1>1, <1>3
  <2>2. ToSet(s) = {s[i] : i \in 1..m} /\ ToSet(t) = {t[i] : i \in 1..n} /\ ToSet(u) = {u[i] : i \in 1..m + n}
    BY <2>1 DEF ToSet
  <2>. QED
    BY <2>2, Zenon
<1>5. ASSUME NEW i \in 1..m + n
      PROVE  (i \in 1..m /\ u[i] = s[i]) \/ (i - m \in 1..n /\ u[i] = t[i - m] /\ i > m)
  <2>1. i \in 1..m \/ (i - m \in 1..n /\ m + (i - m) = i /\ i > m)
    OBVIOUS
  <2>. QED
    BY <1>3, <2>1
<1>6. /\ \A i \in 1..m : i \in 1..m + n
      /\ \A i \in 1..n : m + i \in 1..m + n
  OBVIOUS
<1>7. ToSet(u) = ToSet(s) \cup ToSet(t)
  <2>1. ASSUME NEW x \in ToSet(u) PROVE x \in ToSet(s) \cup ToSet(t)
    BY <1>4, <1>5
  <2>2. ASSUME NEW x \in ToSet(s) PROVE x \in ToSet(u)
    BY <1>3, <1>4, <1>6
  <2>3. ASSUME NEW x \in ToSet(t) PROVE x \in ToSet(u)
    BY <1>3, <1>4, <1>6
  <2>. QED
    BY <2>1, <2>2, <2>3
<1>8. ASSUME NEW i \in 1..m + n, NEW j \in 1..m + n, i < j PROVE <<u[i], u[j]>> \in R
  <2>1. CASE i \in 1..m /\ u[i] = s[i] /\ j \in 1..m /\ u[j] = s[j]
    BY <1>1, <1>8, <2>1 DEF Ascends
  <2>2. CASE i \in 1..m /\ u[i] = s[i] /\ j - m \in 1..n /\ u[j] = t[j - m]
    BY <1>4, <2>2
  <2>3. CASE i - m \in 1..n /\ u[i] = t[i - m] /\ i > m /\ j - m \in 1..n /\ u[j] = t[j - m]
    <3>1. i - m < j - m
      BY <1>8
    <3>. QED
      BY <1>1, <2>3, <3>1 DEF Ascends
  <2>4. ~(i > m /\ j \in 1..m)
    BY <1>8
  <2>. QED
    BY <1>5, <2>1, <2>2, <2>3, <2>4
<1>. QED
  BY <1>2, <1>3, <1>7, <1>8 DEF Ascends

Chained(n, rows, R) ==
  /\ \A i \in 1..n : Ascends(rows[i], R)
  /\ \A i, j \in 1..n : i < j => \A x \in ToSet(rows[i]), y \in ToSet(rows[j]) : <<x, y>> \in R

LEMMA JoinedLists ==
  ASSUME NEW S, NEW R, NEW n \in Nat, NEW rows \in [1..n -> Seq(S)], Chained(n, rows, R)
  PROVE  /\ Joined(rows) \in Seq(S) /\ Ascends(Joined(rows), R)
         /\ \A x : x \in ToSet(Joined(rows)) <=> \E i \in 1..n : x \in ToSet(rows[i])
<1>0. /\ \A i \in 1..n : Ascends(rows[i], R)
      /\ \A i, j \in 1..n : i < j => \A x \in ToSet(rows[i]), y \in ToSet(rows[j]) : <<x, y>> \in R
  BY DEF Chained
<1>1. PICK upto \in [0..n -> Seq(S)] :
        upto[0] = <<>> /\ (\A i \in 1..n : upto[i] = upto[i - 1] \o rows[i]) /\ Joined(rows) = upto[n]
  <2>. HIDE DEF Joined
  <2>. QED
    BY JoinedIs
<1> DEFINE P == {m \in Nat : m <= n => /\ Ascends(upto[m], R)
                                       /\ \A x : x \in ToSet(upto[m]) <=> \E i \in 1..m : x \in ToSet(rows[i])}
<1>2. 0 \in P
  <2>1. Ascends(<<>>, R) /\ ToSet(<<>>) = {}
    BY DEF Ascends, ToSet
  <2>2. 1..0 = {}
    OBVIOUS
  <2>. QED
    BY <1>1, <2>1, <2>2
<1>3. ASSUME NEW m \in Nat, m \in P PROVE m + 1 \in P
  <2> SUFFICES ASSUME m + 1 <= n
               PROVE  /\ Ascends(upto[m + 1], R)
                      /\ \A x : x \in ToSet(upto[m + 1]) <=> \E i \in 1..m + 1 : x \in ToSet(rows[i])
    OBVIOUS
  <2>1. m + 1 \in 1..n /\ (m + 1) - 1 = m /\ m \in 0..n /\ m <= n
    OBVIOUS
  <2>2. PICK s \in Seq(S), t \in Seq(S) : s = upto[m] /\ t = rows[m + 1] /\ upto[m + 1] = s \o t
    BY <1>1, <2>1
  <2>3. /\ Ascends(s, R) /\ Ascends(t, R)
        /\ \A x : x \in ToSet(s) <=> \E i \in 1..m : x \in ToSet(rows[i])
    BY <1>0, <1>3, <2>1, <2>2
  <2>4. \A i \in 1..m : i \in 1..n /\ i < m + 1
    BY <2>1
  <2>5. ASSUME NEW x \in ToSet(s), NEW y \in ToSet(t) PROVE <<x, y>> \in R
    <3>1. PICK i \in 1..m : x \in ToSet(rows[i])
      BY <2>3
    <3>. QED
      BY <1>0, <2>1, <2>2, <2>4, <3>1
  <2>6. ToSet(s \o t) = ToSet(s) \cup ToSet(t) /\ Ascends(s \o t, R)
    BY <2>3, <2>5, TwoLists
  <2>7. ASSUME NEW x PROVE (\E i \in 1..m + 1 : x \in ToSet(rows[i])) <=> x \in ToSet(s) \/ x \in ToSet(t)
    <3>1. \A i : i \in 1..m + 1 <=> i \in 1..m \/ i = m + 1
      OBVIOUS
    <3>. QED
      BY <2>2, <2>3, <3>1
  <2>. QED
    BY <2>2, <2>6, <2>7
<1>. HIDE DEF P
<1>4. n \in P
  BY <1>2, <1>3, Induction
<1>5. Ascends(upto[n], R) /\ \A x : x \in ToSet(upto[n]) <=> \E i \in 1..n : x \in ToSet(rows[i])
  BY <1>4 DEF P
<1>. QED
  BY <1>1, <1>5

-----------------------------------------------------------------------------
(* tree_walk lists the pairs of a tree by their keys.                      *)
WalkBody(node, walk) ==
  IF node.leaf THEN node.keys
  ELSE Joined([i \in DOMAIN node.keys |-> Append(walk[node.kids[i]], node.keys[i])])
          \o walk[Last(node.kids)]

LEMMA InnerKids ==
  ASSUME NEW x \in Trees, ~x.leaf
  PROVE  \E n \in Nat : /\ n = Len(x.keys) /\ x.keys \in [1..n -> Pair] /\ DOMAIN x.kids = 1..n + 1
                        /\ \A i \in 1..n + 1 : x.kids[i] \in Kids(x)
                        /\ Last(x.kids) = x.kids[n + 1]
<1>1. Top \in 0..Top /\ x \in Level[Top]
  BY TopIs, LevelTrees
<1>2. x.keys \in Seq(Pair) /\ x.kids \in Seq(Below(Top)) /\ Len(x.kids) = Len(x.keys) + 1
  BY <1>1, NodeFields
<1>3. PICK n \in Nat : n = Len(x.keys)
  BY <1>2
<1>4. x.keys \in [1..n -> Pair] /\ DOMAIN x.kids = 1..n + 1 /\ Len(x.kids) = n + 1
  BY <1>2, <1>3
<1>. QED
  BY <1>3, <1>4 DEF Kids, Last

LEMMA WalkIs ==
  /\ tree_walk \in [Trees -> Seq(Pair)]
  /\ \A n \in Trees : tree_walk[n] = WalkBody(n, tree_walk)
<1> DEFINE V == Seq(Pair)
           W == [x \in Trees |-> V]
           K == [x \in Trees |-> Kids(x)]
           E == [z \in Trees \X [Trees -> V] |-> WalkBody(z[1], z[2])]
<1>1. Calls(K)
  BY KidsCalls
<1>2. ASSUME NEW x \in Trees, NEW f \in [Trees -> V] PROVE WalkBody(x, f) \in V
  <2>1. CASE x.leaf
    BY <2>1, KeysIn DEF WalkBody
  <2>2. CASE ~x.leaf
    <3>1. PICK n \in Nat : /\ n = Len(x.keys) /\ x.keys \in [1..n -> Pair] /\ DOMAIN x.kids = 1..n + 1
                           /\ \A i \in 1..n + 1 : x.kids[i] \in Kids(x)
                           /\ Last(x.kids) = x.kids[n + 1]
      BY <2>2, InnerKids
    <3>2. \A i \in 1..n + 1 : f[x.kids[i]] \in Seq(Pair)
      BY <3>1, KidsIn
    <3>3. ASSUME NEW i \in 1..n PROVE Append(f[x.kids[i]], x.keys[i]) \in Seq(Pair)
      <4>1. i \in 1..n + 1
        OBVIOUS
      <4>. QED
        BY <3>1, <3>2, <4>1, AppendProperties
    <3>4. PICK rows \in [1..n -> Seq(Pair)] : rows = [i \in DOMAIN x.keys |-> Append(f[x.kids[i]], x.keys[i])]
      BY <3>1, <3>3
    <3>5. PICK upto \in [0..n -> Seq(Pair)] :
            upto[0] = <<>> /\ (\A i \in 1..n : upto[i] = upto[i - 1] \o rows[i]) /\ Joined(rows) = upto[n]
      BY JoinedIs
    <3>. HIDE DEF Joined
    <3>6. Joined(rows) \in Seq(Pair) /\ f[Last(x.kids)] \in Seq(Pair)
      <4>1. n \in 0..n /\ n + 1 \in 1..n + 1
        OBVIOUS
      <4>2. upto[n] \in Seq(Pair)
        BY <4>1
      <4>. QED
        BY <3>1, <3>2, <3>5, <4>1, <4>2
    <3>7. Joined(rows) \o f[Last(x.kids)] \in Seq(Pair)
      BY <3>6
    <3>. QED
      BY <2>2, <3>4, <3>7 DEF WalkBody
  <2>. QED
    BY <2>1, <2>2, KeysIn
<1>3. ASSUME NEW x \in Trees, NEW f, NEW g, \A y \in K[x] : f[y] = g[y]
      PROVE  WalkBody(x, f) = WalkBody(x, g)
  <2>1. CASE x.leaf
    BY <2>1 DEF WalkBody
  <2>2. CASE ~x.leaf
    <3>1. PICK n \in Nat : /\ n = Len(x.keys) /\ x.keys \in [1..n -> Pair] /\ DOMAIN x.kids = 1..n + 1
                           /\ \A i \in 1..n + 1 : x.kids[i] \in Kids(x)
                           /\ Last(x.kids) = x.kids[n + 1]
      BY <2>2, InnerKids
    <3>2. \A i \in 1..n + 1 : f[x.kids[i]] = g[x.kids[i]]
      BY <1>3, <3>1
    <3>3. \A i \in DOMAIN x.keys : f[x.kids[i]] = g[x.kids[i]]
      BY <3>1, <3>2
    <3>4. [i \in DOMAIN x.keys |-> Append(f[x.kids[i]], x.keys[i])]
            = [i \in DOMAIN x.keys |-> Append(g[x.kids[i]], x.keys[i])]
      BY <3>3
    <3>5. f[Last(x.kids)] = g[Last(x.kids)]
      BY <3>1, <3>2
    <3>. QED
      BY <2>2, <3>4, <3>5 DEF WalkBody
  <2>. QED
    BY <2>1, <2>2, KeysIn
<1>4. V # {} /\ W \in [Trees -> SUBSET V] /\ E \in [Trees \X [Trees -> V] -> V]
  <2>1. <<>> \in V
    OBVIOUS
  <2>. QED
    BY <1>2, <2>1
<1>5. \A x \in Trees, f \in [Trees -> V] : E[<<x, f>>] = WalkBody(x, f) /\ E[<<x, f>>] \in W[x]
  BY <1>2
<1>. HIDE DEF V, W, K, E
<1>6. Equations(V, W, K, E)
  <2>1. \A x \in Trees : \A f, g \in [Trees -> V] :
          (\A y \in K[x] : f[y] = g[y] /\ f[y] \in W[y]) =>
             E[<<x, f>>] = E[<<x, g>>] /\ E[<<x, f>>] \in W[x]
    BY <1>3, <1>5
  <2>. QED
    BY <1>1, <1>4, <2>1 DEF Equations
<1>7. PICK f \in [Trees -> V] : \A x \in Trees : f[x] = E[<<x, f>>] /\ f[x] \in W[x]
  BY <1>6, Recursion
<1>8. f = [x \in Trees |-> WalkBody(x, f)]
  BY <1>5, <1>7
<1> DEFINE Fits(g) == g = [x \in Trees |-> WalkBody(x, g)]
           chosen == CHOOSE g : Fits(g)
<1>9. Fits(chosen)
  BY <1>8
<1>10. tree_walk = chosen
  BY DEF tree_walk, WalkBody
<1>. HIDE DEF chosen
<1>11. tree_walk = [x \in Trees |-> WalkBody(x, tree_walk)]
  BY <1>9, <1>10
<1>12. ASSUME NEW x \in Trees, \A y \in K[x] : f[y] = tree_walk[y]
       PROVE  f[x] = tree_walk[x]
  <2>1. WalkBody(x, f) = WalkBody(x, tree_walk)
    BY <1>3, <1>12
  <2>. QED
    BY <1>8, <1>11, <2>1
<1>13. \A x \in Trees : f[x] = tree_walk[x]
  BY <1>1, <1>12, Agree
<1>14. tree_walk = f
  BY <1>8, <1>11, <1>13
<1>. QED
  <2>1. \A n \in Trees : tree_walk[n] = WalkBody(n, tree_walk)
    BY <1>11
  <2>2. tree_walk \in [Trees -> V]
    BY <1>14
  <2>. QED
    BY <2>1, <2>2 DEF V

ByKey == {z \in Pair \X Pair : Before(z[1], z[2])}
Walked(n) == ToSet(tree_walk[n]) = Content[n] /\ Ascends(tree_walk[n], ByKey)

LEMMA WalkedLeaf == \A n \in Good[0] : Walked(n)
<1> SUFFICES ASSUME NEW n \in Good[0] PROVE Walked(n)
  OBVIOUS
<1>1. PICK m \in 0..3 : /\ Row(m, n.keys) /\ Len(n.keys) = m
                        /\ n = BNode(TRUE, n.keys, <<>>)
  BY GoodLeaf
<1>2. n \in Trees /\ n.leaf = TRUE /\ n.kids = <<>> /\ m \in Nat
  BY <1>1, GoodTrees, TopIs DEF BNode
<1>3. n.keys \in Seq(Pair) /\ Increasing(n.keys)
  BY <1>1, <1>2, RowIncreasing
<1>4. Kids(n) = {}
  BY <1>2 DEF Kids
<1>5. tree_walk[n] = n.keys /\ Content[n] = ToSet(n.keys)
  <2>1. tree_walk[n] = n.keys
    BY <1>2, WalkIs DEF WalkBody
  <2>2. UNION {Content[kid] : kid \in Kids(n)} = {}
    BY <1>4
  <2>. QED
    BY <1>2, <2>1, <2>2, ContentIs
<1>6. Ascends(n.keys, ByKey)
  <2>1. \A i \in 1..Len(n.keys) : n.keys[i] \in Pair
    BY <1>3
  <2>. QED
    BY <1>3, <2>1 DEF Ascends, ByKey, Increasing
<1>. QED
  BY <1>5, <1>6 DEF Walked

LEMMA WalkedInner ==
  ASSUME NEW h \in 1..Top, NEW x \in Good[h], \A kid \in Good[h - 1] : Walked(kid)
  PROVE  Walked(x)
<1>1. PICK n \in 0..3 : /\ Inner(h, n, x.keys, x.kids) /\ Len(x.keys) = n
                        /\ x = BNode(FALSE, x.keys, x.kids)
  BY GoodInner
<1>2. x \in Trees /\ x.leaf = FALSE /\ n \in Nat /\ h \in 0..Top /\ h - 1 \in 0..Top
  BY <1>1, GoodTrees, TopIs DEF BNode
<1>3. /\ x.keys \in [1..n -> Pair] /\ \A i, j \in 1..n : i < j => Before(x.keys[i], x.keys[j])
      /\ x.kids \in [1..n + 1 -> Good[h - 1]]
      /\ \A i \in 1..n + 1, j \in 1..n : \A p \in Content[x.kids[i]] : Side(j, i, x.keys[j], p)
  BY <1>1 DEF Inner, Row
<1>4. PICK m \in Nat : /\ m = Len(x.keys) /\ DOMAIN x.kids = 1..m + 1
                       /\ Last(x.kids) = x.kids[m + 1]
  BY <1>2, InnerKids
<1>5. m = n /\ n + 1 \in 1..n + 1
  BY <1>1, <1>2, <1>4
<1> DEFINE walks == [i \in 1..n + 1 |-> tree_walk[x.kids[i]]]
           Walking(i) == Append(walks[i], x.keys[i])
<1>6. ASSUME NEW i \in 1..n + 1
      PROVE  /\ walks[i] \in Seq(Pair) /\ Ascends(walks[i], ByKey) /\ ToSet(walks[i]) = Content[x.kids[i]]
             /\ Content[x.kids[i]] \subseteq Pair
  <2>1. x.kids[i] \in Good[h - 1]
    BY <1>3
  <2>. QED
    BY <1>2, <2>1, GoodTrees, WalkIs, HeldArePairs DEF Walked
<1>. HIDE DEF walks
<1>7. \A i \in 1..n : i \in 1..n + 1
  OBVIOUS
<1>8. \A i \in 1..n + 1, j \in 1..n : \A p \in Content[x.kids[i]] :
        /\ j < i => <<x.keys[j], p>> \in ByKey
        /\ ~(j < i) => <<p, x.keys[j]>> \in ByKey
  BY <1>3, <1>6 DEF Side, ByKey
<1>9. ASSUME NEW i \in 1..n
      PROVE  /\ Walking(i) \in Seq(Pair) /\ Ascends(Walking(i), ByKey)
             /\ ToSet(Walking(i)) = Content[x.kids[i]] \cup {x.keys[i]}
  <2>1. x.keys[i] \in Pair /\ i \in 1..n + 1 /\ ~(i < i)
    BY <1>3, <1>7
  <2>2. PICK s \in Seq(Pair), t \in Seq(Pair) : s = walks[i] /\ t = <<x.keys[i]>>
    BY <1>6, <2>1, Single
  <2>3. ToSet(t) = {x.keys[i]} /\ Ascends(t, ByKey)
    <3>1. DOMAIN t = {1} /\ Len(t) = 1 /\ t[1] = x.keys[i] /\ \A a, b \in 1..1 : ~(a < b)
      BY <2>2
    <3>2. ToSet(t) = {t[a] : a \in {1}}
      BY <3>1 DEF ToSet
    <3>3. Ascends(t, ByKey)
      BY <3>1 DEF Ascends
    <3>. QED
      BY <3>1, <3>2, <3>3
  <2>4. Ascends(s, ByKey) /\ ToSet(s) = Content[x.kids[i]]
    BY <1>6, <2>1, <2>2
  <2>5. \A p \in ToSet(s), q \in ToSet(t) : <<p, q>> \in ByKey
    BY <1>8, <2>1, <2>3, <2>4
  <2>6. s \o t \in Seq(Pair) /\ ToSet(s \o t) = ToSet(s) \cup ToSet(t) /\ Ascends(s \o t, ByKey)
    BY <2>3, <2>4, <2>5, TwoLists
  <2>7. s \o t = Append(s, x.keys[i])
    BY <2>1, <2>2
  <2>. QED
    BY <2>2, <2>3, <2>4, <2>6, <2>7
<1>10. PICK rows \in [1..n -> Seq(Pair)] : rows = [i \in 1..n |-> Walking(i)]
  BY <1>9
<1>11. \A i \in 1..n : /\ Ascends(rows[i], ByKey)
                       /\ ToSet(rows[i]) = Content[x.kids[i]] \cup {x.keys[i]}
  BY <1>9, <1>10
<1>. HIDE DEF Walking
<1>12. \A p, q, r : <<p, q>> \in ByKey /\ <<q, r>> \in ByKey => <<p, r>> \in ByKey
  BY PairOrder DEF ByKey
<1>13. ASSUME NEW i \in 1..n, NEW j \in 1..n + 1, i < j, NEW p, p \in Content[x.kids[i]] \cup {x.keys[i]}, NEW q,
              q \in Content[x.kids[j]]
       PROVE  <<p, q>> \in ByKey
  <2>1. <<x.keys[i], q>> \in ByKey
    BY <1>8, <1>13
  <2>2. CASE p = x.keys[i]
    BY <2>1, <2>2
  <2>3. CASE p \in Content[x.kids[i]]
    <3>1. i \in 1..n + 1 /\ ~(i < i)
      BY <1>7
    <3>2. <<p, x.keys[i]>> \in ByKey
      BY <1>8, <2>3, <3>1
    <3>. QED
      BY <1>12, <2>1, <3>2
  <2>. QED
    BY <1>13, <2>2, <2>3
<1>14. ASSUME NEW i \in 1..n, NEW j \in 1..n, i < j, NEW p, p \in ToSet(rows[i]), NEW q, q \in ToSet(rows[j])
       PROVE  <<p, q>> \in ByKey
  <2>1. p \in Content[x.kids[i]] \cup {x.keys[i]} /\ q \in Content[x.kids[j]] \cup {x.keys[j]}
    BY <1>11, <1>14
  <2>2. CASE q \in Content[x.kids[j]]
    BY <1>7, <1>13, <1>14, <2>1, <2>2
  <2>3. CASE q = x.keys[j]
    <3>1. <<x.keys[i], x.keys[j]>> \in ByKey
      BY <1>3, <1>14 DEF ByKey
    <3>2. p \in Content[x.kids[i]] => <<p, x.keys[i]>> \in ByKey
      <4>1. i \in 1..n + 1 /\ ~(i < i)
        BY <1>7
      <4>. QED
        BY <1>8, <4>1
    <3>3. CASE p = x.keys[i]
      BY <2>3, <3>1, <3>3
    <3>4. CASE p # x.keys[i]
      <4>1. <<p, x.keys[i]>> \in ByKey
        BY <2>1, <3>2, <3>4
      <4>. QED
        BY <1>12, <2>3, <3>1, <4>1
    <3>. QED
      BY <3>3, <3>4
  <2>. QED
    BY <2>1, <2>2, <2>3
<1>15. /\ Joined(rows) \in Seq(Pair) /\ Ascends(Joined(rows), ByKey)
       /\ \A p : p \in ToSet(Joined(rows)) <=> \E i \in 1..n : p \in ToSet(rows[i])
  <2>1. Chained(n, rows, ByKey)
    BY <1>11, <1>14 DEF Chained
  <2>. QED
    BY <1>2, <2>1, JoinedLists
<1>. HIDE DEF Joined
<1>16. PICK s \in Seq(Pair), t \in Seq(Pair) : s = Joined(rows) /\ t = walks[n + 1]
  BY <1>5, <1>6, <1>15
<1>17. ASSUME NEW p \in ToSet(s), NEW q \in ToSet(t) PROVE <<p, q>> \in ByKey
  <2>1. PICK i \in 1..n : p \in ToSet(rows[i])
    BY <1>15, <1>16
  <2>2. p \in Content[x.kids[i]] \cup {x.keys[i]} /\ q \in Content[x.kids[n + 1]]
    BY <1>5, <1>6, <1>11, <1>16, <2>1
  <2>3. i < n + 1
    BY <1>2
  <2>. QED
    BY <1>5, <1>13, <2>2, <2>3
<1>18. s \o t \in Seq(Pair) /\ ToSet(s \o t) = ToSet(s) \cup ToSet(t) /\ Ascends(s \o t, ByKey)
  <2>1. Ascends(s, ByKey) /\ Ascends(t, ByKey)
    BY <1>5, <1>6, <1>15, <1>16
  <2>. QED
    BY <1>17, <2>1, TwoLists
<1>19. tree_walk[x] = s \o t
  <2>1. tree_walk[x] = Joined([i \in DOMAIN x.keys |-> Append(tree_walk[x.kids[i]], x.keys[i])])
                         \o tree_walk[Last(x.kids)]
    BY <1>2, WalkIs DEF WalkBody
  <2>2. DOMAIN x.keys = 1..n /\ Last(x.kids) = x.kids[n + 1]
    BY <1>3, <1>4, <1>5
  <2>3. \A i \in 1..n + 1 : walks[i] = tree_walk[x.kids[i]]
    BY DEF walks
  <2>4. rows = [i \in DOMAIN x.keys |-> Append(tree_walk[x.kids[i]], x.keys[i])]
    BY <1>7, <1>10, <2>2, <2>3 DEF Walking
  <2>. QED
    BY <1>5, <1>16, <2>1, <2>2, <2>3, <2>4
<1>20. ASSUME NEW p PROVE p \in ToSet(s \o t) <=> p \in Content[x]
  <2>1. InnerHolds(x, n)
    BY <1>1, <1>2, HeldInInner
  <2>2. p \in Content[x] <=> (\E i \in 1..n : p = x.keys[i]) \/ (\E i \in 1..n + 1 : p \in Content[x.kids[i]])
    BY <2>1 DEF InnerHolds
  <2>3. p \in ToSet(s \o t) <=> (\E i \in 1..n : p \in Content[x.kids[i]] \cup {x.keys[i]}) \/ p \in Content[x.kids[n + 1]]
    BY <1>5, <1>6, <1>11, <1>15, <1>16, <1>18
  <2>4. \A i : i \in 1..n + 1 <=> i \in 1..n \/ i = n + 1
    BY <1>2
  <2>. QED
    BY <2>2, <2>3, <2>4
<1>. QED
  BY <1>18, <1>19, <1>20 DEF Walked

LEMMA WalkedTree == \A h \in 0..Top : \A n \in Good[h] : Walked(n)
<1>1. Top \in Nat
  BY TopIs
<1> DEFINE P == {i \in Nat : i <= Top => \A n \in Good[i] : Walked(n)}
<1>2. 0 \in P
  BY WalkedLeaf
<1>3. ASSUME NEW i \in Nat, i \in P PROVE i + 1 \in P
  <2> SUFFICES ASSUME i + 1 <= Top, NEW n \in Good[i + 1] PROVE Walked(n)
    OBVIOUS
  <2>1. i + 1 \in 1..Top /\ (i + 1) - 1 = i /\ i <= Top
    BY <1>1
  <2>2. \A kid \in Good[(i + 1) - 1] : Walked(kid)
    BY <1>3, <2>1
  <2>. QED
    BY <2>1, <2>2, WalkedInner
<1>. HIDE DEF P
<1>4. Nat \subseteq P
  BY <1>2, <1>3, Induction
<1>. QED
  BY <1>1, <1>4 DEF P

(* A B-tree holds one pair for a key, so that it has as many keys as       *)
(* pairs.                                                                  *)
LEMMA OneForKey ==
  ASSUME NEW h \in 0..Top, NEW n \in Good[h], NEW p, p \in Content[n], NEW q, q \in Content[n], p[1] = q[1]
  PROVE  p = q
<1>1. PICK s \in Seq(Pair) : s = tree_walk[n] /\ ToSet(s) = Content[n] /\ Ascends(s, ByKey)
  BY WalkedTree, WalkIs, GoodTrees DEF Walked
<1>2. PICK m \in Nat : m = Len(s)
  BY <1>1
<1>3. PICK i \in 1..m, j \in 1..m : p = s[i] /\ q = s[j]
  <2>1. ToSet(s) = {s[i] : i \in 1..m}
    BY <1>2 DEF ToSet
  <2>. QED
    BY <1>1, <2>1
<1>4. p \in Pair /\ q \in Pair
  BY HeldArePairs
<1>5. <<p, q>> \notin ByKey /\ <<q, p>> \notin ByKey
  BY <1>4, PairOrder DEF ByKey
<1>6. i < j \/ i = j \/ j < i
  OBVIOUS
<1>. QED
  BY <1>1, <1>2, <1>3, <1>5, <1>6 DEF Ascends

LEMMA TreeKeys ==
  ASSUME NEW h \in 0..Top, NEW n \in Good[h], NEW k
  PROVE  LET keys == {p[1] : p \in Content[n]}
         IN  /\ Cardinality(keys \cup {k}) = IF k \in keys THEN tree_count[n] ELSE tree_count[n] + 1
             /\ tree_count[n] \in Nat
<1> DEFINE C == Content[n]
           keys == {p[1] : p \in C}
           f == [p \in C |-> p[1]]
<1>1. IsFiniteSet(C) /\ Cardinality(C) = tree_count[n] /\ tree_count[n] \in Nat
  BY TreeCount DEF Counted
<1>2. \A p, q \in C : p[1] = q[1] => p = q
  BY OneForKey
<1>. HIDE DEF C
<1>3. f \in [C -> keys] /\ \A p \in C : f[p] = p[1]
  OBVIOUS
<1>4. \A y \in keys : \E p \in C : p[1] = y
  OBVIOUS
<1>. HIDE DEF f, keys
<1>5. f \in Injection(C, keys)
  BY <1>2, <1>3 DEF Injection, IsInjective
<1>6. f \in Surjection(C, keys)
  BY <1>3, <1>4 DEF Surjection
<1>7. IsFiniteSet(keys) /\ Cardinality(keys) = tree_count[n]
  BY <1>1, <1>5, <1>6, FS_Surjection
<1>8. Cardinality(keys \cup {k}) = IF k \in keys THEN Cardinality(keys) ELSE Cardinality(keys) + 1
  BY <1>7, FS_AddElement
<1>. QED
  BY <1>1, <1>7, <1>8 DEF keys, C

LEMMA KeyThere ==
  ASSUME NEW h \in 0..Top, NEW n \in Good[h], NEW k \in Word
  PROVE  tree_get(n, k) # Absent <=> k \in {p[1] : p \in Content[n]}
<1>1. PICK v : v = tree_get(n, k) /\ Finds(n, k, v)
  BY TreeGet
<1>2. ASSUME NEW p, p \in Content[n], p[1] = k PROVE v # Absent
  <2>1. <<k, v>> \in Pair
    BY <1>1, <1>2, HeldArePairs DEF Finds
  <2>2. v \in ({"int"} \X Int) \cup ({"str"} \X Seq(Int))
    BY <2>1 DEF Pair
  <2>3. v[1] = "int" \/ v[1] = "str"
    BY <2>2
  <2>4. Absent[1] = "absent"
    BY DEF Absent
  <2>. QED
    BY <2>3, <2>4
<1>. QED
  BY <1>1, <1>2 DEF Finds

LEMMA PutTree ==
  ASSUME kind = "te", Tree, NEW k \in Operands["te"], NEW v \in Values["te"], NEW x, b_pt(k, v, x)
  PROVE  Contract!Put(k, v, x)
<1>1. UNCHANGED <<kind, size, freed>> /\ k \in Operand /\ v \in Operand
  BY OperandAssumption DEF b_pt, Keep, Kinds
<1>2. PICK h \in 0..Top : Grown(h, body)
  BY DEF Tree
<1>3. body \in Good[h] /\ tree_count[body] <= Top
  BY <1>2 DEF Grown
<1>4. Held = Content[body]
  <2>1. Held = ToSet(tree_walk[body])
    BY HeldIs DEF Shows
  <2>. QED
    BY <1>3, <2>1, WalkedTree DEF Walked
<1> DEFINE there == tree_get(body, k[2]) # Absent
           fits == there \/ tree_count[body] + 1 <= BufMax["te"]
           keys == Contract!Keys(Held)
           more == Cardinality(keys \cup {k[2]})
           checks == key_str(k) ?? elem(v)
           fault == excl(x, freed) ?? (checks ?? Unless(BOUNDS, fits))
           asked == excl(x, freed) ?? (checks ?? room(kind, more))
           next == CASE kind = "bv" /\ v[2] = 1 -> SetBit(body, k[2])
                     [] kind = "bv" /\ v[2] = 0 -> ClearBit(body, k[2])
                     [] kind = "mp" -> MapPut(body, k[2], v)
                     [] kind = "te" -> tree_put(body, <<k[2], v>>)
           holds == {p \in Held : p[1] # k[2]} \cup {<<k[2], v>>}
<1>5. next = tree_put(body, <<k[2], v>>)
  OBVIOUS
<1>6. Answer("pt", fault, next, None)
  BY DEF b_pt
<1>7. Contract!Put(k, v, x) <=> Wants("pt", asked, holds, None)
  BY ContractPut DEF PutWants
<1>8. keys = {p[1] : p \in Content[body]}
  BY <1>4 DEF Contract!Keys
<1>9. checks = Fine => k[2] \in Word /\ v \in Elem
  <2>1. checks = Fine => key_str(k) = Fine /\ elem(v) = Fine
    BY BothPass
  <2>2. key_str(k) = Fine => k[2] \in Word
    BY <1>1, ChecksPass, OperandIs DEF IsWord, Word
  <2>3. elem(v) = Fine => v \in Elem
    BY <1>1, ChecksPass DEF Operand, Other, IsInt, IsStr, Elem
  <2>. QED
    BY <2>1, <2>2, <2>3
<1>. HIDE DEF next, checks, holds, keys
<1>10. checks = Fine => (Unless(BOUNDS, fits) = room(kind, more))
  <2>. SUFFICES ASSUME checks = Fine PROVE Unless(BOUNDS, fits) = room(kind, more)
    OBVIOUS
  <2>1. PICK w \in Word : w = k[2]
    BY <1>9
  <2>2. there <=> w \in keys
    BY <1>3, <1>8, <2>1, KeyThere
  <2>3. tree_count[body] \in Nat /\ more = IF w \in keys THEN tree_count[body] ELSE tree_count[body] + 1
    BY <1>3, <1>8, <2>1, TreeKeys
  <2>4. PICK c \in Nat, m \in Nat : c = tree_count[body] /\ m = more
    BY <2>3
  <2>. HIDE DEF there, more
  <2>5. c <= BufMax["te"] /\ BufMax["te"] \in Nat
    BY <1>3, <2>4, TopIs DEF Top
  <2>6. m <= BufMax["te"] <=> fits
    BY <2>2, <2>3, <2>4, <2>5
  <2>. HIDE DEF fits
  <2>. QED
    BY <2>4, <2>6 DEF room, Unless
<1>11. asked = fault
  <2>. HIDE DEF fits, more
  <2>1. CASE checks = Fine
    BY <1>10, <2>1
  <2>2. CASE checks # Fine
    <3>1. (checks ?? Unless(BOUNDS, fits)) = checks /\ (checks ?? room(kind, more)) = checks
      BY <2>2 DEF ??
    <3>. QED
      BY <3>1
  <2>. QED
    BY <2>1, <2>2
<1>12. fault = Fine => checks = Fine /\ fits
  <2>. HIDE DEF fits
  <2>. PICK f : f = fits
    OBVIOUS
  <2>1. fault = Fine => checks = Fine /\ Unless(BOUNDS, f) = Fine
    BY BothPass
  <2>. QED
    BY <2>1, Passes
<1>. HIDE DEF asked, fault
<1>13. CASE fault = Fine
  <2>1. PICK pair \in Pair : pair = <<k[2], v>> /\ pair[1] = k[2]
    <3>1. k[2] \in Word /\ v \in Elem
      BY <1>9, <1>12, <1>13
    <3>2. Pair = Word \X Elem
      BY DEF Pair, Word, Elem
    <3>3. <<k[2], v>> \in Pair
      BY <3>1, <3>2
    <3>. QED
      BY <3>3
  <2>2. tree_get(body, pair[1]) # Absent \/ tree_count[body] + 1 <= Top
    BY <1>12, <1>13, <2>1 DEF Top
  <2>3. PICK g \in 0..Top : /\ Grown(g, tree_put(body, pair))
                            /\ Took(Content[body], Content[tree_put(body, pair)], pair)
    BY <1>2, <2>2, TreePush
  <2>4. body' = tree_put(body, pair)
    BY <1>5, <1>6, <1>13, <2>1 DEF Answer
  <2>5. PICK t : t = body' /\ t \in Good[g] /\ Took(Content[body], Content[t], pair)
    BY <2>3, <2>4 DEF Grown
  <2>6. Held' = Content[t]
    <3>1. Held' = ToSet(tree_walk[t])
      BY <1>1, <2>5, HeldNext DEF Shows
    <3>. QED
      BY <2>5, <3>1, WalkedTree DEF Walked
  <2>7. Content[t] = holds
    <3>1. \A p : p \in Content[t] <=> (p \in Content[body] /\ p[1] # k[2]) \/ p = pair
      BY <2>1, <2>5 DEF Took
    <3>2. \A p : p \in holds <=> (p \in Content[body] /\ p[1] # k[2]) \/ p = pair
      BY <1>4, <2>1 DEF holds
    <3>. QED
      BY <3>1, <3>2
  <2>. QED
    BY <1>6, <1>7, <1>11, <1>13, <2>6, <2>7 DEF Answer, Wants
<1>14. CASE fault # Fine
  <2>1. body' = body
    BY <1>6, <1>14 DEF Answer
  <2>2. Held' = Held
    BY <1>1, <2>1, HeldSame
  <2>. QED
    BY <1>6, <1>7, <1>11, <1>14, <2>2 DEF Answer, Wants
<1>. QED
  BY <1>13, <1>14

-----------------------------------------------------------------------------
(* A function that calls itself on what has a lower rank: its defining     *)
(* equation has one solution.                                              *)
Ranked(D, rank, V, E) ==
  /\ rank \in [D -> Nat] /\ V # {} /\ E \in [D \X [D -> V] -> V]
  /\ \A x \in D : \A f, g \in [D -> V] :
       (\A y \in D : rank[y] < rank[x] => f[y] = g[y]) => E[<<x, f>>] = E[<<x, g>>]

SolvesTo(D, rank, E, f, n) == \A x \in D : rank[x] < n => f[x] = E[<<x, f>>]

Carried(D, rank, f, g, n) ==
  \A x \in D : rank[x] < n /\ (\A y \in D : rank[y] < rank[x] => f[y] = g[y]) => f[x] = g[x]

LEMMA RankedAgree ==
  ASSUME NEW D, NEW rank \in [D -> Nat], NEW f, NEW g, NEW n \in Nat, Carried(D, rank, f, g, n)
  PROVE  \A x \in D : rank[x] < n => f[x] = g[x]
<1> DEFINE P == {m \in Nat : \A x \in D : rank[x] < m /\ m <= n => f[x] = g[x]}
<1>1. \A x \in D : rank[x] \in Nat
  OBVIOUS
<1>2. 0 \in P
  BY <1>1
<1>3. ASSUME NEW m \in Nat, m \in P PROVE m + 1 \in P
  <2> SUFFICES ASSUME m + 1 <= n, NEW x \in D, rank[x] < m + 1 PROVE f[x] = g[x]
    OBVIOUS
  <2>1. m <= n /\ rank[x] < n
    BY <1>1
  <2>2. ASSUME NEW y \in D, rank[y] < rank[x] PROVE f[y] = g[y]
    <3>1. rank[y] < m
      BY <1>1, <2>2
    <3>. QED
      BY <1>3, <2>1, <3>1
  <2>. QED
    BY <2>1, <2>2 DEF Carried
<1>. HIDE DEF P
<1>4. n \in P
  BY <1>2, <1>3, Induction
<1>. QED
  BY <1>4 DEF P

LEMMA RankedRecursion ==
  ASSUME NEW D, NEW rank, NEW V, NEW E, Ranked(D, rank, V, E)
  PROVE  \E f \in [D -> V] : \A x \in D : f[x] = E[<<x, f>>]
<1>0. /\ rank \in [D -> Nat] /\ V # {} /\ E \in [D \X [D -> V] -> V]
      /\ \A x \in D : \A f, g \in [D -> V] :
           (\A y \in D : rank[y] < rank[x] => f[y] = g[y]) => E[<<x, f>>] = E[<<x, g>>]
  BY DEF Ranked
<1>1. \A x \in D : rank[x] \in Nat
  BY <1>0
<1>2. ASSUME NEW n \in Nat, NEW f \in [D -> V], NEW g \in [D -> V],
             SolvesTo(D, rank, E, f, n), SolvesTo(D, rank, E, g, n)
      PROVE  \A x \in D : rank[x] < n => f[x] = g[x]
  <2>1. ASSUME NEW x \in D, rank[x] < n, \A y \in D : rank[y] < rank[x] => f[y] = g[y]
        PROVE  f[x] = g[x]
    BY <1>0, <1>2, <2>1 DEF SolvesTo
  <2>2. Carried(D, rank, f, g, n)
    BY <2>1 DEF Carried
  <2>. QED
    BY <1>0, <2>2, RankedAgree
<1> DEFINE P == {n \in Nat : \E f \in [D -> V] : SolvesTo(D, rank, E, f, n)}
<1>3. 0 \in P
  <2>1. PICK v \in V : TRUE
    BY <1>0
  <2>2. [x \in D |-> v] \in [D -> V]
    BY <2>1
  <2>3. \A x \in D : ~(rank[x] < 0)
    BY <1>1
  <2>4. SolvesTo(D, rank, E, [x \in D |-> v], 0)
    BY <2>3 DEF SolvesTo
  <2>. QED
    BY <2>2, <2>4
<1>4. ASSUME NEW n \in Nat, n \in P PROVE n + 1 \in P
  <2>1. PICK f \in [D -> V] : SolvesTo(D, rank, E, f, n)
    BY <1>4
  <2>2. PICK g \in [D -> V] : g = [x \in D |-> E[<<x, f>>]]
    BY <1>0
  <2>3. ASSUME NEW x \in D, rank[x] < n + 1 PROVE g[x] = E[<<x, g>>]
    <3>1. ASSUME NEW y \in D, rank[y] < rank[x] PROVE f[y] = g[y]
      <4>1. rank[y] < n
        BY <1>1, <2>3, <3>1
      <4>. QED
        BY <2>1, <2>2, <4>1 DEF SolvesTo
    <3>2. E[<<x, f>>] = E[<<x, g>>]
      BY <1>0, <3>1
    <3>. QED
      BY <2>2, <3>2
  <2>. QED
    BY <2>3 DEF SolvesTo
<1>. HIDE DEF P
<1>5. \A n \in Nat : \E f \in [D -> V] : SolvesTo(D, rank, E, f, n)
  BY <1>3, <1>4, Induction DEF P
<1> DEFINE F == [n \in Nat |-> CHOOSE f \in [D -> V] : SolvesTo(D, rank, E, f, n)]
<1>6. \A n \in Nat : F[n] \in [D -> V] /\ SolvesTo(D, rank, E, F[n], n)
  BY <1>5
<1>. HIDE DEF F
<1> DEFINE G == [x \in D |-> F[rank[x] + 1][x]]
<1>7. PICK g \in [D -> V] : \A x \in D : g[x] = F[rank[x] + 1][x]
  <2>1. \A x \in D : rank[x] + 1 \in Nat /\ F[rank[x] + 1][x] \in V
    <3>1. \A x \in D : rank[x] + 1 \in Nat
      BY <1>1
    <3>. QED
      BY <1>6, <3>1
  <2>2. G \in [D -> V]
    BY <2>1
  <2>. QED
    BY <2>2
<1>8. ASSUME NEW x \in D PROVE g[x] = E[<<x, g>>]
  <2>1. PICK n \in Nat : n = rank[x] + 1 /\ rank[x] < n
    BY <1>1
  <2>2. F[n][x] = E[<<x, F[n]>>] /\ F[n] \in [D -> V]
    BY <1>6, <2>1 DEF SolvesTo
  <2>3. ASSUME NEW y \in D, rank[y] < rank[x] PROVE F[n][y] = g[y]
    <3>1. PICK m \in Nat : m = rank[y] + 1 /\ rank[y] < m /\ m <= n
      BY <1>1, <2>1, <2>3
    <3>2. SolvesTo(D, rank, E, F[m], m) /\ F[m] \in [D -> V]
      BY <1>6
    <3>3. SolvesTo(D, rank, E, F[n], m)
      BY <1>1, <1>6, <3>1 DEF SolvesTo
    <3>4. F[m][y] = F[n][y]
      BY <1>2, <2>2, <3>1, <3>2, <3>3
    <3>. QED
      BY <1>7, <3>1, <3>4
  <2>4. E[<<x, F[n]>>] = E[<<x, g>>]
    BY <1>0, <2>2, <2>3
  <2>. QED
    BY <1>7, <2>1, <2>2, <2>4
<1>. QED
  BY <1>8

(* What is chosen to satisfy the equation is that solution.                *)
LEMMA RankedIs ==
  ASSUME NEW D, NEW rank, NEW V, NEW E, Ranked(D, rank, V, E), NEW f \in [D -> V], NEW g,
         \A x \in D : f[x] = E[<<x, f>>],
         \A x \in D : (\A y \in D : rank[y] < rank[x] => f[y] = g[y]) => g[x] = E[<<x, f>>]
  PROVE  \A x \in D : f[x] = g[x]
<1>1. rank \in [D -> Nat] /\ \A x \in D : rank[x] \in Nat
  BY DEF Ranked
<1>2. ASSUME NEW x \in D PROVE f[x] = g[x]
  <2>1. PICK n \in Nat : n = rank[x] + 1 /\ rank[x] < n
    BY <1>1
  <2>2. Carried(D, rank, f, g, n)
    BY DEF Carried
  <2>3. \A y \in D : rank[y] < n => f[y] = g[y]
    BY <1>1, <2>2, RankedAgree
  <2>. QED
    BY <2>1, <2>3
<1>. QED
  BY <1>2

-----------------------------------------------------------------------------
(* A trie has, with a node, all nodes on the way to it.                    *)
TrieGood(t) ==
  /\ t \in [DOMAIN t -> BOOLEAN] /\ DOMAIN t \subseteq Word /\ IsFiniteSet(DOMAIN t)
  /\ <<>> \in DOMAIN t
  /\ \A q \in DOMAIN t : \A m \in 0..Len(q) : SubSeq(q, 1, m) \in DOMAIN t

Starts(p, q) == Len(p) <= Len(q) /\ \A i \in 1..Len(p) : q[i] = p[i]
Under(t, p) == {q \in DOMAIN t : t[q] /\ Starts(p, q)}

LEMMA NextIs ==
  ASSUME NEW t, TrieGood(t), NEW p \in Word, NEW c
  PROVE  c \in NextChars(t, p) <=> c \in Int /\ Append(p, c) \in DOMAIN t
<1>1. DOMAIN t \subseteq Word
  BY DEF TrieGood
<1>2. ASSUME NEW r \in Word, r # <<>>
      PROVE  /\ Last(r) \in Int /\ Front(r) \in Word /\ r = Append(Front(r), Last(r))
  <2>1. PICK n \in Nat : n = Len(r) /\ n >= 1
    BY <1>2 DEF Word
  <2>2. \A i \in 1..n : r[i] \in Int
    BY <2>1 DEF Word
  <2>3. Last(r) = r[n] /\ r[n] \in Int
    BY <2>1, <2>2 DEF Last
  <2>4. Front(r) = SubSeq(r, 1, n - 1)
    BY <2>1 DEF Front
  <2>5. Front(r) \in Word /\ Len(Front(r)) = n - 1 /\ \A i \in 1..n - 1 : Front(r)[i] = r[i]
    BY <2>1, <2>2, <2>4 DEF Word
  <2>6. PICK u \in Seq(Int), e \in Int : u = Front(r) /\ e = r[n]
    BY <2>3, <2>5 DEF Word
  <2>10. PICK s \in Seq(Int) : s = Append(u, e) /\ Len(s) = Len(u) + 1 /\ s[Len(u) + 1] = e /\ \A i \in 1..Len(u) : s[i] = u[i]
    <3>1. Append(u, e) \in Seq(Int)
      OBVIOUS
    <3>2. PICK s \in Seq(Int) : s = Append(u, e)
      BY <3>1
    <3>3. Len(s) = Len(u) + 1 /\ s[Len(u) + 1] = e /\ \A i \in 1..Len(u) : s[i] = u[i]
      BY <3>2
    <3>. QED
      BY <3>2, <3>3
  <2>7. /\ Len(s) = n /\ \A i \in 1..n - 1 : s[i] = r[i]
        /\ s[n] = r[n]
    BY <2>1, <2>5, <2>6, <2>10
  <2>8. \A i \in 1..n : s[i] = r[i]
    BY <2>7
  <2>9. s = r
    BY <2>1, <2>7, <2>8, SeqEqual DEF Word
  <2>. QED
    BY <2>3, <2>5, <2>6, <2>9, <2>10
<1>3. ASSUME c \in NextChars(t, p) PROVE c \in Int /\ Append(p, c) \in DOMAIN t
  <2>1. PICK r \in DOMAIN t : r # <<>> /\ Front(r) = p /\ c = Last(r)
    BY <1>3 DEF NextChars
  <2>. QED
    BY <1>1, <1>2, <2>1
<1>4. ASSUME c \in Int, Append(p, c) \in DOMAIN t PROVE c \in NextChars(t, p)
  <2>1. PICK r \in Word : r = Append(p, c)
    BY <1>1, <1>4
  <2>2. PICK n \in Nat : n = Len(p)
    BY DEF Word
  <2>3. Len(r) = n + 1 /\ r # <<>> /\ r[n + 1] = c /\ \A i \in 1..n : r[i] = p[i]
    BY <1>4, <2>1, <2>2 DEF Word
  <2>4. Last(r) = c
    BY <2>3 DEF Last
  <2>5. Front(r) = p
    <3>1. Front(r) = SubSeq(r, 1, n)
      BY <2>2, <2>3 DEF Front
    <3>2. PICK s \in Seq(Int) : s = Front(r) /\ Len(s) = n /\ \A i \in 1..n : s[i] = r[i]
      BY <2>2, <2>3, <3>1 DEF Word
    <3>3. p \in Seq(Int) /\ \A i \in 1..n : s[i] = p[i]
      BY <2>3, <3>2 DEF Word
    <3>. QED
      BY <2>2, <3>2, <3>3, SeqEqual
  <2>. QED
    BY <1>4, <2>1, <2>3, <2>4, <2>5 DEF NextChars
<1>. QED
  BY <1>3, <1>4

(* The nodes one character longer, in order.                               *)
Chars(t, p) == InOrder(NextChars(t, p), LAMBDA a, b : a < b)
Lower == {z \in Int \X Int : z[1] < z[2]}

LEMMA IntsInOrder ==
  ASSUME NEW S \in SUBSET Int, IsFiniteSet(S)
  PROVE  Lists(InOrder(S, LAMBDA a, b : a < b), S, Lower)
<1>1. StrictOrder(S, Lower)
  BY DEF StrictOrder, Lower
<1>2. PICK res : res = InOrder(S, LAMBDA a, b : a < b)
  OBVIOUS
<1>3. res = [i \in 1..Cardinality(S) |-> CHOOSE x \in S : Cardinality({y \in S : y < x}) = i - 1]
  BY <1>2 DEF InOrder
<1>4. \A x \in S : Rank(S, Lower, x) = Cardinality({y \in S : y < x})
  <2> SUFFICES ASSUME NEW x \in S PROVE Rank(S, Lower, x) = Cardinality({y \in S : y < x})
    OBVIOUS
  <2>1. Lesser(S, Lower, x) = {y \in S : y < x}
    BY DEF Lesser, Lower
  <2>. QED
    BY <2>1 DEF Rank
<1>5. ASSUME NEW i \in 1..Cardinality(S), \E x \in S : Rank(S, Lower, x) = i - 1
      PROVE  res[i] \in S /\ Rank(S, Lower, res[i]) = i - 1
  <2>1. \E x \in S : Cardinality({y \in S : y < x}) = i - 1
    BY <1>4, <1>5
  <2>2. res[i] = CHOOSE x \in S : Cardinality({y \in S : y < x}) = i - 1
    BY <1>3
  <2>3. res[i] \in S /\ Cardinality({y \in S : y < res[i]}) = i - 1
    BY <2>1, <2>2
  <2>. QED
    BY <1>4, <2>3
<1>6. res = [i \in 1..Cardinality(S) |-> res[i]]
  <2> DEFINE Of(i) == CHOOSE x \in S : Cardinality({y \in S : y < x}) = i - 1
  <2>1. res = [i \in 1..Cardinality(S) |-> Of(i)]
    BY <1>3
  <2>. HIDE DEF Of
  <2>. QED
    BY <2>1
<1>. QED
  BY <1>1, <1>2, <1>5, <1>6, RanksList

LEMMA CharsIs ==
  ASSUME NEW t, TrieGood(t), NEW p \in Word
  PROVE  /\ Chars(t, p) \in Seq(Int) /\ ToSet(Chars(t, p)) = NextChars(t, p)
         /\ Ascends(Chars(t, p), Lower)
<1>1. NextChars(t, p) \in SUBSET Int
  BY NextIs
<1>2. IsFiniteSet(NextChars(t, p))
  <2> DEFINE D == {r \in DOMAIN t : r # <<>> /\ Front(r) = p}
             f == [r \in D |-> Last(r)]
  <2>1. IsFiniteSet(D)
    BY FS_Subset DEF TrieGood
  <2>2. NextChars(t, p) = {Last(r) : r \in D}
    BY DEF NextChars
  <2>3. f \in Surjection(D, NextChars(t, p))
    BY <2>2 DEF Surjection
  <2>. QED
    BY <2>1, <2>3, FS_Surjection
<1>3. Lists(Chars(t, p), NextChars(t, p), Lower)
  BY <1>1, <1>2, IntsInOrder DEF Chars
<1>. QED
  BY <1>1, <1>3 DEF Lists

TrieBody(t, p, walk) ==
  (IF t[p] THEN <<p>> ELSE <<>>)
    \o Joined([i \in DOMAIN Chars(t, p) |-> walk[Append(p, Chars(t, p)[i])]])

\* How many nodes are deeper.
Deeper(t, p) == {q \in DOMAIN t : Len(q) > Len(p)}
DepthRank(t) == [p \in DOMAIN t |-> Cardinality(Deeper(t, p))]

LEMMA DeeperIs ==
  ASSUME NEW t, TrieGood(t)
  PROVE  /\ DepthRank(t) \in [DOMAIN t -> Nat]
         /\ \A p, q \in DOMAIN t : Len(p) < Len(q) => DepthRank(t)[q] < DepthRank(t)[p]
<1>1. DOMAIN t \subseteq Word /\ IsFiniteSet(DOMAIN t)
  BY DEF TrieGood
<1>2. \A p \in DOMAIN t : Len(p) \in Nat
  BY <1>1 DEF Word
<1>3. ASSUME NEW p \in DOMAIN t PROVE IsFiniteSet(Deeper(t, p)) /\ Cardinality(Deeper(t, p)) \in Nat
  <2>1. Deeper(t, p) \in SUBSET DOMAIN t
    BY DEF Deeper
  <2>. QED
    BY <1>1, <2>1, FS_Subset, FS_CardinalityType
<1>4. ASSUME NEW p \in DOMAIN t, NEW q \in DOMAIN t, Len(p) < Len(q)
      PROVE  Cardinality(Deeper(t, q)) < Cardinality(Deeper(t, p))
  <2>1. PICK m \in Nat, n \in Nat : m = Len(p) /\ n = Len(q)
    BY <1>2
  <2>2. ASSUME NEW r \in DOMAIN t, Len(r) > n PROVE Len(r) > m
    BY <1>2, <1>4, <2>1, <2>2
  <2>3. Deeper(t, q) \subseteq Deeper(t, p) /\ q \in Deeper(t, p) /\ q \notin Deeper(t, q)
    BY <1>2, <1>4, <2>1, <2>2 DEF Deeper
  <2>. PICK A : A = Deeper(t, q)
    OBVIOUS
  <2>. PICK B : B = Deeper(t, p)
    OBVIOUS
  <2>4. A \in SUBSET B /\ A # B /\ IsFiniteSet(B) /\ Cardinality(A) \in Nat /\ Cardinality(B) \in Nat
    BY <1>3, <2>3
  <2>5. Cardinality(A) <= Cardinality(B) /\ (Cardinality(B) = Cardinality(A) => B = A)
    BY <2>4, FS_Subset
  <2>. QED
    BY <2>4, <2>5
<1>. QED
  BY <1>3, <1>4 DEF DepthRank

LEMMA AppendIs ==
  ASSUME NEW S, NEW u \in Seq(S), NEW e \in S
  PROVE  \E s \in Seq(S) : /\ s = Append(u, e) /\ Len(s) = Len(u) + 1 /\ s[Len(u) + 1] = e
                           /\ \A i \in 1..Len(u) : s[i] = u[i]
<1>1. Append(u, e) \in Seq(S)
  OBVIOUS
<1>2. PICK s \in Seq(S) : s = Append(u, e)
  BY <1>1
<1>3. Len(s) = Len(u) + 1 /\ s[Len(u) + 1] = e /\ \A i \in 1..Len(u) : s[i] = u[i]
  BY <1>2
<1>. QED
  BY <1>2, <1>3

(* The rows of the walk from a node.                                       *)
TrieRow(t, p, n, chars) ==
  /\ chars = Chars(t, p) /\ DOMAIN chars = 1..n
  /\ \A c : (\E i \in 1..n : chars[i] = c) <=> c \in Int /\ Append(p, c) \in DOMAIN t
  /\ \A i \in 1..n : Append(p, chars[i]) \in DOMAIN t /\ DepthRank(t)[Append(p, chars[i])] < DepthRank(t)[p]

LEMMA TrieRows ==
  ASSUME NEW t, TrieGood(t), NEW p \in DOMAIN t
  PROVE  \E n \in Nat : \E chars \in [1..n -> Int] : TrieRow(t, p, n, chars)
<1>0. p \in Word
  BY DEF TrieGood
<1>1. PICK chars \in Seq(Int) : chars = Chars(t, p) /\ ToSet(chars) = NextChars(t, p)
  BY <1>0, CharsIs
<1>2. PICK n \in Nat : n = Len(chars)
  OBVIOUS
<1>3. chars \in [1..n -> Int] /\ DOMAIN chars = 1..n
  BY <1>2
<1>4. \A c : (\E i \in 1..n : chars[i] = c) <=> c \in Int /\ Append(p, c) \in DOMAIN t
  <2>1. \A c : c \in ToSet(chars) <=> \E i \in 1..n : chars[i] = c
    BY <1>3 DEF ToSet
  <2>. QED
    BY <1>0, <1>1, <2>1, NextIs
<1>5. ASSUME NEW i \in 1..n
      PROVE  Append(p, chars[i]) \in DOMAIN t /\ DepthRank(t)[Append(p, chars[i])] < DepthRank(t)[p]
  <2>1. chars[i] \in Int /\ Append(p, chars[i]) \in DOMAIN t
    BY <1>3, <1>4
  <2>2. PICK q \in Seq(Int) : q = Append(p, chars[i]) /\ Len(q) = Len(p) + 1
    BY <1>0, <2>1, AppendIs DEF Word
  <2>3. Len(p) < Len(q)
    <3>1. Len(p) \in Nat
      BY <1>0 DEF Word
    <3>. QED
      BY <2>2, <3>1
  <2>. QED
    BY <2>1, <2>2, <2>3, DeeperIs
<1>. QED
  BY <1>1, <1>3, <1>4, <1>5 DEF TrieRow

All == Word \X Word

LEMMA TrieBodyIs ==
  ASSUME NEW t, TrieGood(t), NEW p \in DOMAIN t, NEW f \in [DOMAIN t -> Seq(Word)]
  PROVE  /\ TrieBody(t, p, f) \in Seq(Word)
         /\ \A q : q \in ToSet(TrieBody(t, p, f)) <=>
              \/ q = p /\ t[p]
              \/ \E c \in Int : Append(p, c) \in DOMAIN t /\ q \in ToSet(f[Append(p, c)])
<1>1. PICK n \in Nat : \E chars \in [1..n -> Int] : TrieRow(t, p, n, chars)
  BY TrieRows
<1>2. PICK chars \in [1..n -> Int] : TrieRow(t, p, n, chars)
  BY <1>1
<1>3. /\ chars = Chars(t, p) /\ DOMAIN chars = 1..n
      /\ \A c : (\E i \in 1..n : chars[i] = c) <=> c \in Int /\ Append(p, c) \in DOMAIN t
      /\ \A i \in 1..n : Append(p, chars[i]) \in DOMAIN t
  BY <1>2 DEF TrieRow
<1>4. PICK rows \in [1..n -> Seq(Word)] : rows = [i \in DOMAIN chars |-> f[Append(p, chars[i])]]
  BY <1>3
<1>5. \A s \in Seq(Word) : Ascends(s, All)
  BY DEF Ascends, All
<1>6. \A s \in Seq(Word) : ToSet(s) \subseteq Word
  BY DEF ToSet
<1>7. Chained(n, rows, All)
  BY <1>4, <1>5, <1>6 DEF Chained, All
<1>8. /\ Joined(rows) \in Seq(Word)
      /\ \A q : q \in ToSet(Joined(rows)) <=> \E i \in 1..n : q \in ToSet(rows[i])
  BY <1>7, JoinedLists
<1>9. PICK s \in Seq(Word) : s = (IF t[p] THEN <<p>> ELSE <<>>) /\ \A q : q \in ToSet(s) <=> q = p /\ t[p]
  <2>1. p \in Word
    BY DEF TrieGood
  <2>2. <<p>> \in Seq(Word) /\ Len(<<p>>) = 1 /\ <<p>>[1] = p
    BY <2>1, Single
  <2>3. ToSet(<<p>>) = {p} /\ ToSet(<<>>) = {}
    BY DEF ToSet
  <2>4. <<>> \in Seq(Word)
    OBVIOUS
  <2>. QED
    BY <2>2, <2>3, <2>4
<1>10. TrieBody(t, p, f) = s \o Joined(rows)
  BY <1>3, <1>4, <1>9 DEF TrieBody
<1>11. PICK u \in Seq(Word) : u = Joined(rows)
  BY <1>8
<1>12. s \o u \in Seq(Word) /\ ToSet(s \o u) = ToSet(s) \cup ToSet(u)
  <2>1. \A x \in ToSet(s), y \in ToSet(u) : <<x, y>> \in All
    BY <1>6 DEF All
  <2>. QED
    BY <1>5, <2>1, TwoLists, SMTT(30)
<1>13. ASSUME NEW q
       PROVE  (\E i \in 1..n : q \in ToSet(rows[i])) <=> \E c \in Int : Append(p, c) \in DOMAIN t /\ q \in ToSet(f[Append(p, c)])
  <2>1. \A i \in 1..n : rows[i] = f[Append(p, chars[i])] /\ chars[i] \in Int
    BY <1>3, <1>4
  <2>2. ASSUME NEW i \in 1..n, q \in ToSet(rows[i])
        PROVE  \E c \in Int : Append(p, c) \in DOMAIN t /\ q \in ToSet(f[Append(p, c)])
    <3>1. chars[i] \in Int /\ Append(p, chars[i]) \in DOMAIN t /\ q \in ToSet(f[Append(p, chars[i])])
      BY <1>3, <2>1, <2>2
    <3>. QED
      BY <3>1
  <2>3. ASSUME NEW c \in Int, Append(p, c) \in DOMAIN t, q \in ToSet(f[Append(p, c)])
        PROVE  \E i \in 1..n : q \in ToSet(rows[i])
    <3>1. PICK i \in 1..n : chars[i] = c
      BY <1>3, <2>3
    <3>2. rows[i] = f[Append(p, c)]
      BY <2>1, <3>1
    <3>. QED
      BY <2>3, <3>2
  <2>. QED
    BY <2>2, <2>3
<1>. QED
  BY <1>8, <1>9, <1>10, <1>11, <1>12, <1>13

LEMMA TrieWalkIs ==
  ASSUME NEW t, TrieGood(t)
  PROVE  \E walk \in [DOMAIN t -> Seq(Word)] :
           /\ \A p \in DOMAIN t : walk[p] = TrieBody(t, p, walk)
           /\ \A p \in DOMAIN t : trie_walk(t, p) = walk[p]
<1> DEFINE D == DOMAIN t
           V == Seq(Word)
           rank == DepthRank(t)
           E == [z \in D \X [D -> V] |-> TrieBody(t, z[1], z[2])]
<1>1. \A p \in D : \A f \in [D -> V] : TrieBody(t, p, f) \in V
  BY TrieBodyIs
<1>2. V # {} /\ E \in [D \X [D -> V] -> V]
  <2>1. <<>> \in V
    OBVIOUS
  <2>. QED
    BY <1>1, <2>1
<1>3. \A p \in D : \A f \in [D -> V] : E[<<p, f>>] = TrieBody(t, p, f)
  OBVIOUS
<1>4. ASSUME NEW p \in D, NEW f, NEW g, \A y \in D : rank[y] < rank[p] => f[y] = g[y]
      PROVE  TrieBody(t, p, f) = TrieBody(t, p, g)
  <2>1. PICK n \in Nat : \E chars \in [1..n -> Int] : TrieRow(t, p, n, chars)
    BY TrieRows
  <2>2. PICK chars \in [1..n -> Int] : TrieRow(t, p, n, chars)
    BY <2>1
  <2>3. /\ chars = Chars(t, p) /\ DOMAIN chars = 1..n
        /\ \A i \in 1..n : f[Append(p, chars[i])] = g[Append(p, chars[i])]
    BY <1>4, <2>2 DEF TrieRow
  <2>4. [i \in DOMAIN chars |-> f[Append(p, chars[i])]] = [i \in DOMAIN chars |-> g[Append(p, chars[i])]]
    BY <2>3
  <2>. QED
    BY <2>3, <2>4 DEF TrieBody
<1>. HIDE DEF E, V
<1>5. Ranked(D, rank, V, E)
  <2>1. rank \in [D -> Nat]
    BY DeeperIs
  <2>2. \A p \in D : \A f, g \in [D -> V] :
          (\A y \in D : rank[y] < rank[p] => f[y] = g[y]) => E[<<p, f>>] = E[<<p, g>>]
    BY <1>3, <1>4
  <2>. QED
    BY <1>2, <2>1, <2>2 DEF Ranked
<1>6. PICK walk \in [D -> V] : \A p \in D : walk[p] = E[<<p, walk>>]
  BY <1>5, RankedRecursion
<1>7. \A p \in D : walk[p] = TrieBody(t, p, walk)
  BY <1>3, <1>6
<1> DEFINE Fits(g) == g = [p \in D |-> TrieBody(t, p, g)]
           chosen == CHOOSE g : Fits(g)
<1>8. Fits(chosen)
  <2>1. Fits(walk)
    BY <1>7
  <2>. QED
    BY <2>1
<1>9. \A p : trie_walk(t, p) = chosen[p]
  BY DEF trie_walk, TrieBody, Chars
<1>. HIDE DEF chosen
<1>10. \A p \in D : chosen[p] = TrieBody(t, p, chosen)
  BY <1>8
<1>11. \A p \in D : walk[p] = chosen[p]
  <2>1. ASSUME NEW p \in D, \A y \in D : rank[y] < rank[p] => walk[y] = chosen[y]
        PROVE  chosen[p] = E[<<p, walk>>]
    BY <1>4, <1>6, <1>7, <1>10, <2>1
  <2>. QED
    BY <1>5, <1>6, <2>1, RankedIs
<1>. QED
  BY <1>7, <1>9, <1>11 DEF V

LEMMA SubSeqIs ==
  ASSUME NEW S, NEW q \in Seq(S), NEW m \in 0..Len(q)
  PROVE  /\ SubSeq(q, 1, m) \in Seq(S) /\ Len(SubSeq(q, 1, m)) = m
         /\ \A i \in 1..m : SubSeq(q, 1, m)[i] = q[i]
<1>1. PICK n \in Nat : n = Len(q)
  OBVIOUS
<1>2. m \in Nat /\ m <= n /\ \A i \in 1..m : i \in 1..n
  BY <1>1
<1>3. \A i \in 1..n : q[i] \in S
  BY <1>1
<1>. QED
  BY <1>1, <1>2, <1>3

IsCut(u, q, m) == Len(u) = m /\ \A i \in 1..m : u[i] = q[i]

LEMMA Cut ==
  ASSUME NEW S, NEW q \in Seq(S), NEW n, n = Len(q), NEW m \in 0..n
  PROVE  \E u \in Seq(S) : u = SubSeq(q, 1, m) /\ IsCut(u, q, m)
<1>1. PICK u \in Seq(S) : u = SubSeq(q, 1, m)
  BY SubSeqIs
<1>2. IsCut(u, q, m)
  BY <1>1, SubSeqIs DEF IsCut
<1>. QED
  BY <1>1, <1>2

IsLonger(s, u, n, e) == Len(s) = n + 1 /\ s[n + 1] = e /\ \A i \in 1..n : s[i] = u[i]

LEMMA Longer ==
  ASSUME NEW S, NEW u \in Seq(S), NEW n, n = Len(u), NEW e \in S
  PROVE  \E s \in Seq(S) : s = Append(u, e) /\ IsLonger(s, u, n, e)
<1>1. Append(u, e) \in Seq(S)
  OBVIOUS
<1>2. PICK s \in Seq(S) : s = Append(u, e)
  BY <1>1
<1>3. Len(s) = n + 1 /\ s[n + 1] = e /\ \A i \in 1..n : s[i] = u[i]
  BY <1>2
<1>. QED
  BY <1>2, <1>3 DEF IsLonger

LEMMA UnderIs ==
  ASSUME NEW t, TrieGood(t), NEW p \in DOMAIN t, NEW q
  PROVE  q \in Under(t, p) <=>
           \/ q = p /\ t[p]
           \/ \E c \in Int : Append(p, c) \in DOMAIN t /\ q \in Under(t, Append(p, c))
<1>1. DOMAIN t \subseteq Seq(Int) /\ \A r \in DOMAIN t : \A m \in 0..Len(r) : SubSeq(r, 1, m) \in DOMAIN t
  BY DEF TrieGood, Word
<1>2. PICK n \in Nat : n = Len(p) /\ p \in Seq(Int)
  BY <1>1
<1>3. ASSUME q \in Under(t, p), q # p
      PROVE  \E c \in Int : Append(p, c) \in DOMAIN t /\ q \in Under(t, Append(p, c))
  <2>1. q \in DOMAIN t /\ t[q] /\ q \in Seq(Int) /\ n <= Len(q) /\ \A i \in 1..n : q[i] = p[i]
    BY <1>1, <1>2, <1>3 DEF Under, Starts
  <2>2. PICK m \in Nat : m = Len(q)
    BY <2>1
  <2>3. m # n
    BY <1>2, <1>3, <2>1, <2>2, SeqEqual
  <2>4. n + 1 <= m /\ n + 1 \in 0..m /\ n + 1 \in 1..m
    BY <2>1, <2>2, <2>3
  <2>5. PICK c \in Int : c = q[n + 1]
    BY <2>1, <2>2, <2>4
  <2>6. PICK s \in Seq(Int) : s = Append(p, c) /\ IsLonger(s, p, n, c)
    BY <1>2, Longer
  <2>7. PICK u \in Seq(Int) : u = SubSeq(q, 1, n + 1) /\ IsCut(u, q, n + 1)
    BY <2>1, <2>2, <2>4, Cut
  <2>8. \A i \in 1..n + 1 : i \in 1..n \/ i = n + 1
    OBVIOUS
  <2>9. \A i \in 1..n + 1 : s[i] = q[i]
    BY <2>1, <2>5, <2>6, <2>8 DEF IsLonger
  <2>10. s = u
    BY <2>6, <2>7, <2>9, SeqEqual DEF IsLonger, IsCut
  <2>11. s \in DOMAIN t
    BY <1>1, <2>1, <2>2, <2>4, <2>7, <2>10
  <2>12. Starts(s, q)
    BY <2>2, <2>4, <2>6, <2>9 DEF Starts, IsLonger
  <2>. QED
    BY <2>1, <2>6, <2>11, <2>12 DEF Under
<1>4. ASSUME q = p, t[p] PROVE q \in Under(t, p)
  <2>1. Len(p) <= Len(p)
    BY <1>2
  <2>. QED
    BY <1>4, <2>1 DEF Under, Starts
<1>5. ASSUME NEW c \in Int, Append(p, c) \in DOMAIN t, q \in Under(t, Append(p, c))
      PROVE  q \in Under(t, p)
  <2>1. PICK s \in Seq(Int) : s = Append(p, c) /\ IsLonger(s, p, n, c)
    BY <1>2, Longer
  <2>2. q \in DOMAIN t /\ t[q] /\ Len(q) \in Nat /\ n + 1 <= Len(q) /\ \A i \in 1..n + 1 : q[i] = s[i]
    BY <1>1, <1>5, <2>1, SMTT(30) DEF Under, Starts, IsLonger
  <2>3. n <= Len(q) /\ \A i \in 1..n : i \in 1..n + 1
    BY <2>2
  <2>. QED
    BY <1>2, <2>1, <2>2, <2>3 DEF Under, Starts, IsLonger
<1>6. q = p /\ q \in Under(t, p) => t[p]
  BY DEF Under
<1>. QED
  BY <1>3, <1>4, <1>5, <1>6

(* The words of a trie are the nodes that are flagged.                     *)
Flagged(t) == {q \in DOMAIN t : t[q]}

LEMMA WordsIs ==
  ASSUME NEW t, TrieGood(t)
  PROVE  WordsOf(t) = Flagged(t)
<1>1. PICK walk \in [DOMAIN t -> Seq(Word)] :
        /\ \A p \in DOMAIN t : walk[p] = TrieBody(t, p, walk)
        /\ \A p \in DOMAIN t : trie_walk(t, p) = walk[p]
  BY TrieWalkIs
<1> DEFINE f == [p \in DOMAIN t |-> ToSet(walk[p])]
           g == [p \in DOMAIN t |-> Under(t, p)]
           rank == DepthRank(t)
<1>2. rank \in [DOMAIN t -> Nat]
  BY DeeperIs
<1>3. ASSUME NEW p \in DOMAIN t, \A y \in DOMAIN t : rank[y] < rank[p] => f[y] = g[y]
      PROVE  f[p] = g[p]
  <2>0. p \in Seq(Int)
    BY DEF TrieGood, Word
  <2>1. ASSUME NEW c \in Int, Append(p, c) \in DOMAIN t
        PROVE  ToSet(walk[Append(p, c)]) = Under(t, Append(p, c))
    <3>1. PICK s \in Seq(Int) : s = Append(p, c) /\ Len(s) = Len(p) + 1
      BY <2>0, AppendIs
    <3>2. Len(p) < Len(s)
      <4>1. Len(p) \in Nat
        BY <2>0
      <4>. QED
        BY <3>1, <4>1
    <3>3. rank[s] < rank[p]
      BY <2>1, <3>1, <3>2, DeeperIs
    <3>. HIDE DEF rank
    <3>4. f[s] = g[s] /\ s \in DOMAIN t
      BY <1>3, <2>1, <3>1, <3>3
    <3>. QED
      BY <3>1, <3>4
  <2>2. \A q : q \in ToSet(walk[p]) <=>
           \/ q = p /\ t[p]
           \/ \E c \in Int : Append(p, c) \in DOMAIN t /\ q \in ToSet(walk[Append(p, c)])
    BY <1>1, TrieBodyIs
  <2>3. \A q : q \in ToSet(walk[p]) <=> q \in Under(t, p)
    BY <2>1, <2>2, UnderIs
  <2>4. ToSet(walk[p]) = Under(t, p)
    <3>1. Under(t, p) \subseteq ToSet(walk[p]) /\ ToSet(walk[p]) \subseteq Under(t, p)
      BY <2>3
    <3>. QED
      BY <3>1
  <2>. QED
    BY <2>4
<1>4. <<>> \in DOMAIN t
  BY DEF TrieGood
<1>5. f[<<>>] = g[<<>>]
  <2>1. PICK n \in Nat : n = rank[<<>>] + 1 /\ rank[<<>>] < n
    BY <1>2, <1>4
  <2>2. Carried(DOMAIN t, rank, f, g, n)
    BY <1>3 DEF Carried
  <2>. HIDE DEF f, g, rank
  <2>. QED
    BY <1>2, <1>4, <2>1, <2>2, RankedAgree
<1>6. Under(t, <<>>) = Flagged(t)
  <2>1. \A q \in DOMAIN t : Starts(<<>>, q)
    <3> SUFFICES ASSUME NEW q \in DOMAIN t PROVE Starts(<<>>, q)
      OBVIOUS
    <3>1. q \in Seq(Int)
      BY DEF TrieGood, Word
    <3>2. Len(<<>>) = 0 /\ 0 <= Len(q) /\ \A i \in 1..0 : FALSE
      BY <3>1
    <3>. QED
      BY <3>2 DEF Starts
  <2>. QED
    BY <2>1 DEF Under, Flagged
<1>. QED
  BY <1>1, <1>4, <1>5, <1>6 DEF WordsOf

(* trie_put adds a word.                                                   *)
LEMMA TriePuts ==
  ASSUME NEW t, TrieGood(t), NEW key \in Word
  PROVE  /\ TrieGood(trie_put(t, key)) /\ Flagged(trie_put(t, key)) = Flagged(t) \cup {key}
<1> DEFINE D == DOMAIN t
           P == Prefixes(key)
<1>0. /\ t \in [D -> BOOLEAN] /\ D \subseteq Word /\ IsFiniteSet(D) /\ <<>> \in D
      /\ \A q \in D : \A m \in 0..Len(q) : SubSeq(q, 1, m) \in D
  BY DEF TrieGood
<1>1. PICK n \in Nat : n = Len(key) /\ key \in Seq(Int)
  BY DEF Word
<1>2. P = {SubSeq(key, 1, m) : m \in 0..n}
  BY <1>1 DEF Prefixes
<1>3. ASSUME NEW m \in 0..n
      PROVE  /\ SubSeq(key, 1, m) \in Word
             /\ \A l \in 0..Len(SubSeq(key, 1, m)) : SubSeq(SubSeq(key, 1, m), 1, l) \in P
  <2>1. PICK s \in Seq(Int) : s = SubSeq(key, 1, m) /\ IsCut(s, key, m)
    BY <1>1, Cut
  <2>2. ASSUME NEW l \in 0..m PROVE SubSeq(s, 1, l) \in P
    <3>1. PICK u \in Seq(Int) : u = SubSeq(s, 1, l) /\ IsCut(u, s, l)
      <4>1. m = Len(s)
        BY <2>1 DEF IsCut
      <4>. QED
        BY <4>1, Cut
    <3>2. l \in 0..n /\ \A i \in 1..l : i \in 1..m
      OBVIOUS
    <3>3. PICK w \in Seq(Int) : w = SubSeq(key, 1, l) /\ IsCut(w, key, l)
      BY <1>1, <3>2, Cut
    <3>4. u = w
      BY <2>1, <3>1, <3>2, <3>3, SeqEqual DEF IsCut
    <3>. QED
      BY <1>2, <3>1, <3>2, <3>3, <3>4
  <2>3. Len(s) = m
    BY <2>1 DEF IsCut
  <2>. QED
    BY <2>1, <2>2, <2>3 DEF Word
<1>4. P \subseteq Word /\ \A q \in P : \A l \in 0..Len(q) : SubSeq(q, 1, l) \in P
  BY <1>2, <1>3
<1>5. key \in P
  <2>1. n \in 0..n
    OBVIOUS
  <2>2. SubSeq(key, 1, n) = key
    BY <1>1, <2>1, SubSeqIs, SeqEqual
  <2>. QED
    BY <1>2, <2>1, <2>2
<1>6. IsFiniteSet(P)
  <2> DEFINE f == [m \in 0..n |-> SubSeq(key, 1, m)]
  <2>1. f \in Surjection(0..n, P)
    BY <1>2 DEF Surjection
  <2>2. PICK z \in Int : z = 0
    OBVIOUS
  <2>3. IsFiniteSet(z..n)
    BY FS_Interval
  <2>4. IsFiniteSet(0..n)
    BY <2>2, <2>3
  <2>. QED
    BY <2>1, <2>4, FS_Surjection
<1>. HIDE DEF P
<1>7. IsFiniteSet(D \cup P)
  BY <1>0, <1>6, FS_Union
<1>8. PICK t2 : t2 = trie_put(t, key)
  OBVIOUS
<1>9. t2 = [p \in D \cup P |-> p = key \/ (p \in D /\ t[p])]
  BY <1>8, Zenon DEF trie_put, P
<1>10. t2 \in [D \cup P -> BOOLEAN] /\ \A p \in D \cup P : t2[p] <=> p = key \/ (p \in D /\ t[p])
  BY <1>9, Zenon
<1>11. DOMAIN t2 = D \cup P
  BY <1>9
<1>12. TrieGood(t2)
  <2>1. \A q \in D \cup P : \A m \in 0..Len(q) : SubSeq(q, 1, m) \in D \cup P
    BY <1>0, <1>4
  <2>. QED
    BY <1>0, <1>4, <1>7, <1>10, <1>11, <2>1 DEF TrieGood
<1>13. Flagged(t2) = Flagged(t) \cup {key}
  <2>1. \A q : q \in Flagged(t2) <=> q \in D \cup P /\ (q = key \/ (q \in D /\ t[q]))
    BY <1>10, <1>11, Zenon DEF Flagged
  <2>2. \A q : q \in Flagged(t) <=> q \in D /\ t[q]
    BY DEF Flagged
  <2>. QED
    BY <1>5, <2>1, <2>2, Zenon
<1>. QED
  BY <1>8, <1>12, <1>13

Tries ==
  kind = "ti" =>
    /\ body = [trie |-> body.trie, trie_n |-> body.trie_n] /\ TrieGood(body.trie)
    /\ body.trie_n = Cardinality(Flagged(body.trie)) /\ body.trie_n <= BufMax["ti"]

LEMMA FlaggedIs ==
  ASSUME NEW t, TrieGood(t)
  PROVE  IsFiniteSet(Flagged(t)) /\ Cardinality(Flagged(t)) \in Nat
<1>1. Flagged(t) \in SUBSET DOMAIN t /\ IsFiniteSet(DOMAIN t)
  BY DEF Flagged, TrieGood
<1>. QED
  BY <1>1, FS_Subset, FS_CardinalityType

LEMMA PutTrieWord ==
  ASSUME kind = "ti", Tries, NEW k \in Operands["ti"], NEW x, PutTrie(k, x)
  PROVE  Contract!PutWord(k, x) /\ Tries'
<1>1. UNCHANGED <<kind, size, freed>> /\ k \in Operand
  BY OperandAssumption DEF PutTrie, Keep, Kinds
<1>2. PICK t, n : body = [trie |-> t, trie_n |-> n] /\ t = body.trie /\ n = body.trie_n
  BY DEF Tries
<1>3. TrieGood(t) /\ n = Cardinality(Flagged(t)) /\ n <= BufMax["ti"] /\ n \in Nat /\ IsFiniteSet(Flagged(t))
  BY <1>2, FlaggedIs DEF Tries
<1>4. Held = Flagged(t)
  BY <1>2, <1>3, HeldIs, WordsIs DEF Shows
<1> DEFINE there == trie_has(t, k[2])
           fits == there \/ n + 1 <= BufMax["ti"]
           more == Cardinality(Held \cup {k[2]})
           fault == excl(x, freed) ?? key_str(k) ?? Unless(BOUNDS, fits)
           asked == excl(x, freed) ?? key_str(k) ?? room(kind, more)
           next == IF there THEN body ELSE [trie |-> trie_put(t, k[2]), trie_n |-> n + 1]
           holds == Held \cup {k[2]}
<1>5. Answer("pt", fault, next, None)
  BY <1>2 DEF PutTrie
<1>6. Contract!PutWord(k, x) <=> Wants("pt", asked, holds, None)
  BY ContractPutWord
<1>7. there <=> k[2] \in Flagged(t)
  BY DEF trie_has, Flagged
<1>8. more = IF there THEN n ELSE n + 1
  BY <1>3, <1>4, <1>7, FS_AddElement
<1>9. BufMax["ti"] \in Nat
  BY CollAssumption DEF Kinds
<1>10. room(kind, more) = Unless(BOUNDS, fits)
  <2>. PICK m : m = more
    OBVIOUS
  <2>. HIDE DEF more, there
  <2>1. m <= BufMax["ti"] <=> fits
    BY <1>3, <1>8, <1>9
  <2>. HIDE DEF fits
  <2>. QED
    BY <2>1 DEF room, Unless
<1>11. asked = fault
  BY <1>10
<1>12. fault = Fine => IsWord(k) /\ fits
  <2>. HIDE DEF fits
  <2>. PICK f : f = fits
    OBVIOUS
  <2>1. fault = Fine => key_str(k) = Fine /\ Unless(BOUNDS, f) = Fine
    BY BothPass
  <2>. QED
    BY <2>1, ChecksPass, Passes
<1>. HIDE DEF fault, asked, more, fits, there
<1>13. CASE fault = Fine
  <2>1. PICK w \in Word : w = k[2]
    BY <1>1, <1>12, <1>13, OperandIs DEF IsWord, Word
  <2>2. body' = next
    BY <1>5, <1>13 DEF Answer
  <2>3. CASE there
    <3>1. body' = body
      BY <2>2, <2>3
    <3>2. Held' = Held /\ Held = holds
      BY <1>1, <1>4, <1>7, <2>3, <3>1, HeldSame
    <3>3. Tries'
      BY <1>1, <3>1 DEF Tries
    <3>. QED
      BY <1>5, <1>6, <1>11, <1>13, <3>2, <3>3 DEF Answer, Wants
  <2>4. CASE ~there
    <3>1. PICK t2 : t2 = trie_put(t, w)
      OBVIOUS
    <3>2. TrieGood(t2) /\ Flagged(t2) = Flagged(t) \cup {w}
      BY <1>3, <3>1, TriePuts
    <3>3. body' = [trie |-> t2, trie_n |-> n + 1]
      BY <2>1, <2>2, <2>4, <3>1
    <3>4. body'.trie = t2 /\ body'.trie_n = n + 1
      BY <3>3
    <3>5. Held' = Flagged(t2)
      BY <1>1, <3>2, <3>4, HeldNext, WordsIs DEF Shows
    <3>6. Cardinality(Flagged(t2)) = n + 1 /\ n + 1 <= BufMax["ti"]
      <4>1. Cardinality(Flagged(t) \cup {w}) = n + 1
        BY <1>3, <1>7, <2>1, <2>4, FS_AddElement
      <4>2. fits
        BY <1>12, <1>13
      <4>. QED
        BY <2>4, <3>2, <4>1, <4>2 DEF fits
    <3>7. Tries'
      BY <1>1, <3>2, <3>3, <3>4, <3>6 DEF Tries
    <3>8. Held' = holds
      BY <1>4, <2>1, <3>2, <3>5
    <3>. QED
      BY <1>5, <1>6, <1>11, <1>13, <3>7, <3>8 DEF Answer, Wants
  <2>. QED
    BY <2>3, <2>4
<1>14. CASE fault # Fine
  <2>1. body' = body
    BY <1>5, <1>14 DEF Answer
  <2>2. Held' = Held
    BY <1>1, <2>1, HeldSame
  <2>3. Tries'
    BY <1>1, <2>1 DEF Tries
  <2>. QED
    BY <1>5, <1>6, <1>11, <1>14, <2>2, <2>3 DEF Answer, Wants
<1>. QED
  BY <1>13, <1>14

-----------------------------------------------------------------------------
(* Heaps: the pairs in order, and where the parent of a place is.          *)
Item == Int \X Nat
AtMost(a, b) == ~TupleLess(b, a)

LEMMA ItemOrder ==
  \A a, b, c \in Item :
    /\ AtMost(a, a)
    /\ AtMost(a, b) /\ AtMost(b, c) => AtMost(a, c)
    /\ TupleLess(a, b) => AtMost(a, b)
    /\ AtMost(a, b) => a[1] <= b[1]
BY DEF Item, AtMost, TupleLess

LEMMA Halves2 ==
  \A j \in Nat : j >= 2 => /\ j \div 2 \in Nat /\ j \div 2 >= 1 /\ j \div 2 < j
                           /\ (j = 2 * (j \div 2) \/ j = 2 * (j \div 2) + 1)
OBVIOUS

LEMMA HeapIs ==
  ASSUME NEW heap \in Heaps, NEW n, n = Len(heap)
  PROVE  n \in Nat /\ heap \in [1..n -> Item] /\ DOMAIN heap = 1..n
<1>1. heap \in Seq(Item)
  BY DEF Heaps, Item
<1>. QED
  BY <1>1

LEMMA SwapIs ==
  ASSUME NEW n \in Nat, NEW heap \in [1..n -> Item], NEW i \in 1..n, NEW j \in 1..n
  PROVE  /\ Swapped(heap, i, j) \in [1..n -> Item] /\ Swapped(heap, i, j) \in Heaps
         /\ Len(Swapped(heap, i, j)) = n
         /\ \A k \in 1..n : Swapped(heap, i, j)[k] = IF k = j THEN heap[i] ELSE IF k = i THEN heap[j] ELSE heap[k]
<1>1. PICK t : t = Swapped(heap, i, j)
  OBVIOUS
<1>2. t \in [1..n -> Item] /\ \A k \in 1..n : t[k] = IF k = j THEN heap[i] ELSE IF k = i THEN heap[j] ELSE heap[k]
  BY <1>1 DEF Swapped
<1>3. t \in Seq(Item) /\ Len(t) = n
  BY <1>2, AsSeq
<1>. QED
  BY <1>1, <1>2, <1>3 DEF Heaps, Item

(* SiftUp and SiftDown call themselves nearer the root, nearer the leaves. *)
UpBody(p, up) ==
  LET heap == p[1]
      i == p[2]
  IN  IF i = 1 \/ ~TupleLess(heap[i], heap[i \div 2]) THEN heap
      ELSE up[<<Swapped(heap, i, i \div 2), i \div 2>>]

DownBody(p, down) ==
  LET heap == p[1]
      i == p[2]
      small == Smaller(heap, Smaller(heap, i, 2 * i), 2 * i + 1)
  IN  IF small = i THEN heap ELSE down[<<Swapped(heap, i, small), small>>]

LEMMA PlaceIs ==
  /\ \A heap \in Heaps : \A i \in 1..Len(heap) : <<heap, i>> \in Places
  /\ \A p \in Places : p = <<p[1], p[2]>> /\ p[1] \in Heaps /\ Len(p[1]) \in Nat /\ p[2] \in 1..Len(p[1])
<1>1. ASSUME NEW heap \in Heaps, NEW i \in 1..Len(heap) PROVE <<heap, i>> \in Places
  <2>1. i \in Nat /\ i \in DOMAIN heap
    BY HeapIs
  <2>. QED
    BY <2>1 DEF Places
<1>2. ASSUME NEW p \in Places
      PROVE  p = <<p[1], p[2]>> /\ p[1] \in Heaps /\ Len(p[1]) \in Nat /\ p[2] \in 1..Len(p[1])
  <2>1. p \in Heaps \X Nat /\ p[2] \in DOMAIN p[1]
    BY DEF Places
  <2>2. p[1] \in Heaps /\ p = <<p[1], p[2]>>
    BY <2>1
  <2>. QED
    BY <2>1, <2>2, HeapIs
<1>. QED
  BY <1>1, <1>2

LEMMA UpCall ==
  ASSUME NEW p \in Places, p[2] # 1
  PROVE  /\ <<Swapped(p[1], p[2], p[2] \div 2), p[2] \div 2>> \in Places
         /\ p[2] \div 2 \in Nat /\ p[2] \div 2 < p[2]
<1>1. p[1] \in Heaps /\ Len(p[1]) \in Nat /\ p[2] \in 1..Len(p[1])
  BY PlaceIs
<1>2. PICK heap \in Heaps, n \in Nat : heap = p[1] /\ n = Len(heap)
  BY <1>1
<1>3. PICK i \in 1..n : i = p[2] /\ i >= 2
  BY <1>1, <1>2
<1>4. PICK j \in Nat : j = i \div 2 /\ j >= 1 /\ j < i
  BY <1>3, Halves2
<1>5. j \in 1..n
  BY <1>4
<1>6. Swapped(heap, i, j) \in Heaps /\ Len(Swapped(heap, i, j)) = n
  BY <1>2, <1>5, HeapIs, SwapIs
<1>. QED
  BY <1>2, <1>3, <1>4, <1>5, <1>6, PlaceIs

SmallOf(heap, i) == Smaller(heap, Smaller(heap, i, 2 * i), 2 * i + 1)

LEMMA SmallIs ==
  ASSUME NEW n \in Nat, NEW heap \in [1..n -> Item], n = Len(heap), NEW i \in 1..n
  PROVE  /\ SmallOf(heap, i) \in 1..n
         /\ SmallOf(heap, i) = i \/ SmallOf(heap, i) = 2 * i \/ SmallOf(heap, i) = 2 * i + 1
         /\ AtMost(heap[SmallOf(heap, i)], heap[i])
         /\ 2 * i <= n => AtMost(heap[SmallOf(heap, i)], heap[2 * i])
         /\ 2 * i + 1 <= n => AtMost(heap[SmallOf(heap, i)], heap[2 * i + 1])
<1>1. PICK a : a = Smaller(heap, i, 2 * i)
  OBVIOUS
<1>2. /\ a \in 1..n /\ (a = i \/ a = 2 * i) /\ AtMost(heap[a], heap[i])
      /\ 2 * i <= n => AtMost(heap[a], heap[2 * i])
  <2>1. CASE 2 * i <= n /\ TupleLess(heap[2 * i], heap[i])
    <3>1. a = 2 * i /\ 2 * i \in 1..n
      BY <1>1, <2>1 DEF Smaller
    <3>2. heap[2 * i] \in Item /\ heap[i] \in Item
      BY <3>1
    <3>. QED
      BY <2>1, <3>1, <3>2, ItemOrder
  <2>2. CASE ~(2 * i <= n /\ TupleLess(heap[2 * i], heap[i]))
    <3>1. a = i
      BY <1>1, <2>2 DEF Smaller
    <3>2. heap[i] \in Item
      OBVIOUS
    <3>. QED
      BY <2>2, <3>1, <3>2, ItemOrder DEF AtMost
  <2>. QED
    BY <2>1, <2>2
<1>3. PICK b : b = Smaller(heap, a, 2 * i + 1) /\ b = SmallOf(heap, i)
  BY <1>1 DEF SmallOf
<1>4. CASE 2 * i + 1 <= n /\ TupleLess(heap[2 * i + 1], heap[a])
  <2>1. b = 2 * i + 1 /\ 2 * i + 1 \in 1..n
    BY <1>3, <1>4 DEF Smaller
  <2>2. heap[b] \in Item /\ heap[a] \in Item /\ heap[i] \in Item
    BY <1>2, <2>1
  <2>3. AtMost(heap[b], heap[a]) /\ AtMost(heap[b], heap[b])
    BY <1>4, <2>1, <2>2, ItemOrder
  <2>4. AtMost(heap[b], heap[i])
    BY <1>2, <2>2, <2>3, ItemOrder
  <2>5. 2 * i <= n => AtMost(heap[b], heap[2 * i])
    <3>1. SUFFICES ASSUME 2 * i <= n PROVE AtMost(heap[b], heap[2 * i])
      OBVIOUS
    <3>2. 2 * i \in 1..n
      BY <3>1
    <3>3. heap[2 * i] \in Item
      BY <3>2
    <3>. QED
      BY <1>2, <2>2, <2>3, <3>1, <3>3, ItemOrder
  <2>. QED
    BY <1>3, <2>1, <2>3, <2>4, <2>5
<1>5. CASE ~(2 * i + 1 <= n /\ TupleLess(heap[2 * i + 1], heap[a]))
  <2>1. b = a
    BY <1>3, <1>5 DEF Smaller
  <2>. QED
    BY <1>2, <1>3, <1>5, <2>1 DEF AtMost
<1>. QED
  BY <1>4, <1>5

LEMMA DownCall ==
  ASSUME NEW p \in Places, NEW small, small = SmallOf(p[1], p[2]), small # p[2]
  PROVE  /\ <<Swapped(p[1], p[2], small), small>> \in Places
         /\ Len(Swapped(p[1], p[2], small)) = Len(p[1]) /\ small \in 1..Len(p[1]) /\ small > p[2]
<1>1. p[1] \in Heaps /\ Len(p[1]) \in Nat /\ p[2] \in 1..Len(p[1])
  BY PlaceIs
<1>2. PICK heap \in Heaps, n \in Nat : heap = p[1] /\ n = Len(heap)
  BY <1>1
<1>3. PICK i \in 1..n : i = p[2]
  BY <1>1, <1>2
<1>4. heap \in [1..n -> Item]
  BY <1>2, HeapIs
<1>5. small \in 1..n /\ (small = i \/ small = 2 * i \/ small = 2 * i + 1)
  BY <1>2, <1>3, <1>4, SmallIs
<1>6. small > i
  BY <1>3, <1>5
<1>7. Swapped(heap, i, small) \in Heaps /\ Len(Swapped(heap, i, small)) = n
  BY <1>4, <1>5, SwapIs
<1>. QED
  BY <1>2, <1>3, <1>5, <1>6, <1>7, PlaceIs

(* Both sift: each is its own body, on a smaller rank.                     *)
UpRank == [p \in Places |-> p[2]]
DownRank == [p \in Places |-> Len(p[1]) - p[2]]

LEMMA SiftUpIs ==
  /\ SiftUp \in [Places -> Heaps]
  /\ \A p \in Places : SiftUp[p] = UpBody(p, SiftUp)
<1> DEFINE D == Places
           V == Heaps
           rank == UpRank
           E == [z \in D \X [D -> V] |-> UpBody(z[1], z[2])]
<1>1. \A p \in D : rank[p] = p[2] /\ rank[p] \in Nat
  BY PlaceIs DEF UpRank
<1>2. ASSUME NEW p \in D, NEW f \in [D -> V] PROVE UpBody(p, f) \in V
  <2>1. p[1] \in V
    BY PlaceIs
  <2>. QED
    BY <2>1, UpCall DEF UpBody
<1>3. V # {} /\ E \in [D \X [D -> V] -> V]
  <2>1. <<>> \in V
    BY DEF Heaps
  <2>. QED
    BY <1>2, <2>1
<1>4. \A p \in D : \A f \in [D -> V] : E[<<p, f>>] = UpBody(p, f)
  OBVIOUS
<1>5. ASSUME NEW p \in D, NEW f, NEW g, \A y \in D : rank[y] < rank[p] => f[y] = g[y]
      PROVE  UpBody(p, f) = UpBody(p, g)
  <2>1. CASE p[2] # 1
    <3>1. PICK q \in D : q = <<Swapped(p[1], p[2], p[2] \div 2), p[2] \div 2>> /\ q[2] < p[2]
      BY <2>1, UpCall
    <3>2. f[q] = g[q]
      BY <1>1, <1>5, <3>1
    <3>. QED
      BY <3>1, <3>2 DEF UpBody
  <2>2. CASE p[2] = 1
    BY <2>2 DEF UpBody
  <2>. QED
    BY <2>1, <2>2
<1>. HIDE DEF E, V, D, rank
<1>6. Ranked(D, rank, V, E)
  <2>1. rank \in [D -> Nat]
    BY <1>1 DEF rank, D, UpRank
  <2>2. \A p \in D : \A f, g \in [D -> V] :
          (\A y \in D : rank[y] < rank[p] => f[y] = g[y]) => E[<<p, f>>] = E[<<p, g>>]
    BY <1>4, <1>5
  <2>. QED
    BY <1>3, <2>1, <2>2 DEF Ranked
<1>7. PICK up \in [D -> V] : \A p \in D : up[p] = E[<<p, up>>]
  BY <1>6, RankedRecursion
<1>8. \A p \in D : up[p] = UpBody(p, up)
  BY <1>4, <1>7
<1> DEFINE Fits(g) == g = [p \in D |-> UpBody(p, g)]
           chosen == CHOOSE g : Fits(g)
<1>9. Fits(chosen)
  <2>1. Fits(up)
    BY <1>8
  <2>. QED
    BY <2>1
<1>10. SiftUp = chosen
  BY DEF SiftUp, UpBody, D
<1>. HIDE DEF chosen
<1>11. \A p \in D : chosen[p] = UpBody(p, chosen)
  BY <1>9
<1>12. \A p \in D : up[p] = chosen[p]
  <2>1. ASSUME NEW p \in D, \A y \in D : rank[y] < rank[p] => up[y] = chosen[y]
        PROVE  chosen[p] = E[<<p, up>>]
    BY <1>5, <1>7, <1>8, <1>11, <2>1
  <2>. QED
    BY <1>6, <1>7, <2>1, RankedIs
<1>13. chosen \in [D -> V]
  BY <1>9, <1>11, <1>12
<1>. QED
  BY <1>10, <1>11, <1>13 DEF D, V

LEMMA SiftDownIs ==
  /\ SiftDown \in [Places -> Heaps]
  /\ \A p \in Places : SiftDown[p] = DownBody(p, SiftDown)
<1> DEFINE D == Places
           V == Heaps
           rank == DownRank
           E == [z \in D \X [D -> V] |-> DownBody(z[1], z[2])]
<1>1. ASSUME NEW p \in D PROVE rank[p] = Len(p[1]) - p[2] /\ rank[p] \in Nat
  <2>1. PICK n \in Nat : n = Len(p[1]) /\ p[2] \in 1..n
    BY PlaceIs
  <2>2. n - p[2] \in Nat
    BY <2>1
  <2>. QED
    BY <2>1, <2>2 DEF DownRank
<1>2. ASSUME NEW p \in D, NEW f \in [D -> V] PROVE DownBody(p, f) \in V
  <2>1. p[1] \in V
    BY PlaceIs
  <2>2. PICK small : small = SmallOf(p[1], p[2])
    OBVIOUS
  <2>3. DownBody(p, f) = IF small = p[2] THEN p[1] ELSE f[<<Swapped(p[1], p[2], small), small>>]
    BY <2>2 DEF DownBody, SmallOf
  <2>. QED
    BY <2>1, <2>2, <2>3, DownCall
<1>3. V # {} /\ E \in [D \X [D -> V] -> V]
  <2>1. <<>> \in V
    BY DEF Heaps
  <2>. QED
    BY <1>2, <2>1
<1>4. \A p \in D : \A f \in [D -> V] : E[<<p, f>>] = DownBody(p, f)
  OBVIOUS
<1>5. ASSUME NEW p \in D, NEW f, NEW g, \A y \in D : rank[y] < rank[p] => f[y] = g[y]
      PROVE  DownBody(p, f) = DownBody(p, g)
  <2>1. PICK small : small = SmallOf(p[1], p[2])
    OBVIOUS
  <2>2. \A h : DownBody(p, h) = IF small = p[2] THEN p[1] ELSE h[<<Swapped(p[1], p[2], small), small>>]
    BY <2>1 DEF DownBody, SmallOf
  <2>3. CASE small # p[2]
    <3>1. PICK q \in D : /\ q = <<Swapped(p[1], p[2], small), small>>
                         /\ Len(q[1]) = Len(p[1]) /\ q[2] \in 1..Len(p[1]) /\ q[2] > p[2]
      <4>1. PICK t, i : t = p[1] /\ i = p[2]
        OBVIOUS
      <4>2. /\ <<Swapped(t, i, small), small>> \in Places
            /\ Len(Swapped(t, i, small)) = Len(t) /\ small \in 1..Len(t) /\ small > i
        BY <2>1, <2>3, <4>1, DownCall
      <4>3. PICK u : u = Swapped(t, i, small)
        OBVIOUS
      <4>4. <<u, small>> \in D /\ <<u, small>>[1] = u /\ <<u, small>>[2] = small
        BY <4>2, <4>3
      <4>. QED
        BY <4>1, <4>2, <4>3, <4>4
    <3>2. PICK n \in Nat : n = Len(p[1]) /\ p[2] \in 1..n
      BY PlaceIs
    <3>3. rank[q] < rank[p]
      <4>1. n - q[2] < n - p[2]
        BY <3>1, <3>2
      <4>. QED
        BY <1>1, <3>1, <3>2, <4>1
    <3>4. f[q] = g[q]
      BY <1>5, <3>3
    <3>. QED
      BY <2>2, <3>1, <3>4
  <2>4. CASE small = p[2]
    BY <2>2, <2>4
  <2>. QED
    BY <2>3, <2>4
<1>. HIDE DEF E, V, D, rank
<1>6. Ranked(D, rank, V, E)
  <2>1. rank \in [D -> Nat]
    BY <1>1 DEF rank, D, DownRank
  <2>2. \A p \in D : \A f, g \in [D -> V] :
          (\A y \in D : rank[y] < rank[p] => f[y] = g[y]) => E[<<p, f>>] = E[<<p, g>>]
    BY <1>4, <1>5
  <2>. QED
    BY <1>3, <2>1, <2>2 DEF Ranked
<1>7. PICK down \in [D -> V] : \A p \in D : down[p] = E[<<p, down>>]
  BY <1>6, RankedRecursion
<1>8. \A p \in D : down[p] = DownBody(p, down)
  BY <1>4, <1>7
<1> DEFINE Fits(g) == g = [p \in D |-> DownBody(p, g)]
           chosen == CHOOSE g : Fits(g)
<1>9. Fits(chosen)
  <2>1. Fits(down)
    BY <1>8
  <2>. QED
    BY <2>1
<1>10. SiftDown = chosen
  BY DEF SiftDown, DownBody, D
<1>. HIDE DEF chosen
<1>11. \A p \in D : chosen[p] = DownBody(p, chosen)
  BY <1>9
<1>12. \A p \in D : down[p] = chosen[p]
  <2>1. ASSUME NEW p \in D, \A y \in D : rank[y] < rank[p] => down[y] = chosen[y]
        PROVE  chosen[p] = E[<<p, down>>]
    BY <1>5, <1>7, <1>8, <1>11, <2>1
  <2>. QED
    BY <1>6, <1>7, <2>1, RankedIs
<1>13. chosen \in [D -> V]
  BY <1>9, <1>11, <1>12
<1>. QED
  BY <1>10, <1>11, <1>13 DEF D, V

(* A heap is in order when no pair is below its parent; while a pair is    *)
(* sifted, only its own place may not be.                                  *)
Above(h, n, j) == AtMost(h[j \div 2], h[j])
HeapOrdered(h, n) == \A j \in 2..n : Above(h, n, j)
UpReady(h, n, i) ==
  /\ \A j \in 2..n : j # i => Above(h, n, j)
  /\ \A j \in 2..n : j \div 2 = i /\ i > 1 => AtMost(h[i \div 2], h[j])
DownReady(h, n, i) ==
  /\ \A j \in 2..n : j \div 2 # i => Above(h, n, j)
  /\ \A j \in 2..n : j \div 2 = i /\ i > 1 => AtMost(h[i \div 2], h[j])

LEMMA UpStep ==
  ASSUME NEW n \in Nat, NEW h \in [1..n -> Item], NEW i \in 2..n, UpReady(h, n, i),
         TupleLess(h[i], h[i \div 2])
  PROVE  UpReady(Swapped(h, i, i \div 2), n, i \div 2)
<1>1. PICK m \in 1..n : m = i \div 2 /\ m < i
  BY Halves2
<1>2. PICK s : s = Swapped(h, i, m)
  OBVIOUS
<1>3. \A k \in 1..n : s[k] = IF k = m THEN h[i] ELSE IF k = i THEN h[m] ELSE h[k]
  BY <1>2, SwapIs
<1>4. i \in 1..n /\ \A k \in 1..n : h[k] \in Item
  OBVIOUS
<1>5. AtMost(h[i], h[m])
  BY <1>1, <1>4, ItemOrder
<1>6. ASSUME NEW j \in 2..n, j # m PROVE AtMost(s[j \div 2], s[j])
  <2>1. PICK p \in 1..n : p = j \div 2 /\ p < j
    BY Halves2
  <2>2. j \in 1..n
    OBVIOUS
  <2>3. CASE j = i
    <3>1. p = m /\ s[p] = h[i] /\ s[j] = h[m]
      BY <1>1, <1>3, <2>1, <2>2, <2>3
    <3>. QED
      BY <1>5, <2>1, <3>1
  <2>4. CASE j # i /\ p = m
    <3>1. s[p] = h[i] /\ s[j] = h[j]
      BY <1>3, <1>6, <2>2, <2>4
    <3>2. AtMost(h[m], h[j])
      BY <2>1, <2>4 DEF UpReady, Above
    <3>3. AtMost(h[i], h[j])
      BY <1>4, <1>5, <2>2, <3>2, ItemOrder
    <3>. QED
      BY <2>1, <3>1, <3>3
  <2>5. CASE j # i /\ p = i
    <3>1. s[p] = h[m] /\ s[j] = h[j]
      BY <1>1, <1>3, <1>6, <2>2, <2>5
    <3>2. AtMost(h[m], h[j])
      BY <1>1, <2>1, <2>5 DEF UpReady
    <3>. QED
      BY <2>1, <3>1, <3>2
  <2>6. CASE j # i /\ p # m /\ p # i
    <3>1. s[p] = h[p] /\ s[j] = h[j]
      BY <1>3, <1>6, <2>2, <2>6
    <3>2. AtMost(h[p], h[j])
      BY <2>1, <2>6 DEF UpReady, Above
    <3>. QED
      BY <2>1, <3>1, <3>2
  <2>. QED
    BY <2>3, <2>4, <2>5, <2>6
<1>7. ASSUME NEW j \in 2..n, j \div 2 = m, m > 1 PROVE AtMost(s[m \div 2], s[j])
  <2>1. PICK p \in 1..n : p = m \div 2 /\ p < m
    BY <1>7, Halves2
  <2>2. j \in 1..n /\ m < j
    BY <1>7, Halves2
  <2>3. s[p] = h[p]
    BY <1>1, <1>3, <2>1
  <2>4. AtMost(h[p], h[m])
    BY <1>1, <1>7, <2>1 DEF UpReady, Above
  <2>5. CASE j = i
    <3>1. s[j] = h[m]
      BY <1>1, <1>3, <2>2, <2>5
    <3>. QED
      BY <2>1, <2>3, <2>4, <3>1
  <2>6. CASE j # i
    <3>1. s[j] = h[j]
      BY <1>1, <1>3, <2>2, <2>6
    <3>2. AtMost(h[m], h[j])
      BY <1>7, <2>6 DEF UpReady, Above
    <3>3. AtMost(h[p], h[j])
      BY <1>4, <2>2, <2>4, <3>2, ItemOrder
    <3>. QED
      BY <2>1, <2>3, <3>1, <3>3
  <2>. QED
    BY <2>5, <2>6
<1>. QED
  BY <1>1, <1>2, <1>6, <1>7 DEF UpReady, Above

LEMMA DownStep ==
  ASSUME NEW n \in Nat, NEW h \in [1..n -> Item], n = Len(h), NEW i \in 1..n, DownReady(h, n, i),
         NEW m, m = SmallOf(h, i), m # i
  PROVE  DownReady(Swapped(h, i, m), n, m)
<1>1. /\ m \in 2..n /\ m > i /\ (m = 2 * i \/ m = 2 * i + 1)
      /\ AtMost(h[m], h[i])
      /\ 2 * i <= n => AtMost(h[m], h[2 * i])
      /\ 2 * i + 1 <= n => AtMost(h[m], h[2 * i + 1])
  <2>1. /\ m \in 1..n /\ (m = i \/ m = 2 * i \/ m = 2 * i + 1)
        /\ AtMost(h[m], h[i])
        /\ 2 * i <= n => AtMost(h[m], h[2 * i])
        /\ 2 * i + 1 <= n => AtMost(h[m], h[2 * i + 1])
    BY SmallIs
  <2>2. m \in 2..n /\ m > i /\ (m = 2 * i \/ m = 2 * i + 1)
    BY <2>1
  <2>. QED
    BY <2>1, <2>2
<1>2. m \div 2 = i
  BY <1>1
<1>3. PICK s : s = Swapped(h, i, m)
  OBVIOUS
<1>4. m \in 1..n /\ \A k \in 1..n : h[k] \in Item
  BY <1>1
<1>5. \A k \in 1..n : s[k] = IF k = m THEN h[i] ELSE IF k = i THEN h[m] ELSE h[k]
  BY <1>3, <1>4, SwapIs
<1>6. ASSUME NEW j \in 2..n, j \div 2 # m PROVE AtMost(s[j \div 2], s[j])
  <2>1. PICK p \in 1..n : p = j \div 2 /\ p < j /\ (j = 2 * p \/ j = 2 * p + 1)
    BY Halves2
  <2>2. j \in 1..n
    OBVIOUS
  <2>3. CASE j = m
    <3>1. p = i /\ s[p] = h[m] /\ s[j] = h[i]
      BY <1>1, <1>2, <1>5, <2>1, <2>2, <2>3
    <3>. QED
      BY <1>1, <2>1, <3>1
  <2>4. CASE j # m /\ p = i
    <3>1. s[p] = h[m] /\ s[j] = h[j]
      BY <1>1, <1>5, <2>1, <2>2, <2>4
    <3>2. AtMost(h[m], h[j])
      BY <1>1, <2>1, <2>4
    <3>. QED
      BY <2>1, <3>1, <3>2
  <2>5. CASE j = i
    <3>1. p # i /\ p # m /\ s[p] = h[p] /\ s[j] = h[m]
      BY <1>1, <1>5, <2>1, <2>2, <2>5
    <3>2. AtMost(h[p], h[m])
      BY <1>1, <1>2, <2>1, <2>5 DEF DownReady
    <3>. QED
      BY <2>1, <3>1, <3>2
  <2>6. CASE j # m /\ j # i /\ p # i
    <3>1. s[p] = h[p] /\ s[j] = h[j]
      BY <1>5, <1>6, <2>1, <2>2, <2>6
    <3>2. AtMost(h[p], h[j])
      BY <2>1, <2>6 DEF DownReady, Above
    <3>. QED
      BY <2>1, <3>1, <3>2
  <2>. QED
    BY <2>3, <2>4, <2>5, <2>6
<1>7. ASSUME NEW j \in 2..n, j \div 2 = m PROVE AtMost(s[m \div 2], s[j])
  <2>1. j \in 1..n /\ m < j
    BY <1>7, Halves2
  <2>2. s[i] = h[m] /\ s[j] = h[j]
    BY <1>1, <1>5, <2>1
  <2>3. AtMost(h[m], h[j])
    BY <1>1, <1>7 DEF DownReady, Above
  <2>. QED
    BY <1>2, <2>2, <2>3
<1>. QED
  BY <1>1, <1>3, <1>6, <1>7 DEF DownReady, Above

LEMMA DownStop ==
  ASSUME NEW n \in Nat, NEW h \in [1..n -> Item], n = Len(h), NEW i \in 1..n, DownReady(h, n, i),
         SmallOf(h, i) = i
  PROVE  HeapOrdered(h, n)
<1>1. /\ 2 * i <= n => AtMost(h[i], h[2 * i])
      /\ 2 * i + 1 <= n => AtMost(h[i], h[2 * i + 1])
  BY SmallIs
<1>2. ASSUME NEW j \in 2..n PROVE AtMost(h[j \div 2], h[j])
  <2>1. PICK p \in 1..n : p = j \div 2 /\ (j = 2 * p \/ j = 2 * p + 1)
    BY Halves2
  <2>2. CASE p = i
    BY <1>1, <2>1, <2>2
  <2>3. CASE p # i
    BY <2>1, <2>3 DEF DownReady, Above
  <2>. QED
    BY <2>2, <2>3
<1>. QED
  BY <1>2 DEF HeapOrdered, Above

(* The root of a heap in order is the least pair.                          *)
LEMMA RootLeast ==
  ASSUME NEW n \in Nat, NEW h \in [1..n -> Item], HeapOrdered(h, n)
  PROVE  \A i \in 1..n : AtMost(h[1], h[i])
<1> DEFINE P == {m \in Nat : \A i \in 1..n : i <= m => AtMost(h[1], h[i])}
<1>1. 0 \in P
  OBVIOUS
<1>2. ASSUME NEW m \in Nat, m \in P PROVE m + 1 \in P
  <2> SUFFICES ASSUME NEW i \in 1..n, i = m + 1 PROVE AtMost(h[1], h[i])
    BY <1>2
  <2>1. 1 \in 1..n /\ \A k \in 1..n : h[k] \in Item
    OBVIOUS
  <2>2. CASE i = 1
    BY <2>1, <2>2, ItemOrder
  <2>3. CASE i # 1
    <3>1. i \in 2..n
      BY <2>3
    <3>2. PICK p \in 1..n : p = i \div 2 /\ p < i
      BY <3>1, Halves2
    <3>3. AtMost(h[1], h[p])
      BY <1>2, <3>2
    <3>4. AtMost(h[p], h[i])
      BY <3>1, <3>2 DEF HeapOrdered, Above
    <3>. QED
      BY <2>1, <3>3, <3>4, ItemOrder
  <2>. QED
    BY <2>2, <2>3
<1>. HIDE DEF P
<1>3. n \in P
  BY <1>1, <1>2, Induction
<1>. QED
  BY <1>3 DEF P

(* How often an int is in a heap.                                          *)
Times(h, x) == Cardinality(PlacesOf(h, x))

LEMMA TimesIs ==
  ASSUME NEW h \in Heaps, NEW x
  PROVE  /\ IsFiniteSet(PlacesOf(h, x)) /\ Times(h, x) \in Nat
         /\ x \in IntsOf(h) <=> Times(h, x) # 0
         /\ x \in IntsOf(h) => x \in Int
<1>1. PICK n \in Nat : n = Len(h)
  BY HeapIs
<1>2. h \in [1..n -> Item] /\ DOMAIN h = 1..n
  BY <1>1, HeapIs
<1>3. IsFiniteSet(1..n) /\ PlacesOf(h, x) \in SUBSET (1..n)
  BY <1>1, <1>2, FS_Interval DEF PlacesOf
<1>4. IsFiniteSet(PlacesOf(h, x)) /\ Times(h, x) \in Nat
  BY <1>3, FS_Subset, FS_CardinalityType DEF Times
<1>5. x \in IntsOf(h) <=> \E i \in 1..n : h[i][1] = x
  BY <1>2 DEF IntsOf, ToSet
<1>6. x \in IntsOf(h) <=> PlacesOf(h, x) # {}
  BY <1>2, <1>5 DEF PlacesOf
<1>7. Times(h, x) = 0 <=> PlacesOf(h, x) = {}
  BY <1>4, FS_EmptySet DEF Times
<1>8. \A i \in 1..n : h[i][1] \in Int
  BY <1>2 DEF Item
<1>. QED
  BY <1>4, <1>5, <1>6, <1>7, <1>8

LEMMA SameTimes ==
  ASSUME NEW a \in Heaps, NEW b \in Heaps, \A x : Times(a, x) = Times(b, x)
  PROVE  BagOf(a) = BagOf(b)
<1>1. IntsOf(a) = IntsOf(b)
  BY TimesIs
<1>. QED
  BY <1>1 DEF BagOf, Times

LEMMA TimesSwapped ==
  ASSUME NEW n \in Nat, NEW h \in [1..n -> Item], NEW i \in 1..n, NEW j \in 1..n, NEW x
  PROVE  Times(Swapped(h, i, j), x) = Times(h, x)
<1>1. PICK s : s = Swapped(h, i, j)
  OBVIOUS
<1>2. DOMAIN s = 1..n /\ \A k \in 1..n : s[k] = IF k = j THEN h[i] ELSE IF k = i THEN h[j] ELSE h[k]
  BY <1>1, SwapIs
<1>3. PICK A : A = PlacesOf(h, x)
  OBVIOUS
<1>4. PICK B : B = PlacesOf(s, x)
  OBVIOUS
<1>5. \A k : k \in A <=> k \in 1..n /\ h[k][1] = x
  BY <1>3 DEF PlacesOf
<1>6. \A k : k \in B <=> k \in 1..n /\ s[k][1] = x
  BY <1>2, <1>4 DEF PlacesOf
<1>7. IsFiniteSet(A) /\ Cardinality(A) \in Nat
  <2>1. IsFiniteSet(1..n) /\ A \in SUBSET (1..n)
    BY <1>5, FS_Interval
  <2>. QED
    BY <2>1, FS_Subset, FS_CardinalityType
<1>8. CASE (i \in A) <=> (j \in A)
  <2>1. \A k : k \in A <=> k \in B
    BY <1>2, <1>5, <1>6, <1>8
  <2>2. A = B
    BY <2>1
  <2>. QED
    BY <1>1, <1>3, <1>4, <2>2 DEF Times
<1>9. ASSUME NEW p \in 1..n, NEW q \in 1..n, p \in A, q \notin A, q \in B, p \notin B,
             \A k \in 1..n : k # p /\ k # q => (k \in A <=> k \in B)
      PROVE  Cardinality(A) = Cardinality(B)
  <2>1. B = (A \ {p}) \cup {q}
    BY <1>5, <1>6, <1>9
  <2>2. IsFiniteSet(A \ {p}) /\ Cardinality(A \ {p}) = Cardinality(A) - 1 /\ q \notin A \ {p}
    BY <1>7, <1>9, FS_RemoveElement
  <2>3. Cardinality((A \ {p}) \cup {q}) = Cardinality(A) - 1 + 1
    BY <2>2, FS_AddElement
  <2>. QED
    BY <1>7, <2>1, <2>3
<1>10. \A k \in 1..n : k # i /\ k # j => (k \in A <=> k \in B)
  BY <1>2, <1>5, <1>6
<1>11. (i \in B <=> j \in A) /\ (j \in B <=> i \in A)
  BY <1>2, <1>5, <1>6
<1>12. CASE i \in A /\ j \notin A
  <2>1. Cardinality(A) = Cardinality(B)
    BY <1>9, <1>10, <1>11, <1>12
  <2>. QED
    BY <1>1, <1>3, <1>4, <2>1 DEF Times
<1>13. CASE i \notin A /\ j \in A
  <2>1. Cardinality(A) = Cardinality(B)
    BY <1>9, <1>10, <1>11, <1>13
  <2>. QED
    BY <1>1, <1>3, <1>4, <2>1 DEF Times
<1>. QED
  BY <1>8, <1>12, <1>13

LEMMA TimesAppend ==
  ASSUME NEW h \in Heaps, NEW p \in Item, NEW x
  PROVE  /\ Append(h, p) \in Heaps
         /\ Times(Append(h, p), x) = IF x = p[1] THEN Times(h, x) + 1 ELSE Times(h, x)
<1>1. PICK n \in Nat : n = Len(h)
  BY HeapIs
<1>2. h \in Seq(Item) /\ DOMAIN h = 1..n /\ Append(h, p) \in Heaps
  BY <1>1 DEF Heaps, Item
<1>3. PICK s \in Heaps : s = Append(h, p)
  BY <1>2
<1>4. Len(s) = n + 1 /\ DOMAIN s = 1..n + 1 /\ s[n + 1] = p /\ \A k \in 1..n : s[k] = h[k]
  BY <1>1, <1>2, <1>3
<1>5. \A k : k \in PlacesOf(h, x) <=> k \in 1..n /\ h[k][1] = x
  BY <1>2 DEF PlacesOf
<1>6. \A k : k \in PlacesOf(s, x) <=> k \in 1..n + 1 /\ s[k][1] = x
  BY <1>4 DEF PlacesOf
<1>7. IsFiniteSet(PlacesOf(h, x)) /\ n + 1 \notin PlacesOf(h, x)
  BY <1>5, TimesIs
<1>8. CASE x = p[1]
  <2>1. PlacesOf(s, x) = PlacesOf(h, x) \cup {n + 1}
    BY <1>4, <1>5, <1>6, <1>8
  <2>. QED
    BY <1>2, <1>3, <1>7, <1>8, <2>1, FS_AddElement DEF Times
<1>9. CASE x # p[1]
  <2>1. PlacesOf(s, x) = PlacesOf(h, x)
    <3>1. \A k \in 1..n + 1 : k \in 1..n \/ k = n + 1
      BY <1>1
    <3>2. \A k \in 1..n : k \in 1..n + 1
      BY <1>1
    <3>3. \A k : k \in PlacesOf(s, x) <=> k \in PlacesOf(h, x)
      BY <1>4, <1>5, <1>6, <1>9, <3>1, <3>2
    <3>. QED
      BY <3>3
  <2>. QED
    BY <1>2, <1>3, <1>9, <2>1 DEF Times
<1>. QED
  BY <1>8, <1>9

(* One more copy, one copy less.                                           *)
MoreOf(a, b, n) ==
  /\ a \in Heaps /\ b \in Heaps /\ n \in Int
  /\ \A x : Times(b, x) = IF x = n THEN Times(a, x) + 1 ELSE Times(a, x)

LEMMA BagAdds ==
  ASSUME NEW a, NEW b, NEW n, MoreOf(a, b, n)
  PROVE  BagOf(b) = Contract!(+)(BagOf(a), Contract!SetToBag({n}))
<1>1. /\ a \in Heaps /\ b \in Heaps
      /\ \A x : Times(b, x) = IF x = n THEN Times(a, x) + 1 ELSE Times(a, x)
  BY DEF MoreOf
<1>2. \A x : /\ Times(a, x) \in Nat /\ (x \in IntsOf(a) <=> Times(a, x) # 0)
             /\ Times(b, x) \in Nat /\ (x \in IntsOf(b) <=> Times(b, x) # 0)
  BY <1>1, TimesIs
<1>3. IntsOf(b) = IntsOf(a) \cup {n}
  BY <1>1, <1>2
<1>4. /\ DOMAIN BagOf(a) = IntsOf(a) /\ \A x \in IntsOf(a) : BagOf(a)[x] = Times(a, x)
      /\ BagOf(b) = [x \in IntsOf(b) |-> Times(b, x)]
  BY DEF BagOf, Times
<1>5. Contract!SetToBag({n}) = [x \in {n} |-> 1]
  BY DEF Contract!SetToBag
<1>6. ASSUME NEW x \in IntsOf(a) \cup {n}
      PROVE  Times(b, x) = (IF x \in IntsOf(a) THEN BagOf(a)[x] ELSE 0) + (IF x \in {n} THEN 1 ELSE 0)
  <2>1. Times(b, x) = (IF x = n THEN Times(a, x) + 1 ELSE Times(a, x))
    BY <1>1
  <2>2. Times(a, x) = (IF x \in IntsOf(a) THEN BagOf(a)[x] ELSE 0) /\ Times(a, x) \in Nat
    BY <1>2, <1>4
  <2>. QED
    BY <2>1, <2>2
<1>7. Contract!(+)(BagOf(a), Contract!SetToBag({n})) =
        [x \in IntsOf(a) \cup {n} |->
           (IF x \in IntsOf(a) THEN BagOf(a)[x] ELSE 0) + (IF x \in {n} THEN 1 ELSE 0)]
  BY <1>4, <1>5 DEF Contract!(+)
<1>. QED
  BY <1>3, <1>4, <1>6, <1>7

LEMMA BagTakes ==
  ASSUME NEW a, NEW b, NEW n, MoreOf(a, b, n)
  PROVE  BagOf(a) = Contract!(-)(BagOf(b), Contract!SetToBag({n}))
<1>1. /\ a \in Heaps /\ b \in Heaps
      /\ \A x : Times(b, x) = IF x = n THEN Times(a, x) + 1 ELSE Times(a, x)
  BY DEF MoreOf
<1>2. \A x : /\ Times(a, x) \in Nat /\ (x \in IntsOf(a) <=> Times(a, x) # 0)
             /\ Times(b, x) \in Nat /\ (x \in IntsOf(b) <=> Times(b, x) # 0)
  BY <1>1, TimesIs
<1>3. /\ DOMAIN BagOf(b) = IntsOf(b) /\ \A x \in IntsOf(b) : BagOf(b)[x] = Times(b, x)
      /\ BagOf(a) = [x \in IntsOf(a) |-> Times(a, x)]
  BY DEF BagOf, Times
<1>4. Contract!SetToBag({n}) = [x \in {n} |-> 1]
  BY DEF Contract!SetToBag
<1> DEFINE B == [x \in IntsOf(b) |-> IF x \in {n} THEN BagOf(b)[x] - 1 ELSE BagOf(b)[x]]
<1>5. \A x \in IntsOf(b) : B[x] = Times(a, x)
  BY <1>1, <1>2, <1>3
<1>6. Contract!(-)(BagOf(b), Contract!SetToBag({n})) = [x \in {d \in DOMAIN B : B[d] > 0} |-> B[x]]
  BY <1>3, <1>4 DEF Contract!(-)
<1>7. DOMAIN B = IntsOf(b)
  OBVIOUS
<1>. HIDE DEF B
<1>8. {d \in DOMAIN B : B[d] > 0} = IntsOf(a)
  <2>1. \A x : x \in IntsOf(a) => x \in IntsOf(b)
    BY <1>1, <1>2
  <2>2. \A x \in IntsOf(b) : B[x] > 0 <=> x \in IntsOf(a)
    BY <1>2, <1>5
  <2>. QED
    BY <1>7, <2>1, <2>2
<1>9. [x \in IntsOf(a) |-> B[x]] = [x \in IntsOf(a) |-> Times(a, x)]
  <2>1. \A x \in IntsOf(a) : B[x] = Times(a, x)
    BY <1>1, <1>2, <1>5
  <2>. QED
    BY <2>1
<1>. QED
  BY <1>3, <1>6, <1>8, <1>9

(* The copies in the bag are as many as the places in the heap.            *)
AllCopies(h) ==
  /\ IsFiniteSet(Contract!Copies(BagOf(h)))
  /\ Cardinality(Contract!Copies(BagOf(h))) = Len(h)

LEMMA CopiesIs ==
  ASSUME NEW h \in Heaps
  PROVE  \A c : c \in Contract!Copies(BagOf(h)) <=>
                  \E x \in Int, k \in Nat : c = <<x, k>> /\ k >= 1 /\ k <= Times(h, x)
<1>1. DOMAIN BagOf(h) = IntsOf(h) /\ \A x \in IntsOf(h) : BagOf(h)[x] = Times(h, x)
  BY DEF BagOf, Times
<1>2. Contract!Copies(BagOf(h)) = UNION {{x} \X (1 .. BagOf(h)[x]) : x \in IntsOf(h)}
  BY <1>1 DEF Contract!Copies, Contract!BagToSet
<1>3. \A c : c \in Contract!Copies(BagOf(h)) <=> \E x \in IntsOf(h) : c \in {x} \X (1 .. Times(h, x))
  BY <1>1, <1>2
<1>4. \A x : Times(h, x) \in Nat /\ (x \in IntsOf(h) <=> Times(h, x) # 0) /\ (x \in IntsOf(h) => x \in Int)
  BY TimesIs
<1>5. ASSUME NEW c, c \in Contract!Copies(BagOf(h))
      PROVE  \E x \in Int, k \in Nat : c = <<x, k>> /\ k >= 1 /\ k <= Times(h, x)
  <2>1. PICK x \in IntsOf(h) : c \in {x} \X (1 .. Times(h, x))
    BY <1>3, <1>5
  <2>2. PICK k \in 1..Times(h, x) : c = <<x, k>>
    BY <2>1
  <2>. QED
    BY <1>4, <2>2
<1>6. ASSUME NEW x \in Int, NEW k \in Nat, k >= 1, k <= Times(h, x)
      PROVE  <<x, k>> \in Contract!Copies(BagOf(h))
  <2>1. x \in IntsOf(h) /\ k \in 1..Times(h, x)
    BY <1>4, <1>6
  <2>. QED
    BY <1>3, <2>1
<1>. QED
  BY <1>5, <1>6

LEMMA CopiesGrow ==
  ASSUME NEW h \in Heaps, NEW p \in Item, AllCopies(h)
  PROVE  AllCopies(Append(h, p))
<1>1. PICK s \in Heaps : s = Append(h, p)
  BY TimesAppend
<1>2. PICK m \in Int : m = p[1]
  BY DEF Item
<1>3. \A x : Times(s, x) = IF x = m THEN Times(h, x) + 1 ELSE Times(h, x)
  BY <1>1, <1>2, TimesAppend
<1>4. PICK t \in Nat : t = Times(h, m)
  BY TimesIs
<1>5. PICK A : A = Contract!Copies(BagOf(h))
  OBVIOUS
<1>6. PICK B : B = Contract!Copies(BagOf(s))
  OBVIOUS
<1>7. \A c : c \in A <=> \E x \in Int, k \in Nat : c = <<x, k>> /\ k >= 1 /\ k <= Times(h, x)
  BY <1>5, CopiesIs
<1>8. \A c : c \in B <=> \E x \in Int, k \in Nat : c = <<x, k>> /\ k >= 1 /\ k <= Times(s, x)
  BY <1>6, CopiesIs
<1>9. <<m, t + 1>> \notin A
  BY <1>4, <1>7
<1>10. B = A \cup {<<m, t + 1>>}
  <2>1. ASSUME NEW c, c \in B PROVE c \in A \cup {<<m, t + 1>>}
    <3>1. PICK x \in Int, k \in Nat : c = <<x, k>> /\ k >= 1 /\ k <= Times(s, x)
      BY <1>8, <2>1
    <3>2. CASE x # m
      BY <1>3, <1>7, <3>1, <3>2
    <3>3. CASE x = m
      <4>1. k <= t + 1
        BY <1>3, <1>4, <3>1, <3>3
      <4>2. k <= t \/ k = t + 1
        BY <4>1
      <4>. QED
        BY <1>4, <1>7, <3>1, <3>3, <4>2
    <3>. QED
      BY <3>2, <3>3
  <2>2. ASSUME NEW c, c \in A PROVE c \in B
    <3>1. PICK x \in Int, k \in Nat : c = <<x, k>> /\ k >= 1 /\ k <= Times(h, x)
      BY <1>7, <2>2
    <3>2. k <= Times(s, x)
      <4>1. PICK u \in Nat : u = Times(h, x)
        BY TimesIs
      <4>2. Times(s, x) = u \/ Times(s, x) = u + 1
        BY <1>3, <4>1
      <4>. QED
        BY <3>1, <4>1, <4>2
    <3>. QED
      BY <1>8, <3>1, <3>2
  <2>3. <<m, t + 1>> \in B
    <3>1. Times(s, m) = t + 1
      BY <1>3, <1>4
    <3>. QED
      BY <1>8, <3>1
  <2>. QED
    BY <2>1, <2>2, <2>3
<1>11. PICK n \in Nat : n = Len(h)
  BY HeapIs
<1>12. Len(s) = n + 1
  BY <1>1, <1>11 DEF Heaps, Item
<1>13. IsFiniteSet(A) /\ Cardinality(A) = n
  BY <1>5, <1>11 DEF AllCopies
<1>14. IsFiniteSet(B) /\ Cardinality(B) = n + 1
  BY <1>9, <1>10, <1>13, FS_AddElement
<1>. QED
  BY <1>1, <1>6, <1>12, <1>14 DEF AllCopies

LEMMA CopiesCount ==
  ASSUME NEW h \in Heaps
  PROVE  AllCopies(h)
<1> DEFINE P == {n \in Nat : \A s \in Heaps : Len(s) = n => AllCopies(s)}
<1>1. 0 \in P
  <2> SUFFICES ASSUME NEW s \in Heaps, Len(s) = 0 PROVE AllCopies(s)
    OBVIOUS
  <2>1. \A x : Times(s, x) = 0
    <3>1. DOMAIN s = {}
      BY HeapIs
    <3>2. \A x : PlacesOf(s, x) = {}
      BY <3>1 DEF PlacesOf
    <3>. QED
      BY <3>2, FS_EmptySet DEF Times
  <2>2. Contract!Copies(BagOf(s)) = {}
    BY <2>1, CopiesIs
  <2>. QED
    BY <2>2, FS_EmptySet DEF AllCopies
<1>2. ASSUME NEW n \in Nat, n \in P PROVE n + 1 \in P
  <2> SUFFICES ASSUME NEW s \in Heaps, Len(s) = n + 1 PROVE AllCopies(s)
    OBVIOUS
  <2>1. s \in Seq(Item) /\ s # <<>>
    BY DEF Heaps, Item
  <2>2. PICK f \in Seq(Item) : Len(f) = n /\ \A i \in 1..n : f[i] = s[i]
    <3>0. \A i \in 1..n : i \in 1..n + 1 /\ s[i] \in Item
      BY <2>1
    <3>1. PICK f \in [1..n -> Item] : f = [i \in 1..n |-> s[i]]
      BY <3>0
    <3>. QED
      BY <3>1, AsSeq
  <2>3. PICK p \in Item : p = s[n + 1]
    BY <2>1
  <2>4. s = Append(f, p)
    BY <2>1, <2>2, <2>3
  <2>5. f \in Heaps
    BY <2>2 DEF Heaps, Item
  <2>. QED
    BY <1>2, <2>2, <2>4, <2>5, CopiesGrow
<1>. HIDE DEF P
<1>3. Len(h) \in P
  BY <1>1, <1>2, HeapIs, Induction
<1>. QED
  BY <1>3 DEF P

(* What sifting leaves: a heap in order, of the same ints.                 *)
Sifted(h, s) ==
  /\ s \in Heaps /\ Len(s) = Len(h) /\ HeapOrdered(s, Len(s))
  /\ \A x : Times(s, x) = Times(h, x)

LEMMA SiftedUp ==
  ASSUME NEW m \in Nat, NEW h \in Heaps, NEW i \in 1..Len(h), i <= m, UpReady(h, Len(h), i)
  PROVE  Sifted(h, SiftUp[<<h, i>>])
<1> DEFINE P == {k \in Nat : \A g \in Heaps : \A j \in 1..Len(g) :
                     j <= k /\ UpReady(g, Len(g), j) => Sifted(g, SiftUp[<<g, j>>])}
<1>1. 0 \in P
  <2>1. \A g \in Heaps : \A j \in 1..Len(g) : ~(j <= 0)
    BY HeapIs
  <2>. QED
    BY <2>1
<1>2. ASSUME NEW k \in Nat, k \in P PROVE k + 1 \in P
  <2> SUFFICES ASSUME NEW g \in Heaps, NEW j \in 1..Len(g), j <= k + 1, UpReady(g, Len(g), j)
               PROVE  Sifted(g, SiftUp[<<g, j>>])
    OBVIOUS
  <2>1. PICK n \in Nat : n = Len(g) /\ g \in [1..n -> Item] /\ j \in 1..n
    BY HeapIs
  <2>2. SiftUp[<<g, j>>] = UpBody(<<g, j>>, SiftUp)
    BY PlaceIs, SiftUpIs
  <2>3. CASE j = 1 \/ ~TupleLess(g[j], g[j \div 2])
    <3>1. SiftUp[<<g, j>>] = g
      BY <2>2, <2>3 DEF UpBody
    <3>2. HeapOrdered(g, n)
      BY <2>1, <2>3 DEF HeapOrdered, UpReady, Above, AtMost
    <3>. QED
      BY <2>1, <3>1, <3>2 DEF Sifted
  <2>4. CASE j # 1 /\ TupleLess(g[j], g[j \div 2])
    <3>1. PICK p \in 1..n : p = j \div 2 /\ p < j
      BY <2>1, <2>4, Halves2
    <3>2. PICK s : s = Swapped(g, j, p)
      OBVIOUS
    <3>3. s \in Heaps /\ Len(s) = n /\ \A x : Times(s, x) = Times(g, x)
      BY <2>1, <3>2, SwapIs, TimesSwapped
    <3>4. SiftUp[<<g, j>>] = SiftUp[<<s, p>>]
      BY <2>2, <2>4, <3>1, <3>2 DEF UpBody
    <3>5. UpReady(s, n, p)
      <4>1. j \in 2..n
        BY <2>1, <2>4
      <4>. QED
        BY <2>1, <2>4, <3>1, <3>2, <4>1, UpStep
    <3>6. p <= k
      BY <2>1, <3>1
    <3>7. Sifted(s, SiftUp[<<s, p>>])
      BY <1>2, <3>3, <3>5, <3>6
    <3>. QED
      BY <2>1, <3>3, <3>4, <3>7 DEF Sifted
  <2>. QED
    BY <2>3, <2>4
<1>. HIDE DEF P
<1>3. m \in P
  BY <1>1, <1>2, Induction
<1>. QED
  BY <1>3 DEF P

LEMMA SiftedDown ==
  ASSUME NEW m \in Nat, NEW h \in Heaps, NEW i \in 1..Len(h), Len(h) - i <= m, DownReady(h, Len(h), i)
  PROVE  Sifted(h, SiftDown[<<h, i>>])
<1> DEFINE P == {k \in Nat : \A g \in Heaps : \A j \in 1..Len(g) :
                     Len(g) - j < k /\ DownReady(g, Len(g), j) => Sifted(g, SiftDown[<<g, j>>])}
<1>1. 0 \in P
  <2>1. ASSUME NEW g \in Heaps, NEW j \in 1..Len(g) PROVE ~(Len(g) - j < 0)
    BY HeapIs
  <2>. QED
    BY <2>1
<1>2. ASSUME NEW k \in Nat, k \in P PROVE k + 1 \in P
  <2> SUFFICES ASSUME NEW g \in Heaps, NEW j \in 1..Len(g), Len(g) - j < k + 1, DownReady(g, Len(g), j)
               PROVE  Sifted(g, SiftDown[<<g, j>>])
    OBVIOUS
  <2>1. PICK n \in Nat : n = Len(g) /\ g \in [1..n -> Item] /\ j \in 1..n
    BY HeapIs
  <2>2. PICK small : small = SmallOf(g, j)
    OBVIOUS
  <2>3. SiftDown[<<g, j>>] = IF small = j THEN g ELSE SiftDown[<<Swapped(g, j, small), small>>]
    <3>1. SiftDown[<<g, j>>] = DownBody(<<g, j>>, SiftDown)
      BY PlaceIs, SiftDownIs
    <3>. QED
      BY <2>2, <3>1 DEF DownBody, SmallOf
  <2>4. CASE small = j
    <3>1. HeapOrdered(g, n)
      BY <2>1, <2>2, <2>4, DownStop
    <3>. QED
      BY <2>1, <2>3, <2>4, <3>1 DEF Sifted
  <2>5. CASE small # j
    <3>1. small \in 1..n /\ small > j
      <4>1. small \in 1..n /\ (small = j \/ small = 2 * j \/ small = 2 * j + 1)
        BY <2>1, <2>2, SmallIs
      <4>. QED
        BY <2>1, <2>5, <4>1
    <3>2. PICK s : s = Swapped(g, j, small)
      OBVIOUS
    <3>3. s \in Heaps /\ Len(s) = n /\ \A x : Times(s, x) = Times(g, x)
      BY <2>1, <3>1, <3>2, SwapIs, TimesSwapped
    <3>4. DownReady(s, n, small)
      BY <2>1, <2>2, <2>5, <3>2, DownStep
    <3>5. n - small < k
      BY <2>1, <3>1
    <3>6. Sifted(s, SiftDown[<<s, small>>])
      BY <1>2, <3>1, <3>3, <3>4, <3>5
    <3>. QED
      BY <2>1, <2>3, <2>5, <3>2, <3>3, <3>6 DEF Sifted
  <2>. QED
    BY <2>4, <2>5
<1>. HIDE DEF P
<1>3. m + 1 \in P
  BY <1>1, <1>2, Induction
<1>4. Len(h) - i < m + 1
  BY HeapIs
<1>. QED
  BY <1>3, <1>4 DEF P

-----------------------------------------------------------------------------
(* heap_push and heap_pop.                                                 *)
LEMMA HeapPushes ==
  ASSUME NEW h \in Heaps, HeapOrdered(h, Len(h)), NEW p \in Item, NEW s,
         s = SiftUp[<<Append(h, p), Len(h) + 1>>]
  PROVE  s \in Heaps /\ HeapOrdered(s, Len(s)) /\ MoreOf(h, s, p[1])
<1>1. PICK n \in Nat : n = Len(h) /\ h \in [1..n -> Item]
  BY HeapIs
<1>2. PICK g \in Heaps : g = Append(h, p)
  BY TimesAppend
<1>3. Len(g) = n + 1 /\ \A k \in 1..n : g[k] = h[k]
  BY <1>1, <1>2 DEF Heaps, Item
<1>4. UpReady(g, n + 1, n + 1)
  <2>1. ASSUME NEW j \in 2..n + 1, j # n + 1 PROVE AtMost(g[j \div 2], g[j])
    <3>1. j \in 2..n
      BY <1>1, <2>1
    <3>2. PICK q \in 1..n : q = j \div 2
      BY <3>1, Halves2
    <3>3. AtMost(h[j \div 2], h[j])
      BY <1>1, <3>1 DEF HeapOrdered, Above
    <3>4. j \in 1..n
      BY <3>1
    <3>. QED
      BY <1>3, <3>2, <3>3, <3>4
  <2>2. ASSUME NEW j \in 2..n + 1 PROVE j \div 2 # n + 1
    <3>1. j \div 2 < j /\ j \div 2 \in Nat
      BY Halves2
    <3>. QED
      BY <3>1
  <2>. QED
    BY <2>1, <2>2 DEF UpReady, Above
<1>5. Sifted(g, s)
  <2>1. PICK i \in Nat : i = n + 1 /\ i \in 1..Len(g) /\ i <= i
    BY <1>3
  <2>2. s = SiftUp[<<g, i>>] /\ UpReady(g, Len(g), i)
    BY <1>1, <1>2, <1>3, <1>4, <2>1
  <2>. QED
    BY <2>1, <2>2, SiftedUp
<1>6. p[1] \in Int /\ \A x : Times(g, x) = IF x = p[1] THEN Times(h, x) + 1 ELSE Times(h, x)
  BY <1>2, TimesAppend DEF Item
<1>. QED
  BY <1>5, <1>6 DEF Sifted, MoreOf

(* heap_pop before it sifts: the last pair in the place of the root.       *)
Moved(h, n, t) ==
  /\ t \in Heaps /\ Len(t) = n - 1 /\ t \in [1..n - 1 -> Item]
  /\ t[1] = h[n] /\ \A k \in 2..n - 1 : t[k] = h[k]

LEMMA PopMoves ==
  ASSUME NEW h \in Heaps, NEW n \in Nat, n = Len(h), n >= 2
  PROVE  \E t : Moved(h, n, t) /\ heap_pop(h) = SiftDown[<<t, 1>>]
<1>1. h \in [1..n -> Item] /\ h \in Seq(Item) /\ Last(h) = h[n] /\ h[n] \in Item
  BY HeapIs DEF Heaps, Item, Last
<1>2. PICK t : t = <<Last(h)>> \o Tail(Front(h))
  OBVIOUS
<1>3. PICK m \in Nat : m = n - 1 /\ m >= 1
  <2>1. n - 1 \in Nat /\ n - 1 >= 1
    OBVIOUS
  <2>. QED
    BY <2>1
<1>4. PICK f \in Seq(Item) : f = Front(h) /\ Len(f) = m /\ \A k \in 1..m : f[k] = h[k]
  <2>1. Front(h) = [k \in 1..m |-> h[k]]
    BY <1>1, <1>3 DEF Front
  <2>2. \A k \in 1..m : k \in 1..n /\ h[k] \in Item
    BY <1>1, <1>3
  <2>3. PICK f \in [1..m -> Item] : f = [k \in 1..m |-> h[k]]
    BY <2>2
  <2>. QED
    BY <2>1, <2>3, AsSeq
<1>5. PICK u \in Seq(Item) : u = Tail(f) /\ Len(u) = m - 1 /\ \A k \in 1..m - 1 : u[k] = f[k + 1]
  <2>1. f # <<>>
    BY <1>3, <1>4
  <2>2. Tail(f) \in Seq(Item) /\ Len(Tail(f)) = m - 1 /\ \A k \in 1..m - 1 : Tail(f)[k] = f[k + 1]
    BY <1>3, <1>4, <2>1
  <2>. QED
    BY <2>2
<1>6. PICK w \in Seq(Item) : w = <<h[n]>> /\ Len(w) = 1 /\ w[1] = h[n]
  <2>1. <<h[n]>> \in Seq(Item) /\ Len(<<h[n]>>) = 1 /\ <<h[n]>>[1] = h[n]
    BY <1>1, Single
  <2>. QED
    BY <2>1
<1>7. t = w \o u
  BY <1>1, <1>2, <1>4, <1>5, <1>6
<1>8. t \in Seq(Item) /\ Len(t) = m /\ t[1] = h[n]
  BY <1>3, <1>5, <1>6, <1>7
<1>9. ASSUME NEW k \in 2..m PROVE t[k] = h[k]
  <2>1. t[k] = u[k - 1]
    BY <1>3, <1>5, <1>6, <1>7
  <2>2. k - 1 \in 1..m - 1 /\ k \in 1..m
    BY <1>3
  <2>. QED
    BY <1>4, <1>5, <2>1, <2>2
<1>10. t \in Heaps /\ t \in [1..m -> Item]
  BY <1>8 DEF Heaps, Item
<1>11. heap_pop(h) = SiftDown[<<t, 1>>]
  BY <1>2 DEF heap_pop
<1>. QED
  BY <1>3, <1>8, <1>9, <1>10, <1>11 DEF Moved

LEMMA HeapPops ==
  ASSUME NEW h \in Heaps, HeapOrdered(h, Len(h)), h # <<>>
  PROVE  /\ heap_pop(h) \in Heaps /\ HeapOrdered(heap_pop(h), Len(heap_pop(h)))
         /\ MoreOf(heap_pop(h), h, h[1][1])
<1>1. PICK n \in Nat : n = Len(h) /\ h \in [1..n -> Item] /\ n >= 1
  <2>1. h \in Seq(Item)
    BY DEF Heaps, Item
  <2>. QED
    BY <2>1, HeapIs
<1>2. h[1] \in Item /\ h[n] \in Item /\ h[1][1] \in Int
  BY <1>1 DEF Item
<1>3. ASSUME NEW t \in Heaps, NEW g \in Heaps, g = Append(t, h[1]), \A x : Times(g, x) = Times(h, x)
      PROVE  MoreOf(t, h, h[1][1])
  BY <1>2, <1>3, TimesAppend DEF MoreOf
<1>4. CASE n = 1
  <2>1. heap_pop(h) = <<>> /\ <<>> \in Heaps
    BY <1>1, <1>4 DEF heap_pop, Heaps
  <2>2. h = Append(<<>>, h[1])
    <3>1. h \in Seq(Item) /\ Len(h) = 1
      BY <1>1, <1>4 DEF Heaps, Item
    <3>. QED
      BY <3>1
  <2>3. HeapOrdered(<<>>, 0) /\ Len(<<>>) = 0
    BY DEF HeapOrdered
  <2>. QED
    BY <1>3, <2>1, <2>2, <2>3
<1>5. CASE n # 1
  <2>1. PICK t : Moved(h, n, t) /\ heap_pop(h) = SiftDown[<<t, 1>>]
    BY <1>1, <1>5, PopMoves
  <2>2. PICK m \in Nat : m = n - 1 /\ m >= 1
    <3>1. n - 1 \in Nat /\ n - 1 >= 1
      BY <1>1, <1>5
    <3>. QED
      BY <3>1
  <2>3. t \in [1..m -> Item] /\ Len(t) = m /\ t[1] = h[n] /\ \A k \in 2..m : t[k] = h[k]
    BY <2>1, <2>2 DEF Moved
  <2>4. t \in Heaps
    BY <2>1 DEF Moved
  <2>5. DownReady(t, m, 1)
    <3>1. ASSUME NEW j \in 2..m, j \div 2 # 1 PROVE AtMost(t[j \div 2], t[j])
      <4>1. PICK q \in 2..m : q = j \div 2
        BY <3>1, Halves2
      <4>2. AtMost(h[j \div 2], h[j])
        <5>1. j \in 2..n
          BY <2>2
        <5>. QED
          BY <1>1, <5>1 DEF HeapOrdered, Above
      <4>. QED
        BY <2>3, <4>1, <4>2
    <3>. QED
      BY <3>1 DEF DownReady, Above
  <2>6. Sifted(t, heap_pop(h))
    <3>1. heap_pop(h) = SiftDown[<<t, 1>>]
      BY <2>1
    <3>2. 1 \in 1..m /\ m - 1 <= m
      BY <2>2
    <3>. QED
      BY <2>3, <2>4, <2>5, <3>1, <3>2, SiftedDown
  <2>7. PICK g : g = Swapped(h, 1, n)
    OBVIOUS
  <2>8. 1 \in 1..n /\ n \in 1..n
    BY <1>1
  <2>9. /\ g \in Heaps /\ Len(g) = n
        /\ \A k \in 1..n : g[k] = IF k = n THEN h[1] ELSE IF k = 1 THEN h[n] ELSE h[k]
        /\ \A x : Times(g, x) = Times(h, x)
    <3>1. /\ g \in Heaps /\ Len(g) = n
          /\ \A k \in 1..n : g[k] = IF k = n THEN h[1] ELSE IF k = 1 THEN h[n] ELSE h[k]
      <4>1. PICK a \in 1..n, b \in 1..n : a = 1 /\ b = n
        BY <2>8
      <4>2. /\ Swapped(h, a, b) \in Heaps /\ Len(Swapped(h, a, b)) = n
            /\ \A k \in 1..n : Swapped(h, a, b)[k] = IF k = b THEN h[a] ELSE IF k = a THEN h[b] ELSE h[k]
        BY <1>1, SwapIs
      <4>. QED
        BY <2>7, <4>1, <4>2
    <3>2. \A x : Times(g, x) = Times(h, x)
      BY <1>1, <2>7, <2>8, TimesSwapped
    <3>. QED
      BY <3>1, <3>2
  <2>10. g = Append(t, h[1])
    <3>6. t \in Seq(Item) /\ h[1] \in Item /\ Len(t) = m
      BY <1>2, <2>3, <2>4 DEF Heaps, Item
    <3>7. /\ Append(t, h[1]) \in Seq(Item) /\ Len(Append(t, h[1])) = m + 1
           /\ Append(t, h[1])[m + 1] = h[1] /\ \A k \in 1..m : Append(t, h[1])[k] = t[k]
      BY <3>6
    <3>1. PICK a \in Seq(Item) : a = Append(t, h[1]) /\ Len(a) = m + 1 /\ a[m + 1] = h[1] /\ \A k \in 1..m : a[k] = t[k]
      BY <3>7
    <3>2. g \in Seq(Item) /\ Len(g) = m + 1
      BY <2>2, <2>9 DEF Heaps, Item
    <3>3. ASSUME NEW k \in 1..m + 1 PROVE g[k] = a[k]
      <4>1. k \in 1..n /\ (k = n <=> k = m + 1)
        BY <2>2
      <4>2. CASE k = m + 1
        BY <2>2, <2>9, <3>1, <4>1, <4>2
      <4>3. CASE k = 1
        <5>1. k \in 1..m /\ k # n
          BY <2>2, <4>3
        <5>. QED
          BY <2>3, <2>9, <3>1, <4>1, <4>3, <5>1
      <4>4. CASE k # m + 1 /\ k # 1
        <5>1. k \in 2..m /\ k \in 1..m /\ k # n
          BY <2>2, <4>4
        <5>. QED
          BY <2>3, <2>9, <3>1, <4>1, <4>4, <5>1
      <4>. QED
        BY <4>2, <4>3, <4>4
    <3>. QED
      BY <3>1, <3>2, <3>3
  <2>11. MoreOf(t, h, h[1][1])
    BY <1>3, <2>4, <2>9, <2>10
  <2>. QED
    BY <2>6, <2>11 DEF MoreOf, Sifted
<1>. QED
  BY <1>4, <1>5

LEMMA LeastIs ==
  ASSUME NEW h \in Heaps, HeapOrdered(h, Len(h)), h # <<>>
  PROVE  Contract!Least(BagOf(h)) = h[1][1]
<1>1. PICK n \in Nat : n = Len(h) /\ h \in [1..n -> Item] /\ n >= 1 /\ DOMAIN h = 1..n
  <2>1. h \in Seq(Item)
    BY DEF Heaps, Item
  <2>. QED
    BY <2>1, HeapIs
<1>2. DOMAIN BagOf(h) = IntsOf(h)
  BY DEF BagOf
<1>3. \A x : x \in IntsOf(h) <=> \E i \in 1..n : h[i][1] = x
  BY <1>1 DEF IntsOf, ToSet
<1>4. 1 \in 1..n /\ \A i \in 1..n : h[i] \in Item /\ h[i][1] \in Int
  BY <1>1 DEF Item
<1>5. \A i \in 1..n : AtMost(h[1], h[i])
  BY <1>1, RootLeast
<1>6. \A i \in 1..n : h[1][1] <= h[i][1]
  BY <1>4, <1>5, ItemOrder
<1>7. PICK x \in Int : x = h[1][1] /\ x \in IntsOf(h)
  BY <1>3, <1>4
<1>8. \A y \in IntsOf(h) : y \in Int /\ x <= y
  BY <1>3, <1>4, <1>6, <1>7
<1>9. Contract!Least(BagOf(h)) = CHOOSE y \in IntsOf(h) : \A z \in IntsOf(h) : y <= z
  BY <1>2 DEF Contract!Least, Contract!BagToSet
<1>10. \A y \in IntsOf(h) : (\A z \in IntsOf(h) : y <= z) => y = x
  BY <1>7, <1>8
<1>. QED
  BY <1>7, <1>8, <1>9, <1>10

HeapKept ==
  kind = "pq" =>
    /\ body = [seq |-> body.seq, heap |-> body.heap] /\ body.seq \in Nat
    /\ body.heap \in Heaps /\ HeapOrdered(body.heap, Len(body.heap))

LEMMA PushHeap ==
  ASSUME kind = "pq", HeapKept, NEW v \in Operands["pq"], NEW x, b_ps(v, x)
  PROVE  Contract!Push(v, x) /\ HeapKept'
<1>1. UNCHANGED <<kind, size, freed>> /\ v \in Operand
  BY OperandAssumption DEF b_ps, Kinds
<1>2. PICK h \in Heaps, q \in Nat : /\ body = [seq |-> q, heap |-> h] /\ h = body.heap /\ q = body.seq
                                    /\ HeapOrdered(h, Len(h))
  BY DEF HeapKept
<1>3. Held = BagOf(h)
  BY <1>2, HeldIs DEF Shows
<1>4. Contract!Count = Len(h)
  <2>1. Contract!Count = Cardinality(Contract!Copies(BagOf(h)))
    BY <1>3, ContractCount
  <2>. QED
    BY <2>1, CopiesCount DEF AllCopies
<1> DEFINE checks == Unless(TYPE_MISMATCH, kind \in PUSH) ?? excl(x, freed)
           fault == checks ?? (plain(v) ?? room(kind, Len(h) + 1))
           next == heap_push(body, v[2])
           holds == Contract!(+)(Held, Contract!SetToBag({v[2]}))
<1>5. Contract!Push(v, x) <=> Wants("ps", fault, holds, None)
  <2>1. Contract!PushFault(v) = (plain(v) ?? room(kind, Len(h) + 1))
    BY <1>4, ContractPushFault
  <2>. QED
    BY <2>1, ContractPush, ContractPushed
<1>6. Answer("ps", fault, next, None)
  BY <1>2 DEF b_ps
<1>7. fault = Fine => v[2] \in Int
  <2>. HIDE DEF checks
  <2>1. fault = Fine => plain(v) = Fine
    BY BothPass
  <2>. QED
    BY <1>1, <2>1, ChecksPass, OperandIs
<1>. HIDE DEF fault, next, holds, checks
<1>8. CASE fault = Fine
  <2>1. PICK n \in Int : n = v[2]
    BY <1>7, <1>8
  <2>2. PICK p \in Item : p = <<n, q + 1>> /\ p[1] = n
    <3>1. <<n, q + 1>> \in Item
      BY DEF Item
    <3>. QED
      BY <3>1
  <2>3. PICK s : s = SiftUp[<<Append(h, p), Len(h) + 1>>]
    OBVIOUS
  <2>4. s \in Heaps /\ HeapOrdered(s, Len(s)) /\ MoreOf(h, s, n)
    BY <1>2, <2>2, <2>3, HeapPushes
  <2>5. body' = [seq |-> q + 1, heap |-> s]
    <3>1. body' = next
      BY <1>6, <1>8 DEF Answer
    <3>. QED
      BY <1>2, <2>1, <2>2, <2>3, <3>1 DEF next, heap_push
  <2>6. body'.heap = s /\ body'.seq = q + 1
    BY <2>5
  <2>7. Held' = holds
    <3>1. Held' = BagOf(s)
      BY <1>1, <2>6, HeldNext DEF Shows
    <3>. QED
      BY <1>3, <2>1, <2>4, <3>1, BagAdds DEF holds
  <2>8. HeapKept'
    BY <2>4, <2>5, <2>6 DEF HeapKept
  <2>. QED
    BY <1>5, <1>6, <1>8, <2>7, <2>8 DEF Answer, Wants
<1>9. CASE fault # Fine
  <2>1. body' = body
    BY <1>6, <1>9 DEF Answer
  <2>2. Held' = Held
    BY <1>1, <2>1, HeldSame
  <2>3. HeapKept'
    BY <1>1, <2>1 DEF HeapKept
  <2>. QED
    BY <1>5, <1>6, <1>9, <2>2, <2>3 DEF Answer, Wants
<1>. QED
  BY <1>8, <1>9

LEMMA PopHeap ==
  ASSUME kind = "pq", HeapKept, NEW x, b_po(x)
  PROVE  Contract!Pop(x) /\ HeapKept'
<1>1. UNCHANGED <<kind, size, freed>>
  BY DEF b_po, Keep
<1>2. PICK h \in Heaps, q \in Nat : /\ body = [seq |-> q, heap |-> h] /\ h = body.heap /\ q = body.seq
                                    /\ HeapOrdered(h, Len(h))
  BY DEF HeapKept
<1>3. Held = BagOf(h)
  BY <1>2, HeldIs DEF Shows
<1>4. Contract!Count > 0 <=> h # <<>>
  <2>1. Contract!Count = Len(h)
    <3>1. Contract!Count = Cardinality(Contract!Copies(BagOf(h)))
      BY <1>3, ContractCount
    <3>. QED
      BY <3>1, CopiesCount DEF AllCopies
  <2>2. Len(h) \in Nat /\ (Len(h) = 0 <=> h = <<>>)
    BY DEF Heaps
  <2>. QED
    BY <2>1, <2>2
<1> DEFINE checks == Unless(TYPE_MISMATCH, kind \in POP) ?? excl(x, freed)
           fault == checks ?? Unless(BOUNDS, h # <<>>)
           asked == checks ?? Unless(BOUNDS, Contract!Count > 0)
           next == [body EXCEPT !.heap = heap_pop(@)]
           holds == Contract!(-)(Held, Contract!SetToBag({Contract!Least(Held)}))
           value == Int_(h[1][1])
           least == Int_(Contract!Least(Held))
<1>5. Contract!Pop(x) <=> Wants("po", asked, holds, least)
  BY ContractPop
<1>6. Answer("po", fault, next, value)
  BY <1>2 DEF b_po
<1>7. asked = fault
  BY <1>4
<1>8. fault = Fine => h # <<>>
  <2>. HIDE DEF checks
  <2>. PICK f : f = (h # <<>>)
    OBVIOUS
  <2>1. fault = Fine => Unless(BOUNDS, f) = Fine
    BY BothPass
  <2>. QED
    BY <2>1, Passes
<1>. HIDE DEF fault, asked, next, holds, checks, value, least
<1>9. CASE fault = Fine
  <2>1. h # <<>>
    BY <1>8, <1>9
  <2>2. PICK s : s = heap_pop(h)
    OBVIOUS
  <2>3. PICK n : n = h[1][1]
    OBVIOUS
  <2>4. s \in Heaps /\ HeapOrdered(s, Len(s)) /\ MoreOf(s, h, n)
    BY <1>2, <2>1, <2>2, <2>3, HeapPops
  <2>5. Contract!Least(Held) = n
    BY <1>2, <1>3, <2>1, <2>3, LeastIs
  <2>6. body' = [seq |-> q, heap |-> s]
    <3>1. body' = next
      BY <1>6, <1>9 DEF Answer
    <3>. QED
      BY <1>2, <2>2, <3>1 DEF next
  <2>7. body'.heap = s /\ body'.seq = q
    BY <2>6
  <2>8. Held' = holds
    <3>1. Held' = BagOf(s)
      BY <1>1, <2>7, HeldNext DEF Shows
    <3>. QED
      BY <1>3, <2>4, <2>5, <3>1, BagTakes DEF holds
  <2>9. HeapKept'
    BY <2>4, <2>6, <2>7 DEF HeapKept
  <2>10. value = least
    BY <2>3, <2>5 DEF value, least
  <2>. QED
    BY <1>5, <1>6, <1>7, <1>9, <2>8, <2>9, <2>10 DEF Answer, Wants
<1>10. CASE fault # Fine
  <2>1. body' = body
    BY <1>6, <1>10 DEF Answer
  <2>2. Held' = Held
    BY <1>1, <2>1, HeldSame
  <2>3. HeapKept'
    BY <1>1, <2>1 DEF HeapKept
  <2>4. Wants("po", fault, holds, value)
    BY <1>6, <1>10, <2>2 DEF Answer, Wants
  <2>. QED
    BY <1>5, <1>7, <1>10, <2>3, <2>4, Refuses
<1>. QED
  BY <1>9, <1>10

(* What a collection of each kind keeps.                                   *)
Kept == Rows /\ Bits /\ Maps /\ Tries /\ HeapKept

LEMMA KeptSame ==
  ASSUME Kept, UNCHANGED <<kind, size, body>>
  PROVE  Kept'
<1>1. Rows' /\ Bits' /\ Maps'
  BY DEF Kept, Rows, Bits, Maps
<1>2. Tries' /\ HeapKept'
  BY DEF Kept, Tries, HeapKept
<1>. QED
  BY <1>1, <1>2 DEF Kept

(* A word that is refused on every collection of a kind.                   *)
LEMMA Refused ==
  ASSUME Kept, NEW word, NEW fault, NEW changed, NEW value, NEW holds, NEW value2,
         Answer(word, fault, changed, value), UNCHANGED <<kind, size>>, fault # Fine
  PROVE  Wants(word, fault, holds, value2) /\ Kept'
<1>1. body' = body
  BY DEF Answer
<1>2. Held' = Held
  BY <1>1, HeldSame
<1>3. Wants(word, fault, holds, value)
  BY <1>2 DEF Answer, Wants
<1>. QED
  BY <1>1, <1>3, KeptSame, Refuses

LEMMA NotOfKind ==
  \A f, g : /\ ((Unless(TYPE_MISMATCH, FALSE) ?? f) ?? g) = TYPE_MISMATCH
            /\ TYPE_MISMATCH # Fine /\ (f ?? TYPE_MISMATCH) # Fine
BY BothPass, Passes DEF ??, Unless

LEMMA PushKeeps ==
  ASSUME kind \in Kinds, Kept, NEW v \in Operands[kind], NEW x, b_ps(v, x)
  PROVE  Contract!Push(v, x) /\ Kept'
<1>1. UNCHANGED <<kind, size, freed>>
  BY DEF b_ps
<1>2. CASE kind \in RowKinds \cup {"sc"}
  <2>1. Contract!Push(v, x) /\ Rows'
    BY <1>2, PushRow DEF Kept
  <2>2. Bits' /\ Maps' /\ Tries' /\ HeapKept'
    BY <1>1, <1>2 DEF RowKinds, Bits, Maps, Tries, HeapKept
  <2>. QED
    BY <2>1, <2>2 DEF Kept
<1>3. CASE kind = "bm"
  <2>1. Contract!Push(v, x) /\ Bits'
    BY <1>3, PushBit DEF Kept
  <2>2. Rows' /\ Maps' /\ Tries' /\ HeapKept'
    BY <1>1, <1>3 DEF Rows, RowKinds, Maps, Tries, HeapKept
  <2>. QED
    BY <2>1, <2>2 DEF Kept
<1>4. CASE kind = "pq"
  <2>1. Contract!Push(v, x) /\ HeapKept'
    BY <1>4, PushHeap DEF Kept
  <2>2. Rows' /\ Bits' /\ Maps' /\ Tries'
    BY <1>1, <1>4 DEF Rows, RowKinds, Bits, Maps, Tries
  <2>. QED
    BY <2>1, <2>2 DEF Kept
<1>5. CASE kind \notin PUSH
  <2>1. (kind \in PUSH) = FALSE
    BY <1>5
  <2>2. PICK changed, g : Answer("ps", Unless(TYPE_MISMATCH, kind \in PUSH) ?? excl(x, freed) ?? g, changed, None)
    BY DEF b_ps
  <2>3. Answer("ps", TYPE_MISMATCH, changed, None)
    BY <2>1, <2>2, NotOfKind
  <2>4. Wants("ps", TYPE_MISMATCH, Contract!Pushed(v), None) /\ Kept'
    BY <1>1, <2>3, NotOfKind, Refused
  <2>5. Contract!Push(v, x) <=> Wants("ps", TYPE_MISMATCH, Contract!Pushed(v), None)
    BY <2>1, ContractPush, NotOfKind
  <2>. QED
    BY <2>4, <2>5
<1>. QED
  BY <1>2, <1>3, <1>4, <1>5 DEF PUSH, RowKinds

LEMMA PopKeeps ==
  ASSUME kind \in Kinds, Kept, NEW x, b_po(x)
  PROVE  Contract!Pop(x) /\ Kept'
<1>1. UNCHANGED <<kind, size, freed>>
  BY DEF b_po, Keep
<1>2. CASE kind \in RowKinds
  <2>1. Contract!Pop(x) /\ Rows'
    BY <1>2, PopRow DEF Kept
  <2>2. Bits' /\ Maps' /\ Tries' /\ HeapKept'
    BY <1>1, <1>2 DEF RowKinds, Bits, Maps, Tries, HeapKept
  <2>. QED
    BY <2>1, <2>2 DEF Kept
<1>3. CASE kind = "pq"
  <2>1. Contract!Pop(x) /\ HeapKept'
    BY <1>3, PopHeap DEF Kept
  <2>2. Rows' /\ Bits' /\ Maps' /\ Tries'
    BY <1>1, <1>3 DEF Rows, RowKinds, Bits, Maps, Tries
  <2>. QED
    BY <2>1, <2>2 DEF Kept
<1>4. CASE kind \notin POP
  <2>1. (kind \in POP) = FALSE
    BY <1>4
  <2>2. PICK changed, g, value :
          Answer("po", Unless(TYPE_MISMATCH, kind \in POP) ?? excl(x, freed) ?? g, changed, value)
    BY DEF b_po
  <2>3. Answer("po", TYPE_MISMATCH, changed, value)
    BY <2>1, <2>2, NotOfKind
  <2>4. PICK holds, given, h :
          Contract!Pop(x) <=>
            Wants("po", Unless(TYPE_MISMATCH, kind \in POP) ?? excl(x, freed) ?? h, holds, given)
    BY SameWords, WantsIs DEF Contract!Pop, Contract!POP, POP
  <2>5. Contract!Pop(x) <=> Wants("po", TYPE_MISMATCH, holds, given)
    BY <2>1, <2>4, NotOfKind
  <2>6. Wants("po", TYPE_MISMATCH, holds, given) /\ Kept'
    BY <1>1, <2>3, NotOfKind, Refused
  <2>. QED
    BY <2>5, <2>6
<1>. QED
  BY <1>2, <1>3, <1>4 DEF POP, RowKinds

LEMMA PutKeeps ==
  ASSUME kind \in Kinds, Kept, Tree, NEW k \in Operands[kind], NEW v \in Values[kind], NEW x, b_pt(k, v, x)
  PROVE  Contract!Put(k, v, x) /\ Kept'
<1>1. UNCHANGED <<kind, size, freed>> /\ kind # "ti"
  BY DEF b_pt, Keep
<1>2. CASE kind = "bv"
  <2>1. Contract!Put(k, v, x) /\ Bits'
    BY <1>2, PutBit DEF Kept
  <2>2. Rows' /\ Maps' /\ Tries' /\ HeapKept'
    BY <1>1, <1>2 DEF Rows, RowKinds, Maps, Tries, HeapKept
  <2>. QED
    BY <2>1, <2>2 DEF Kept
<1>3. CASE kind = "mp"
  <2>1. Contract!Put(k, v, x) /\ Maps'
    BY <1>3, PutMap DEF Kept
  <2>2. Rows' /\ Bits' /\ Tries' /\ HeapKept'
    BY <1>1, <1>3 DEF Rows, RowKinds, Bits, Tries, HeapKept
  <2>. QED
    BY <2>1, <2>2 DEF Kept
<1>4. CASE kind = "te"
  <2>1. Contract!Put(k, v, x)
    BY <1>4, PutTree
  <2>2. Rows' /\ Bits' /\ Maps' /\ Tries' /\ HeapKept'
    BY <1>1, <1>4 DEF Rows, RowKinds, Bits, Maps, Tries, HeapKept
  <2>. QED
    BY <2>1, <2>2 DEF Kept
<1>5. CASE kind \notin {"bv", "mp", "te", "ti"}
  <2>1. PICK changed : Answer("pt", excl(x, freed) ?? TYPE_MISMATCH, changed, None)
    BY <1>5 DEF b_pt
  <2>2. PICK fault : fault = (excl(x, freed) ?? TYPE_MISMATCH) /\ fault # Fine
    BY NotOfKind
  <2>3. Wants("pt", fault, {}, None) /\ Kept'
    BY <1>1, <2>1, <2>2, Refused
  <2>4. Contract!Put(k, v, x) <=> Wants("pt", fault, {}, None)
    BY <1>5, <2>2, ContractPut DEF PutWants
  <2>. QED
    BY <2>3, <2>4
<1>. QED
  BY <1>1, <1>2, <1>3, <1>4, <1>5

LEMMA PutWordKeeps ==
  ASSUME kind \in Kinds, Kept, NEW k \in Operands[kind], NEW x, PutTrie(k, x)
  PROVE  Contract!PutWord(k, x) /\ Kept'
<1>1. UNCHANGED <<kind, size, freed>> /\ kind = "ti"
  BY DEF PutTrie, Keep
<1>2. Contract!PutWord(k, x) /\ Tries'
  BY <1>1, PutTrieWord DEF Kept
<1>3. Rows' /\ Bits' /\ Maps' /\ HeapKept'
  BY <1>1 DEF Rows, RowKinds, Bits, Maps, HeapKept
<1>. QED
  BY <1>2, <1>3 DEF Kept

-----------------------------------------------------------------------------
(* ln and the drop of the owner.                                           *)
LEMMA SameCount ==
  ASSUME kind \in Kinds, Kept, Tree
  PROVE  Contract!Count = Count
<1>1. CASE kind \in RowKinds \cup {"sc"}
  <2>1. Held = body
    BY <1>1, HeldIs DEF Shows, RowKinds
  <2>. QED
    BY <1>1, <2>1, ContractCount DEF Count, RowKinds
<1>2. CASE kind = "mp"
  <2>1. Held = PairsOf(body) /\ body.order \in Seq(Word)
    BY <1>2, HeldIs DEF Shows, Kept, Maps, MapGood
  <2>2. Len(Held) = Len(body.order)
    BY <2>1 DEF PairsOf
  <2>. QED
    BY <1>2, <2>2, ContractCount DEF Count
<1>3. CASE kind = "te"
  <2>1. PICK h \in 0..Top : Grown(h, body)
    BY <1>3 DEF Tree
  <2>2. body \in Good[h]
    BY <2>1 DEF Grown
  <2>3. Held = Content[body]
    BY <1>3, <2>2, HeldIs, WalkedTree DEF Shows, Walked
  <2>4. Cardinality(Held) = tree_count[body]
    BY <2>2, <2>3, TreeCount DEF Counted
  <2>. QED
    BY <1>3, <2>4, ContractCount DEF Count
<1>4. CASE kind = "ti"
  <2>1. Held = Flagged(body.trie) /\ body.trie_n = Cardinality(Flagged(body.trie))
    BY <1>4, HeldIs, WordsIs DEF Shows, Kept, Tries
  <2>. QED
    BY <1>4, <2>1, ContractCount DEF Count
<1>5. CASE kind = "pq"
  <2>1. Held = BagOf(body.heap) /\ body.heap \in Heaps
    BY <1>5, HeldIs DEF Shows, Kept, HeapKept
  <2>2. Cardinality(Contract!Copies(Held)) = Len(body.heap)
    BY <2>1, CopiesCount DEF AllCopies
  <2>. QED
    BY <1>5, <2>2, ContractCount DEF Count
<1>6. CASE kind \in {"bm", "bv"}
  BY <1>6, ContractCount DEF Count
<1>. QED
  BY <1>1, <1>2, <1>3, <1>4, <1>5, <1>6 DEF Kinds, RowKinds

LEMMA LengthKeeps ==
  ASSUME kind \in Kinds, Kept, Tree, NEW x, b_len(x)
  PROVE  Contract!Length(x) /\ Kept'
<1>1. Answer("ln", coll_live(freed), body, Int_(Count)) /\ freed' = (freed \/ x) /\ UNCHANGED <<kind, size>>
  BY DEF b_len
<1>2. body' = body
  BY <1>1 DEF Answer
<1>3. Held' = Held
  BY <1>1, <1>2, HeldSame
<1>4. Wants("ln", coll_live(freed), Held, Int_(Contract!Count))
  BY <1>1, <1>3, SameCount DEF Answer, Wants
<1>5. Contract!Answer("ln", Contract!coll_live(freed), Held, Contract!Int_(Contract!Count))
  BY <1>4, SameWords, WantsIs
<1>6. Contract!Length(x)
  BY <1>1, <1>5 DEF Contract!Length
<1>. QED
  BY <1>1, <1>2, <1>6, KeptSame

LEMMA DropKeeps ==
  ASSUME Kept, DropOwner
  PROVE  ~freed /\ Contract!Drop /\ Kept'
<1>1. ~freed /\ freed' = TRUE /\ out' = <<",", Reply(Fine, None)>> /\ UNCHANGED <<kind, size, body>>
  BY Zenon DEF DropOwner
<1>2. Held' = Held
  BY <1>1, HeldSame
<1>3. Contract!Drop
  BY <1>1, <1>2, SameWords DEF Contract!Drop
<1>. QED
  BY <1>1, <1>3, KeptSame

LEMMA TrieFresh == TrieGood(TNode) /\ Flagged(TNode) = {}
<1>1. DOMAIN TNode = {<<>>} /\ TNode \in [{<<>>} -> BOOLEAN] /\ TNode[<<>>] = FALSE
  BY DEF TNode
<1>2. <<>> \in Word /\ Len(<<>>) = 0
  BY DEF Word
<1>3. IsFiniteSet({<<>>})
  BY FS_Singleton
<1>4. \A m \in 0..0 : SubSeq(<<>>, 1, m) = <<>>
  OBVIOUS
<1>5. TrieGood(TNode)
  BY <1>1, <1>2, <1>3, <1>4 DEF TrieGood
<1>6. Flagged(TNode) = {}
  BY <1>1 DEF Flagged
<1>. QED
  BY <1>5, <1>6

LEMMA FreshIs ==
  ASSUME Init
  PROVE  /\ kind \in Kinds /\ freed = FALSE /\ out = <<"", Reply(Fine, None)>>
         /\ kind \in {"rg", "bm", "bv"} => size \in Sizes /\ size \in Nat \ {0}
         /\ kind \notin {"rg", "bm", "bv"} => size = 0
         /\ kind \in RowKinds => body = <<>>
         /\ kind = "sc" => body = {}
         /\ kind = "mp" => body = [order |-> <<>>, pairs |-> <<>>]
         /\ kind = "te" => body = BNode(TRUE, <<>>, <<>>)
         /\ kind = "ti" => body = [trie |-> TNode, trie_n |-> 0]
         /\ kind = "pq" => body = [seq |-> 0, heap |-> <<>>]
         /\ kind \in {"bm", "bv"} => body = Bytes(size)
<1>1. kind \in Kinds /\ freed = FALSE /\ body = fresh(kind, size)
  BY Zenon DEF Init
<1>2. out = <<"", Reply(Fine, None)>>
  BY Zenon DEF Init
<1>3. size \in IF kind \in {"rg", "bm", "bv"} THEN {n \in Sizes : n >= 1 /\ n <= BufMax[kind]} ELSE {0}
  BY Zenon DEF Init
<1>4. kind \in {"rg", "bm", "bv"} => size \in Sizes /\ size \in Nat \ {0}
  BY <1>3, StoreAssumption
<1>5. kind \notin {"rg", "bm", "bv"} => size = 0
  BY <1>3
<1>6. /\ kind \in RowKinds => body = <<>>
      /\ kind = "sc" => body = {}
      /\ kind = "mp" => body = [order |-> <<>>, pairs |-> <<>>]
      /\ kind = "te" => body = BNode(TRUE, <<>>, <<>>)
      /\ kind = "ti" => body = [trie |-> TNode, trie_n |-> 0]
      /\ kind = "pq" => body = [seq |-> 0, heap |-> <<>>]
      /\ kind \in {"bm", "bv"} => body = Bytes(size)
  BY <1>1 DEF fresh, RowKinds
<1>. QED
  BY <1>1, <1>2, <1>4, <1>5, <1>6

LEMMA FreshKept ==
  ASSUME Init
  PROVE  Kept
<1>1. kind \in Kinds => BufMax[kind] \in Nat \ {0}
  BY CollAssumption
<1>2. Rows
  <2>1. kind \in RowKinds => body \in Seq(Operand) /\ Len(body) = 0
    <3>1. <<>> \in Seq(Operand) /\ Len(<<>>) = 0
      OBVIOUS
    <3>. QED
      BY <3>1, FreshIs
  <2>2. kind = "rg" => size \in Nat \ {0} /\ kind \in RowKinds
    BY FreshIs DEF RowKinds
  <2>3. kind = "rg" => size \in Int /\ size >= 1 /\ Len(body) <= size
    BY <2>1, <2>2
  <2>. QED
    BY <2>1, <2>3 DEF Rows
<1>3. Bits
  BY FreshIs, FreshBits DEF Bits
<1>4. Maps
  <2> SUFFICES ASSUME kind = "mp" PROVE MapGood(body)
    BY DEF Maps
  <2>1. body = [order |-> <<>>, pairs |-> <<>>]
    BY FreshIs
  <2>2. body.order = <<>> /\ body.pairs = <<>>
    BY <2>1
  <2>3. PICK e : e = <<>>
    OBVIOUS
  <2>4. e \in Seq(Word) /\ Len(e) = 0 /\ Injected(e) /\ ToSet(e) = {} /\ e \in [{} -> Operand]
    BY <2>3 DEF Injected, ToSet
  <2>5. 0 <= BufMax["mp"]
    BY CollAssumption DEF Kinds
  <2>. QED
    BY <2>1, <2>2, <2>3, <2>4, <2>5 DEF MapGood
<1>5. Tries
  <2> SUFFICES ASSUME kind = "ti" PROVE Tries
    BY DEF Tries
  <2>1. body = [trie |-> TNode, trie_n |-> 0]
    BY FreshIs
  <2>2. body.trie = TNode /\ body.trie_n = 0
    BY <2>1
  <2>3. Cardinality(Flagged(TNode)) = 0
    BY TrieFresh, FS_EmptySet
  <2>4. 0 <= BufMax["ti"]
    BY CollAssumption DEF Kinds
  <2>. QED
    BY <2>1, <2>2, <2>3, <2>4, TrieFresh DEF Tries
<1>6. HeapKept
  <2> SUFFICES ASSUME kind = "pq" PROVE HeapKept
    BY DEF HeapKept
  <2>1. body = [seq |-> 0, heap |-> <<>>]
    BY FreshIs
  <2>2. body.seq = 0 /\ body.heap = <<>>
    BY <2>1
  <2>3. <<>> \in Heaps /\ Len(<<>>) = 0 /\ HeapOrdered(<<>>, 0)
    BY DEF Heaps, HeapOrdered
  <2>. QED
    BY <2>1, <2>2, <2>3 DEF HeapKept
<1>. QED
  BY <1>2, <1>3, <1>4, <1>5, <1>6 DEF Kept

LEMMA FreshHeld ==
  ASSUME Init
  PROVE  Held = Contract!Empty(kind, size)
<1>1. Shows(kind, size, body, Held)
  BY HeldIs
<1>2. PICK h : h = Held
  OBVIOUS
<1>3. PICK e : e = Contract!Empty(kind, size)
  OBVIOUS
<1>4. /\ kind \in RowKinds \cup {"mp"} => e = <<>>
      /\ kind \in {"sc", "ti", "te", "bm"} => e = {}
      /\ kind = "pq" => e = Contract!EmptyBag
      /\ kind = "bv" => e = [i \in 0 .. size - 1 |-> 0]
  BY <1>3 DEF Contract!Empty, RowKinds
<1>5. CASE kind \in RowKinds \cup {"sc"}
  BY <1>1, <1>2, <1>3, <1>4, <1>5, FreshIs DEF Shows, RowKinds
<1>6. CASE kind = "mp"
  <2>1. body = [order |-> <<>>, pairs |-> <<>>]
    BY <1>6, FreshIs
  <2>2. body.order = <<>>
    BY <2>1
  <2>3. PairsOf(body) = <<>>
    BY <2>2 DEF PairsOf
  <2>. QED
    BY <1>1, <1>2, <1>3, <1>4, <1>6, <2>3 DEF Shows
<1>7. CASE kind = "te"
  <2>1. body = BNode(TRUE, <<>>, <<>>)
    BY <1>7, FreshIs
  <2>2. body.leaf = TRUE /\ body.keys = <<>>
    BY <2>1 DEF BNode
  <2>3. PICK g \in 0..Top : Grown(g, body)
    BY <1>7, TreeInit DEF Tree
  <2>4. body \in Trees
    BY <2>3, GoodTrees DEF Grown
  <2>5. tree_walk[body] = <<>>
    BY <2>2, <2>4, WalkIs DEF WalkBody
  <2>6. ToSet(<<>>) = {}
    BY DEF ToSet
  <2>. QED
    BY <1>1, <1>2, <1>3, <1>4, <1>7, <2>5, <2>6 DEF Shows
<1>8. CASE kind = "ti"
  <2>1. body.trie = TNode
    <3>1. body = [trie |-> TNode, trie_n |-> 0]
      BY <1>8, FreshIs
    <3>. QED
      BY <3>1
  <2>2. WordsOf(TNode) = {}
    BY TrieFresh, WordsIs
  <2>. QED
    BY <1>1, <1>2, <1>3, <1>4, <1>8, <2>1, <2>2 DEF Shows
<1>9. CASE kind = "pq"
  <2>1. body.heap = <<>>
    <3>1. body = [seq |-> 0, heap |-> <<>>]
      BY <1>9, FreshIs
    <3>. QED
      BY <3>1
  <2>2. BagOf(<<>>) = [n \in {} |-> 1]
    <3>1. IntsOf(<<>>) = {}
      BY DEF IntsOf, ToSet
    <3>. QED
      BY <3>1 DEF BagOf
  <2>3. Contract!EmptyBag = [n \in {} |-> 1]
    BY DEF Contract!EmptyBag, Contract!SetToBag
  <2>. QED
    BY <1>1, <1>2, <1>3, <1>4, <1>9, <2>1, <2>2, <2>3 DEF Shows
<1>10. CASE kind \in {"bm", "bv"}
  <2>1. \A i \in 0 .. size - 1 : Bit(body, i) = 0
    BY <1>10, FreshIs, FreshBits
  <2>2. HitsOf(body, size) = {} /\ VectorOf(body, size) = [i \in 0 .. size - 1 |-> 0]
    BY <2>1 DEF HitsOf, VectorOf
  <2>. QED
    BY <1>1, <1>2, <1>3, <1>4, <1>10, <2>2 DEF Shows
<1>. QED
  BY <1>5, <1>6, <1>7, <1>8, <1>9, <1>10, FreshIs DEF Kinds, RowKinds

LEMMA ContractInit ==
  ASSUME Init
  PROVE  Contract!Init
<1>1. Contract!Kinds = Kinds
  BY DEF Contract!Kinds, Kinds
<1>2. Held = Contract!Empty(kind, size)
  BY FreshHeld
<1>3. size \in IF kind \in {"rg", "bm", "bv"} THEN Sizes ELSE {0}
  BY FreshIs
<1>. QED
  BY <1>1, <1>2, <1>3, FreshIs, SameWords DEF Contract!Init

LEMMA ContractNext ==
  ASSUME kind \in Kinds, Kept, Tree, Next
  PROVE  Contract!Next /\ Kept'
<1>1. Contract!Handles = Handles
  BY DEF Contract!Handles, Handles
<1>2. CASE \E v \in Operands[kind], x \in Handles : b_ps(v, x)
  <2>1. PICK v \in Operands[kind], x \in Handles : b_ps(v, x)
    BY <1>2
  <2>2. UNCHANGED <<kind, size>> /\ UNCHANGED freed
    BY <2>1 DEF b_ps
  <2>3. Contract!Push(v, x) /\ Kept'
    BY <2>1, PushKeeps
  <2>. QED
    BY <1>1, <2>1, <2>2, <2>3 DEF Contract!Next
<1>3. CASE \E v \in Operands[kind], x \in Handles : PutTrie(v, x)
  <2>1. PICK v \in Operands[kind], x \in Handles : PutTrie(v, x)
    BY <1>3
  <2>2. UNCHANGED <<kind, size>> /\ UNCHANGED freed
    BY <2>1 DEF PutTrie, Keep
  <2>3. Contract!PutWord(v, x) /\ Kept'
    BY <2>1, PutWordKeeps
  <2>. QED
    BY <1>1, <2>1, <2>2, <2>3 DEF Contract!Next
<1>4. CASE \E x \in Handles : b_po(x)
  <2>1. PICK x \in Handles : b_po(x)
    BY <1>4
  <2>2. UNCHANGED <<kind, size>> /\ UNCHANGED freed
    BY <2>1 DEF b_po, Keep
  <2>3. Contract!Pop(x) /\ Kept'
    BY <2>1, PopKeeps
  <2>. QED
    BY <1>1, <2>1, <2>2, <2>3 DEF Contract!Next
<1>5. CASE \E x \in Handles : b_len(x)
  <2>1. PICK x \in Handles : b_len(x)
    BY <1>5
  <2>2. UNCHANGED <<kind, size>>
    BY <2>1 DEF b_len
  <2>3. Contract!Length(x) /\ Kept'
    BY <2>1, LengthKeeps
  <2>. QED
    BY <1>1, <2>1, <2>2, <2>3 DEF Contract!Next
<1>6. CASE \E k \in Operands[kind], v \in Values[kind], x \in Handles : b_pt(k, v, x)
  <2>1. PICK k \in Operands[kind], v \in Values[kind], x \in Handles : b_pt(k, v, x)
    BY <1>6
  <2>2. UNCHANGED <<kind, size>> /\ UNCHANGED freed
    BY <2>1 DEF b_pt, Keep
  <2>3. Contract!Put(k, v, x) /\ Kept'
    BY <2>1, PutKeeps
  <2>. QED
    BY <1>1, <2>1, <2>2, <2>3 DEF Contract!Next
<1>7. CASE DropOwner
  <2>1. UNCHANGED <<kind, size>>
    BY <1>7, Zenon DEF DropOwner
  <2>2. ~freed /\ Contract!Drop /\ Kept'
    BY <1>7, DropKeeps
  <2>. QED
    BY <2>1, <2>2 DEF Contract!Next
<1>. QED
  BY <1>2, <1>3, <1>4, <1>5, <1>6, <1>7 DEF Next

(* KeepsContract: whatever words a program runs, in any order and of any   *)
(* kind of collection, each changes the value the collection stands for,   *)
(* and answers or refuses, as CollContract says.  The proof carries, for   *)
(* each kind, what its representation keeps: the rows are sequences of     *)
(* operands, a map lists each key once, a trie has all nodes on the way to *)
(* a node and counts its words, the heap is in order, the bits fit their   *)
(* bytes, the B-tree is balanced.                                          *)
THEOREM KeepsContractTheorem == Spec => KeepsContract
<1> DEFINE Inv == kind \in Kinds /\ Tree /\ Kept
<1>1. Init => Inv /\ Contract!Init
  BY TreeInit, FreshKept, ContractInit
<1>2. Inv /\ [Next]_vars => Inv' /\ [Contract!Next]_(Contract!vars)
  <2> SUFFICES ASSUME Inv, [Next]_vars
               PROVE  Inv' /\ [Contract!Next]_(Contract!vars)
    OBVIOUS
  <2>1. CASE Next
    BY <2>1, TreeStep, SameKind, ContractNext
  <2>2. CASE UNCHANGED vars
    <3>1. UNCHANGED <<kind, size, body>> /\ UNCHANGED <<freed, out>>
      BY <2>2 DEF vars
    <3>2. Inv'
      BY <3>1, KeptSame DEF Tree
    <3>3. Held' = Held
      BY <3>1, HeldSame
    <3>. QED
      BY <3>1, <3>2, <3>3 DEF Contract!vars
  <2>. QED
    BY <2>1, <2>2
<1>. QED
  BY <1>1, <1>2, PTL DEF Spec, KeepsContract, Contract!Spec

-----------------------------------------------------------------------------
(* The words that look.  A set of words, a set of pairs with one key each, *)
(* and the copies of a bag are listed in order.                            *)
ByLex == {z \in Word \X Word : LexLess(z[1], z[2])}
ByTuple == {z \in Item \X Item : TupleLess(z[1], z[2])}

LEMMA SameOrders ==
  /\ \A a, b : Contract!LexLess(a, b) = LexLess(a, b)
  /\ \A a, b : Contract!TupleLess(a, b) = TupleLess(a, b)
  /\ \A p, q : Before(p, q) = LexLess(p[1], q[1])
<1>1. \A p, q : Before(p, q) = LexLess(p[1], q[1])
  BY DEF Before
<1>. QED
  BY <1>1, Zenon DEF Contract!LexLess, LexLess, Contract!TupleLess, TupleLess

LEMMA WordsInOrder ==
  ASSUME NEW S \in SUBSET Word, IsFiniteSet(S)
  PROVE  StrictOrder(S, ByLex) /\ Lists(Contract!Sorted(S), S, ByLex)
<1> DEFINE N(x) == Contract!Cardinality({y \in S : Contract!LexLess(y, x)})
           Of(i) == CHOOSE x \in S : N(x) = i - 1
<1>1. StrictOrder(S, ByLex)
  BY LexOrder DEF StrictOrder, ByLex
<1>2. PICK res : res = Contract!Sorted(S)
  OBVIOUS
<1>3. res = [i \in 1..Contract!Cardinality(S) |-> Of(i)]
  BY <1>2 DEF Contract!Sorted, Contract!InOrder
<1>4. ASSUME NEW x \in S PROVE N(x) = Rank(S, ByLex, x)
  <2>1. {y \in S : Contract!LexLess(y, x)} = Lesser(S, ByLex, x)
    BY SameOrders DEF Lesser, ByLex
  <2>. QED
    BY <2>1, SameCardinality DEF Rank
<1>. HIDE DEF N
<1>5. ASSUME NEW i \in 1..Cardinality(S), \E x \in S : Rank(S, ByLex, x) = i - 1
      PROVE  res[i] \in S /\ Rank(S, ByLex, res[i]) = i - 1
  <2>1. \E x \in S : N(x) = i - 1
    BY <1>4, <1>5
  <2>2. Of(i) \in S /\ N(Of(i)) = i - 1
    BY <2>1
  <2>. HIDE DEF Of
  <2>3. res[i] = Of(i)
    BY <1>3, SameCardinality
  <2>. QED
    BY <1>4, <2>2, <2>3
<1>. HIDE DEF Of
<1>6. res = [i \in 1..Cardinality(S) |-> res[i]]
  BY <1>3, SameCardinality
<1>. QED
  BY <1>1, <1>2, <1>5, <1>6, RanksList

LEMMA PairsInOrder ==
  ASSUME NEW S \in SUBSET Pair, IsFiniteSet(S), \A p, q \in S : p[1] = q[1] => p = q
  PROVE  StrictOrder(S, ByKey) /\ Lists(Contract!SortedPairs(S), S, ByKey)
<1> DEFINE N(x) == Contract!Cardinality({y \in S : Contract!LexLess(y[1], x[1])})
           Of(i) == CHOOSE x \in S : N(x) = i - 1
<1>1. StrictOrder(S, ByKey)
  BY PairOrder DEF StrictOrder, ByKey
<1>2. PICK res : res = Contract!SortedPairs(S)
  OBVIOUS
<1>3. res = [i \in 1..Contract!Cardinality(S) |-> Of(i)]
  BY <1>2 DEF Contract!SortedPairs, Contract!InOrder
<1>4. ASSUME NEW x \in S PROVE N(x) = Rank(S, ByKey, x)
  <2>1. {y \in S : Contract!LexLess(y[1], x[1])} = Lesser(S, ByKey, x)
    BY SameOrders DEF Lesser, ByKey
  <2>. QED
    BY <2>1, SameCardinality DEF Rank
<1>. HIDE DEF N
<1>5. ASSUME NEW i \in 1..Cardinality(S), \E x \in S : Rank(S, ByKey, x) = i - 1
      PROVE  res[i] \in S /\ Rank(S, ByKey, res[i]) = i - 1
  <2>1. \E x \in S : N(x) = i - 1
    BY <1>4, <1>5
  <2>2. Of(i) \in S /\ N(Of(i)) = i - 1
    BY <2>1
  <2>. HIDE DEF Of
  <2>3. res[i] = Of(i)
    BY <1>3, SameCardinality
  <2>. QED
    BY <1>4, <2>2, <2>3
<1>. HIDE DEF Of
<1>6. res = [i \in 1..Cardinality(S) |-> res[i]]
  BY <1>3, SameCardinality
<1>. QED
  BY <1>1, <1>2, <1>5, <1>6, RanksList

LEMMA ItemsInOrder ==
  ASSUME NEW S \in SUBSET Item, IsFiniteSet(S)
  PROVE  StrictOrder(S, ByTuple) /\ Lists(Contract!InOrder(S, Contract!TupleLess), S, ByTuple)
<1> DEFINE N(x) == Contract!Cardinality({y \in S : Contract!TupleLess(y, x)})
           Of(i) == CHOOSE x \in S : N(x) = i - 1
<1>1. StrictOrder(S, ByTuple)
  <2>1. \A x, y \in Item : x = y \/ x[1] # y[1] \/ x[2] # y[2]
    BY DEF Item
  <2>2. \A x \in Item : x[1] \in Int /\ x[2] \in Int
    BY DEF Item
  <2>. QED
    BY <2>1, <2>2 DEF StrictOrder, ByTuple, TupleLess
<1>2. PICK res : res = Contract!InOrder(S, Contract!TupleLess)
  OBVIOUS
<1>3. res = [i \in 1..Contract!Cardinality(S) |-> Of(i)]
  BY <1>2 DEF Contract!InOrder
<1>4. ASSUME NEW x \in S PROVE N(x) = Rank(S, ByTuple, x)
  <2>1. {y \in S : Contract!TupleLess(y, x)} = Lesser(S, ByTuple, x)
    BY SameOrders DEF Lesser, ByTuple
  <2>. QED
    BY <2>1, SameCardinality DEF Rank
<1>. HIDE DEF N
<1>5. ASSUME NEW i \in 1..Cardinality(S), \E x \in S : Rank(S, ByTuple, x) = i - 1
      PROVE  res[i] \in S /\ Rank(S, ByTuple, res[i]) = i - 1
  <2>1. \E x \in S : N(x) = i - 1
    BY <1>4, <1>5
  <2>2. Of(i) \in S /\ N(Of(i)) = i - 1
    BY <2>1
  <2>. HIDE DEF Of
  <2>3. res[i] = Of(i)
    BY <1>3, SameCardinality
  <2>. QED
    BY <1>4, <2>2, <2>3
<1>. HIDE DEF Of
<1>6. res = [i \in 1..Cardinality(S) |-> res[i]]
  BY <1>3, SameCardinality
<1>. QED
  BY <1>1, <1>2, <1>5, <1>6, RanksList

-----------------------------------------------------------------------------
(* A walk of the trie lists the words under a node: the node's own word is *)
(* a prefix of those below it, and those below it are in the order of the  *)
(* characters that lead to them.                                           *)
LEMMA UnderStarts ==
  ASSUME NEW t, TrieGood(t), NEW p \in DOMAIN t, NEW c \in Int, NEW x, x \in Under(t, Append(p, c))
  PROVE  /\ x \in Word /\ Len(x) > Len(p) /\ x[Len(p) + 1] = c
         /\ \A i \in 1..Len(p) : x[i] = p[i]
<1>1. p \in Seq(Int) /\ x \in Word /\ Starts(Append(p, c), x)
  BY DEF Under, TrieGood, Word
<1>2. PICK n \in Nat : n = Len(p)
  BY <1>1
<1>3. PICK s \in Seq(Int) : s = Append(p, c) /\ Len(s) = n + 1 /\ s[n + 1] = c /\ \A i \in 1..n : s[i] = p[i]
  <2>1. PICK s \in Seq(Int) : s = Append(p, c) /\ IsLonger(s, p, n, c)
    BY <1>1, <1>2, Longer
  <2>. QED
    BY <2>1 DEF IsLonger
<1>4. n + 1 <= Len(x) /\ \A i \in 1..n + 1 : x[i] = s[i]
  BY <1>1, <1>3 DEF Starts
<1>5. n + 1 \in 1..n + 1 /\ \A i \in 1..n : i \in 1..n + 1
  BY <1>2
<1>6. Len(x) \in Nat
  BY <1>1 DEF Word
<1>. QED
  BY <1>1, <1>2, <1>3, <1>4, <1>5, <1>6

FirstDiffer(a, b, n) ==
  /\ n < Len(b) /\ n <= Len(a) /\ (n = Len(a) \/ a[n + 1] < b[n + 1])
  /\ \A i \in 1..n : a[i] = b[i]

LEMMA LexFirst ==
  ASSUME NEW a \in Word, NEW b \in Word, NEW n \in Nat, FirstDiffer(a, b, n)
  PROVE  LexLess(a, b)
<1>1. n + 1 \in 1..Len(b) /\ (n + 1) - 1 = n
  BY DEF Word, FirstDiffer
<1>2. n = Len(a) => n + 1 > Len(a)
  OBVIOUS
<1>. QED
  BY <1>1, <1>2 DEF LexLess, FirstDiffer

LEMMA TrieBodyLists ==
  ASSUME NEW t, TrieGood(t), NEW p \in DOMAIN t, NEW f \in [DOMAIN t -> Seq(Word)],
         \A c \in Int : Append(p, c) \in DOMAIN t =>
            /\ ToSet(f[Append(p, c)]) = Under(t, Append(p, c))
            /\ Ascends(f[Append(p, c)], ByLex)
  PROVE  ToSet(TrieBody(t, p, f)) = Under(t, p) /\ Ascends(TrieBody(t, p, f), ByLex)
<1>0. p \in Word /\ Len(p) \in Nat
  BY DEF TrieGood, Word
<1>1. ToSet(TrieBody(t, p, f)) = Under(t, p)
  <2>1. \A q : q \in ToSet(TrieBody(t, p, f)) <=> q \in Under(t, p)
    BY TrieBodyIs, UnderIs
  <2>2. ToSet(TrieBody(t, p, f)) \subseteq Under(t, p) /\ Under(t, p) \subseteq ToSet(TrieBody(t, p, f))
    BY <2>1
  <2>. QED
    BY <2>2
<1>2. PICK chars \in Seq(Int) : chars = Chars(t, p) /\ ToSet(chars) = NextChars(t, p) /\ Ascends(chars, Lower)
  BY <1>0, CharsIs
<1>3. PICK n \in Nat : n = Len(chars)
  OBVIOUS
<1>4. DOMAIN chars = 1..n /\ chars \in [1..n -> Int]
  BY <1>3
<1>5. ASSUME NEW i \in 1..n PROVE chars[i] \in Int /\ Append(p, chars[i]) \in DOMAIN t
  <2>1. chars[i] \in NextChars(t, p)
    BY <1>2, <1>4 DEF ToSet
  <2>. QED
    BY <1>0, <2>1, NextIs
<1>6. PICK rows \in [1..n -> Seq(Word)] : rows = [i \in DOMAIN chars |-> f[Append(p, chars[i])]]
  BY <1>4, <1>5
<1>7. \A i \in 1..n : ToSet(rows[i]) = Under(t, Append(p, chars[i])) /\ Ascends(rows[i], ByLex)
  BY <1>4, <1>5, <1>6
<1>8. ASSUME NEW i \in 1..n, NEW j \in 1..n, i < j, NEW x \in ToSet(rows[i]), NEW y \in ToSet(rows[j])
      PROVE  <<x, y>> \in ByLex
  <2>1. chars[i] < chars[j]
    BY <1>2, <1>3, <1>8 DEF Ascends, Lower
  <2>2. /\ x \in Word /\ Len(x) > Len(p) /\ x[Len(p) + 1] = chars[i]
        /\ \A k \in 1..Len(p) : x[k] = p[k]
    BY <1>5, <1>7, UnderStarts
  <2>3. /\ y \in Word /\ Len(y) > Len(p) /\ y[Len(p) + 1] = chars[j]
        /\ \A k \in 1..Len(p) : y[k] = p[k]
    BY <1>5, <1>7, UnderStarts
  <2>4. PICK m \in Nat : m = Len(p)
    BY <1>0
  <2>5. Len(x) \in Nat
    BY <2>2 DEF Word
  <2>6. LexLess(x, y)
    <3>1. m < Len(y) /\ m <= Len(x) /\ x[m + 1] < y[m + 1]
      BY <2>1, <2>2, <2>3, <2>4, <2>5
    <3>2. FirstDiffer(x, y, m)
      BY <2>2, <2>3, <2>4, <3>1 DEF FirstDiffer
    <3>. QED
      BY <2>2, <2>3, <3>2, LexFirst
  <2>. QED
    BY <2>2, <2>3, <2>6 DEF ByLex
<1>9. Chained(n, rows, ByLex)
  BY <1>7, <1>8 DEF Chained
<1>10. PICK u \in Seq(Word) : /\ u = Joined(rows) /\ Ascends(u, ByLex)
                              /\ \A q : q \in ToSet(u) <=> \E i \in 1..n : q \in ToSet(rows[i])
  BY <1>9, JoinedLists
<1>11. PICK s \in Seq(Word) : /\ s = (IF t[p] THEN <<p>> ELSE <<>>) /\ Ascends(s, ByLex)
                              /\ \A q : q \in ToSet(s) => q = p
  <2>1. <<p>> \in Seq(Word) /\ Len(<<p>>) = 1 /\ <<p>>[1] = p /\ <<>> \in Seq(Word)
    BY <1>0, Single
  <2>2. ToSet(<<p>>) = {p} /\ ToSet(<<>>) = {}
    BY DEF ToSet
  <2>3. Ascends(<<p>>, ByLex) /\ Ascends(<<>>, ByLex)
    BY <2>1 DEF Ascends
  <2>. QED
    BY <2>1, <2>2, <2>3
<1>12. TrieBody(t, p, f) = s \o u
  BY <1>2, <1>6, <1>10, <1>11 DEF TrieBody
<1>13. ASSUME NEW x \in ToSet(s), NEW y \in ToSet(u) PROVE <<x, y>> \in ByLex
  <2>1. PICK i \in 1..n : y \in Under(t, Append(p, chars[i]))
    BY <1>7, <1>10
  <2>2. /\ y \in Word /\ Len(y) > Len(p) /\ \A k \in 1..Len(p) : y[k] = p[k]
    BY <1>5, <2>1, UnderStarts
  <2>3. LexLess(p, y)
    <3>1. PICK m \in Nat : m = Len(p)
      BY <1>0
    <3>2. FirstDiffer(p, y, m)
      BY <2>2, <3>1 DEF FirstDiffer
    <3>. QED
      BY <1>0, <2>2, <3>2, LexFirst
  <2>. QED
    BY <1>0, <1>11, <2>2, <2>3 DEF ByLex
<1>14. Ascends(s \o u, ByLex)
  BY <1>10, <1>11, <1>13, TwoLists
<1>. QED
  BY <1>1, <1>12, <1>14

LEMMA TrieLists ==
  ASSUME NEW t, TrieGood(t), NEW p \in DOMAIN t
  PROVE  Lists(trie_walk(t, p), Under(t, p), ByLex)
<1>1. PICK walk \in [DOMAIN t -> Seq(Word)] :
        /\ \A q \in DOMAIN t : walk[q] = TrieBody(t, q, walk)
        /\ \A q \in DOMAIN t : trie_walk(t, q) = walk[q]
  BY TrieWalkIs
<1> DEFINE rank == DepthRank(t)
           Listed(q) == ToSet(walk[q]) = Under(t, q) /\ Ascends(walk[q], ByLex)
           P == {n \in Nat : \A q \in DOMAIN t : rank[q] < n => Listed(q)}
<1>2. \A q \in DOMAIN t : rank[q] \in Nat
  BY DeeperIs
<1>3. 0 \in P
  BY <1>2
<1>4. ASSUME NEW n \in Nat, n \in P PROVE n + 1 \in P
  <2> SUFFICES ASSUME NEW q \in DOMAIN t, rank[q] < n + 1 PROVE Listed(q)
    OBVIOUS
  <2>0. q \in Seq(Int)
    BY DEF TrieGood, Word
  <2>1. ASSUME NEW c \in Int, Append(q, c) \in DOMAIN t PROVE Listed(Append(q, c))
    <3>1. PICK s \in Seq(Int) : s = Append(q, c) /\ Len(s) = Len(q) + 1
      BY <2>0, AppendIs
    <3>2. Len(q) < Len(s)
      <4>1. Len(q) \in Nat
        BY <2>0
      <4>. QED
        BY <3>1, <4>1
    <3>3. rank[s] < rank[q] /\ s \in DOMAIN t
      BY <2>1, <3>1, <3>2, DeeperIs
    <3>. HIDE DEF rank
    <3>4. rank[s] < n
      BY <1>2, <3>3
    <3>. QED
      BY <1>4, <3>1, <3>3, <3>4
  <2>. QED
    BY <1>1, <2>1, TrieBodyLists
<1>. HIDE DEF P
<1>5. Nat \subseteq P
  BY <1>3, <1>4, Induction
<1>6. Listed(p)
  <2>1. rank[p] \in Nat
    BY <1>2
  <2>. HIDE DEF rank, Listed
  <2>2. rank[p] + 1 \in Nat /\ rank[p] < rank[p] + 1
    BY <2>1
  <2>. QED
    BY <1>5, <2>2 DEF P
<1>7. walk[p] \in Seq(Under(t, p))
  <2>1. PICK n \in Nat : n = Len(walk[p])
    OBVIOUS
  <2>2. DOMAIN walk[p] = 1..n
    BY <2>1
  <2>3. \A i \in 1..n : walk[p][i] \in Under(t, p)
    BY <1>6, <2>2 DEF ToSet
  <2>4. walk[p] = [i \in 1..n |-> walk[p][i]]
    BY <2>1, <2>2
  <2>. QED
    BY <2>3, <2>4, AsSeq
<1>. QED
  BY <1>1, <1>6, <1>7 DEF Lists

-----------------------------------------------------------------------------
(* Sifting keeps the length, of a heap that is not in order too.           *)
LEMMA DownLength ==
  \A p \in Places : Len(SiftDown[p]) = Len(p[1])
<1> DEFINE P == {n \in Nat : \A p \in Places : Len(p[1]) - p[2] < n => Len(SiftDown[p]) = Len(p[1])}
<1>1. 0 \in P
  <2>1. ASSUME NEW p \in Places PROVE ~(Len(p[1]) - p[2] < 0)
    <3>1. PICK m \in Nat : m = Len(p[1]) /\ p[2] \in 1..m
      BY PlaceIs
    <3>. QED
      BY <3>1
  <2>. QED
    BY <2>1
<1>2. ASSUME NEW n \in Nat, n \in P PROVE n + 1 \in P
  <2> SUFFICES ASSUME NEW p \in Places, Len(p[1]) - p[2] < n + 1 PROVE Len(SiftDown[p]) = Len(p[1])
    OBVIOUS
  <2>1. PICK h, i : h = p[1] /\ i = p[2]
    OBVIOUS
  <2>2. PICK small : small = SmallOf(h, i)
    OBVIOUS
  <2>3. SiftDown[p] = IF small = i THEN h ELSE SiftDown[<<Swapped(h, i, small), small>>]
    BY <2>1, <2>2, SiftDownIs DEF DownBody, SmallOf
  <2>4. CASE small # i
    <3>1. /\ <<Swapped(h, i, small), small>> \in Places
          /\ Len(Swapped(h, i, small)) = Len(h) /\ small \in 1..Len(h) /\ small > i
      BY <2>1, <2>2, <2>4, DownCall
    <3>2. PICK u : u = Swapped(h, i, small)
      OBVIOUS
    <3>3. PICK m \in Nat : m = Len(h) /\ i \in 1..m
      BY <2>1, PlaceIs
    <3>4. PICK q \in Places : q = <<u, small>> /\ q[1] = u /\ q[2] = small
      BY <3>1, <3>2
    <3>5. Len(q[1]) - q[2] < n
      BY <2>1, <3>1, <3>2, <3>3, <3>4
    <3>6. Len(SiftDown[q]) = Len(q[1])
      BY <1>2, <3>5
    <3>. QED
      BY <2>1, <2>3, <2>4, <3>1, <3>2, <3>4, <3>6
  <2>5. CASE small = i
    BY <2>1, <2>3, <2>5
  <2>. QED
    BY <2>4, <2>5
<1>. HIDE DEF P
<1>3. Nat \subseteq P
  BY <1>1, <1>2, Induction
<1>4. ASSUME NEW p \in Places PROVE Len(SiftDown[p]) = Len(p[1])
  <2>1. PICK m \in Nat : m = Len(p[1]) /\ p[2] \in 1..m
    BY PlaceIs
  <2>2. m \in P /\ Len(p[1]) - p[2] < m
    BY <1>3, <2>1
  <2>. QED
    BY <2>2 DEF P
<1>. QED
  BY <1>4

LEMMA PopShorter ==
  ASSUME NEW h \in Heaps, h # <<>>
  PROVE  heap_pop(h) \in Heaps /\ Len(h) \in Nat /\ Len(heap_pop(h)) = Len(h) - 1 /\ h[1][1] \in Int
<1>1. PICK n \in Nat : n = Len(h) /\ h \in [1..n -> Item] /\ n >= 1
  <2>1. h \in Seq(Item)
    BY DEF Heaps, Item
  <2>. QED
    BY <2>1, HeapIs
<1>2. h[1][1] \in Int
  BY <1>1 DEF Item
<1>3. CASE n = 1
  <2>1. heap_pop(h) = <<>> /\ <<>> \in Heaps /\ Len(<<>>) = 0
    BY <1>1, <1>3 DEF heap_pop, Heaps
  <2>. QED
    BY <1>1, <1>2, <1>3, <2>1
<1>4. CASE n # 1
  <2>1. PICK t : Moved(h, n, t) /\ heap_pop(h) = SiftDown[<<t, 1>>]
    BY <1>1, <1>4, PopMoves
  <2>2. t \in Heaps /\ Len(t) = n - 1 /\ 1 \in 1..Len(t)
    BY <1>1, <1>4, <2>1 DEF Moved
  <2>3. PICK q \in Places : q = <<t, 1>> /\ q[1] = t
    BY <2>2, PlaceIs
  <2>4. SiftDown[q] \in Heaps /\ Len(SiftDown[q]) = Len(t)
    BY <2>3, SiftDownIs, DownLength
  <2>. QED
    BY <1>1, <1>2, <2>1, <2>2, <2>3, <2>4
<1>. QED
  BY <1>3, <1>4

(* Drained takes the root, then drains what heap_pop leaves.               *)
DrainBody(h, rest) == IF h = <<>> THEN <<>> ELSE <<h[1][1]>> \o rest[heap_pop(h)]

LEMMA DrainedIs ==
  /\ Drained \in [Heaps -> Seq(Int)]
  /\ \A h \in Heaps : Drained[h] = DrainBody(h, Drained)
<1> DEFINE D == Heaps
           V == Seq(Int)
           rank == [h \in D |-> Len(h)]
           E == [z \in D \X [D -> V] |-> DrainBody(z[1], z[2])]
<1>1. ASSUME NEW h \in D PROVE rank[h] = Len(h) /\ rank[h] \in Nat
  BY HeapIs
<1>2. ASSUME NEW h \in D, NEW f \in [D -> V] PROVE DrainBody(h, f) \in V
  <2>1. CASE h = <<>>
    BY <2>1 DEF DrainBody
  <2>2. CASE h # <<>>
    <3>1. heap_pop(h) \in D /\ h[1][1] \in Int
      BY <2>2, PopShorter
    <3>2. PICK s \in Seq(Int) : s = f[heap_pop(h)]
      BY <3>1
    <3>3. PICK x \in Int : x = h[1][1]
      BY <3>1
    <3>4. <<x>> \o s \in Seq(Int)
      OBVIOUS
    <3>. QED
      BY <2>2, <3>2, <3>3, <3>4 DEF DrainBody
  <2>. QED
    BY <2>1, <2>2
<1>3. V # {} /\ E \in [D \X [D -> V] -> V]
  <2>1. <<>> \in V
    OBVIOUS
  <2>. QED
    BY <1>2, <2>1
<1>4. \A h \in D : \A f \in [D -> V] : E[<<h, f>>] = DrainBody(h, f)
  OBVIOUS
<1>5. ASSUME NEW h \in D, NEW f, NEW g, \A y \in D : rank[y] < rank[h] => f[y] = g[y]
      PROVE  DrainBody(h, f) = DrainBody(h, g)
  <2>1. CASE h = <<>>
    BY <2>1 DEF DrainBody
  <2>2. CASE h # <<>>
    <3>1. heap_pop(h) \in D /\ Len(h) \in Nat /\ Len(heap_pop(h)) = Len(h) - 1
      BY <2>2, PopShorter
    <3>2. rank[heap_pop(h)] < rank[h]
      BY <3>1
    <3>3. f[heap_pop(h)] = g[heap_pop(h)]
      BY <1>5, <3>1, <3>2
    <3>. QED
      BY <2>2, <3>3 DEF DrainBody
  <2>. QED
    BY <2>1, <2>2
<1>. HIDE DEF E, V, D, rank
<1>6. Ranked(D, rank, V, E)
  <2>1. rank \in [D -> Nat]
    BY <1>1 DEF rank
  <2>2. \A h \in D : \A f, g \in [D -> V] :
          (\A y \in D : rank[y] < rank[h] => f[y] = g[y]) => E[<<h, f>>] = E[<<h, g>>]
    BY <1>4, <1>5
  <2>. QED
    BY <1>3, <2>1, <2>2 DEF Ranked
<1>7. PICK drain \in [D -> V] : \A h \in D : drain[h] = E[<<h, drain>>]
  BY <1>6, RankedRecursion
<1>8. \A h \in D : drain[h] = DrainBody(h, drain)
  BY <1>4, <1>7
<1> DEFINE Fits(g) == g = [h \in D |-> DrainBody(h, g)]
           chosen == CHOOSE g : Fits(g)
<1>9. Fits(chosen)
  <2>1. Fits(drain)
    BY <1>8
  <2>. QED
    BY <2>1
<1>10. Drained = chosen
  BY DEF Drained, DrainBody, D
<1>. HIDE DEF chosen
<1>11. \A h \in D : chosen[h] = DrainBody(h, chosen)
  BY <1>9
<1>12. \A h \in D : drain[h] = chosen[h]
  <2>1. ASSUME NEW h \in D, \A y \in D : rank[y] < rank[h] => drain[y] = chosen[y]
        PROVE  chosen[h] = E[<<h, drain>>]
    BY <1>5, <1>7, <1>8, <1>11, <2>1
  <2>. QED
    BY <1>6, <1>7, <2>1, RankedIs
<1>13. chosen \in [D -> V]
  BY <1>9, <1>11, <1>12
<1>. QED
  BY <1>10, <1>11, <1>13 DEF D, V

-----------------------------------------------------------------------------
LEMMA RootBelow ==
  ASSUME NEW h \in Heaps, HeapOrdered(h, Len(h)), h # <<>>, NEW y, Times(h, y) # 0
  PROVE  y \in Int /\ h[1][1] \in Int /\ h[1][1] <= y
<1>1. PICK n \in Nat : n = Len(h) /\ h \in [1..n -> Item] /\ n >= 1 /\ DOMAIN h = 1..n
  <2>1. h \in Seq(Item)
    BY DEF Heaps, Item
  <2>. QED
    BY <2>1, HeapIs
<1>2. PICK i \in 1..n : h[i][1] = y
  <2>1. y \in IntsOf(h)
    BY TimesIs
  <2>. QED
    BY <1>1, <2>1 DEF IntsOf, ToSet
<1>3. 1 \in 1..n /\ \A k \in 1..n : h[k] \in Item /\ h[k][1] \in Int
  BY <1>1 DEF Item
<1>4. AtMost(h[1], h[i])
  BY <1>1, RootLeast
<1>. QED
  BY <1>2, <1>3, <1>4, ItemOrder

(* The ints of a heap, each as often as in the heap, none before a smaller *)
(* one.                                                                    *)
HasAt(d, x) == {i \in DOMAIN d : d[i] = x}
Sorts(h, n, d) ==
  /\ d \in [1..n -> Int] /\ n = Len(h)
  /\ \A i, j \in 1..n : i < j => d[i] <= d[j]
  /\ \A x : Cardinality(HasAt(d, x)) = Times(h, x)

IsCons(n, d, x, s) == d[1] = x /\ \A i \in 1..n : d[i + 1] = s[i]

ConsCounts(d, x, s, y) ==
  Cardinality(HasAt(d, y)) = IF y = x THEN Cardinality(HasAt(s, y)) + 1 ELSE Cardinality(HasAt(s, y))

LEMMA ConsCount ==
  ASSUME NEW n \in Nat, NEW s \in [1..n -> Int], NEW x \in Int, NEW d \in [1..n + 1 -> Int],
         IsCons(n, d, x, s), NEW y
  PROVE  ConsCounts(d, x, s, y)
<1>0. d[1] = x /\ \A i \in 1..n : d[i + 1] = s[i]
  BY DEF IsCons
<1>1. PICK A : A = HasAt(s, y)
  OBVIOUS
<1>2. \A i : i \in A <=> i \in 1..n /\ s[i] = y
  BY <1>1 DEF HasAt
<1>3. IsFiniteSet(A) /\ Cardinality(A) \in Nat
  <2>1. A \in SUBSET (1..n) /\ IsFiniteSet(1..n)
    BY <1>2, FS_Interval
  <2>. QED
    BY <2>1, FS_Subset, FS_CardinalityType
<1> DEFINE B == {i \in 2..n + 1 : d[i] = y}
           f == [i \in A |-> i + 1]
<1>4. \A i \in A : i \in Int /\ i + 1 \in B
  BY <1>0, <1>2
<1>5. ASSUME NEW j \in B PROVE j - 1 \in A /\ (j - 1) + 1 = j
  <2>1. j - 1 \in 1..n /\ (j - 1) + 1 = j /\ d[j] = y
    OBVIOUS
  <2>2. d[(j - 1) + 1] = s[j - 1]
    BY <1>0, <2>1
  <2>. QED
    BY <1>2, <2>1, <2>2
<1>6. f \in Injection(A, B)
  BY <1>4 DEF Injection, IsInjective
<1>7. f \in Surjection(A, B)
  BY <1>4, <1>5 DEF Surjection
<1>8. IsFiniteSet(B) /\ Cardinality(B) = Cardinality(A)
  <2>. HIDE DEF B, f
  <2>. QED
    BY <1>3, <1>6, <1>7, FS_Surjection
<1>9. HasAt(d, y) = IF y = x THEN B \cup {1} ELSE B
  <2>1. \A i \in 1..n + 1 : i = 1 \/ i \in 2..n + 1
    OBVIOUS
  <2>2. \A i : i \in HasAt(d, y) <=> i \in 1..n + 1 /\ d[i] = y
    BY DEF HasAt
  <2>3. \A i \in 2..n + 1 : i \in 1..n + 1
    OBVIOUS
  <2>4. 1 \in 1..n + 1
    OBVIOUS
  <2>. QED
    BY <1>0, <2>1, <2>2, <2>3, <2>4
<1>10. 1 \notin B
  OBVIOUS
<1>. HIDE DEF B
<1>11. Cardinality(B \cup {1}) = Cardinality(A) + 1
  BY <1>3, <1>8, <1>10, FS_AddElement
<1>. QED
  BY <1>1, <1>8, <1>9, <1>11 DEF ConsCounts

LEMMA DrainSorts ==
  ASSUME NEW h \in Heaps, HeapOrdered(h, Len(h))
  PROVE  Sorts(h, Len(h), Drained[h])
<1> DEFINE P == {n \in Nat : \A g \in Heaps : Len(g) = n /\ HeapOrdered(g, n) => Sorts(g, n, Drained[g])}
<1>1. 0 \in P
  <2> SUFFICES ASSUME NEW g \in Heaps, Len(g) = 0 PROVE Sorts(g, 0, Drained[g])
    OBVIOUS
  <2>1. g = <<>>
    BY DEF Heaps
  <2>2. Drained[g] = <<>>
    BY <2>1, DrainedIs DEF DrainBody
  <2>3. ASSUME NEW x PROVE Cardinality(HasAt(<<>>, x)) = Times(g, x)
    <3>1. HasAt(<<>>, x) = {} /\ PlacesOf(g, x) = {}
      BY <2>1 DEF HasAt, PlacesOf
    <3>. QED
      BY <3>1 DEF Times
  <2>4. <<>> \in [1..0 -> Int] /\ 1..0 = {}
    OBVIOUS
  <2>. QED
    BY <2>2, <2>3, <2>4 DEF Sorts
<1>2. ASSUME NEW n \in Nat, n \in P PROVE n + 1 \in P
  <2> SUFFICES ASSUME NEW g \in Heaps, Len(g) = n + 1, HeapOrdered(g, n + 1)
               PROVE  Sorts(g, n + 1, Drained[g])
    OBVIOUS
  <2>1. g # <<>> /\ HeapOrdered(g, Len(g))
    OBVIOUS
  <2>2. PICK r : r = heap_pop(g)
    OBVIOUS
  <2>3. PICK x : x = g[1][1]
    OBVIOUS
  <2>4. r \in Heaps /\ HeapOrdered(r, Len(r)) /\ MoreOf(r, g, x)
    BY <2>1, <2>2, <2>3, HeapPops
  <2>5. Len(r) = n /\ x \in Int
    BY <2>1, <2>2, <2>3, PopShorter
  <2>6. PICK s \in Seq(Int) : s = Drained[r]
    BY <2>4, DrainedIs
  <2>7. Sorts(r, n, s)
    BY <1>2, <2>4, <2>5, <2>6
  <2>8. s \in [1..n -> Int] /\ Len(s) = n /\ (\A i, j \in 1..n : i < j => s[i] <= s[j])
        /\ \A y : Cardinality(HasAt(s, y)) = Times(r, y)
    BY <2>6, <2>7 DEF Sorts
  <2>9. PICK w \in Seq(Int) : w = <<x>> /\ Len(w) = 1 /\ w[1] = x
    <3>1. <<x>> \in Seq(Int) /\ Len(<<x>>) = 1 /\ <<x>>[1] = x
      BY <2>5, Single
    <3>. QED
      BY <3>1
  <2>10. Drained[g] = w \o s
    BY <2>1, <2>2, <2>3, <2>6, <2>9, DrainedIs DEF DrainBody
  <2>11. PICK d \in Seq(Int) : d = w \o s /\ Len(d) = n + 1 /\ d[1] = x /\ \A i \in 1..n : d[i + 1] = s[i]
    <3>1. w \o s \in Seq(Int) /\ Len(w \o s) = n + 1 /\ (w \o s)[1] = x
      BY <2>8, <2>9
    <3>2. \A i \in 1..n : (w \o s)[i + 1] = s[i]
      BY <2>8, <2>9
    <3>. QED
      BY <3>1, <3>2
  <2>12. d \in [1..n + 1 -> Int] /\ IsCons(n, d, x, s)
    <3>1. \A q \in Seq(Int) : q \in [1..Len(q) -> Int]
      OBVIOUS
    <3>2. d \in [1..Len(d) -> Int]
      BY <3>1
    <3>. QED
      BY <2>11, <3>2 DEF IsCons
  <2>13. ASSUME NEW y PROVE Cardinality(HasAt(d, y)) = Times(g, y)
    <3>1. ConsCounts(d, x, s, y)
      <4>1. n \in Nat /\ s \in [1..n -> Int] /\ x \in Int /\ d \in [1..n + 1 -> Int] /\ IsCons(n, d, x, s)
        BY <2>5, <2>8, <2>12
      <4>. QED
        BY <4>1, ConsCount, Zenon
    <3>. QED
      BY <2>4, <2>8, <3>1 DEF MoreOf, ConsCounts
  <2>14. ASSUME NEW i \in 1..n + 1 PROVE x <= d[i]
    <3>1. HasAt(d, d[i]) # {}
      BY <2>12 DEF HasAt
    <3>2. IsFiniteSet(HasAt(d, d[i]))
      <4>1. HasAt(d, d[i]) \in SUBSET (1..n + 1) /\ IsFiniteSet(1..n + 1)
        BY <2>12, FS_Interval DEF HasAt
      <4>. QED
        BY <4>1, FS_Subset
    <3>3. Times(g, d[i]) # 0
      BY <2>13, <3>1, <3>2, FS_EmptySet
    <3>. QED
      BY <2>1, <2>3, <3>3, RootBelow
  <2>15. ASSUME NEW i \in 1..n + 1, NEW j \in 1..n + 1, i < j PROVE d[i] <= d[j]
    <3>1. CASE i = 1
      BY <2>11, <2>14, <3>1
    <3>2. CASE i # 1
      <4>1. PICK k \in 1..n, l \in 1..n : i = k + 1 /\ j = l + 1 /\ k < l
        <5>1. i - 1 \in 1..n /\ j - 1 \in 1..n /\ i = (i - 1) + 1 /\ j = (j - 1) + 1 /\ i - 1 < j - 1
          BY <2>15, <3>2
        <5>. QED
          BY <5>1
      <4>. QED
        BY <2>8, <2>11, <4>1
    <3>. QED
      BY <3>1, <3>2
  <2>. QED
    BY <2>10, <2>11, <2>12, <2>13, <2>15 DEF Sorts
<1>. HIDE DEF P
<1>3. Len(h) \in P
  BY <1>1, <1>2, HeapIs, Induction
<1>. QED
  BY <1>3 DEF P

(* Numbering the copies of each int as they come lists the copies of the   *)
(* bag in order.                                                           *)
Upto(d, i) == {j \in 1..i : d[j] = d[i]}
Numbered(n, d) == [i \in 1..n |-> <<d[i], Cardinality(Upto(d, i))>>]

LEMMA UptoGrows ==
  ASSUME NEW n \in Nat, NEW d \in [1..n -> Int], NEW i \in 1..n
  PROVE  /\ Cardinality(Upto(d, i)) \in Nat /\ Cardinality(Upto(d, i)) >= 1
         /\ Cardinality(Upto(d, i)) <= Cardinality(HasAt(d, d[i]))
         /\ \A j \in 1..n : j < i /\ d[j] = d[i] => Cardinality(Upto(d, j)) < Cardinality(Upto(d, i))
<1>1. ASSUME NEW k \in 1..n PROVE IsFiniteSet(Upto(d, k)) /\ Cardinality(Upto(d, k)) \in Nat
  <2>1. Upto(d, k) \in SUBSET (1..k) /\ IsFiniteSet(1..k)
    BY FS_Interval DEF Upto
  <2>. QED
    BY <2>1, FS_Subset, FS_CardinalityType
<1>2. i \in Upto(d, i)
  BY DEF Upto
<1>3. Cardinality(Upto(d, i)) >= 1
  <2>1. Cardinality(Upto(d, i)) # 0
    BY <1>1, <1>2, FS_EmptySet
  <2>. QED
    BY <1>1, <2>1
<1>4. Cardinality(Upto(d, i)) <= Cardinality(HasAt(d, d[i]))
  <2>1. HasAt(d, d[i]) \in SUBSET (1..n) /\ IsFiniteSet(1..n)
    BY FS_Interval DEF HasAt
  <2>2. IsFiniteSet(HasAt(d, d[i]))
    BY <2>1, FS_Subset
  <2>3. Upto(d, i) \in SUBSET HasAt(d, d[i])
    BY DEF HasAt, Upto
  <2>. QED
    BY <2>2, <2>3, FS_Subset
<1>5. ASSUME NEW j \in 1..n, j < i, d[j] = d[i] PROVE Cardinality(Upto(d, j)) < Cardinality(Upto(d, i))
  <2>1. Upto(d, j) \in SUBSET Upto(d, i) /\ i \notin Upto(d, j)
    BY <1>5 DEF Upto
  <2>2. Cardinality(Upto(d, j)) <= Cardinality(Upto(d, i))
        /\ (Cardinality(Upto(d, i)) = Cardinality(Upto(d, j)) => Upto(d, i) = Upto(d, j))
    <3>. PICK A : A = Upto(d, j)
      OBVIOUS
    <3>. PICK B : B = Upto(d, i)
      OBVIOUS
    <3>1. A \in SUBSET B /\ IsFiniteSet(B)
      BY <1>1, <2>1
    <3>2. Cardinality(A) <= Cardinality(B) /\ (Cardinality(B) = Cardinality(A) => B = A)
      BY <3>1, FS_Subset
    <3>. QED
      BY <3>2
  <2>3. Cardinality(Upto(d, j)) \in Nat /\ Cardinality(Upto(d, i)) \in Nat
    BY <1>1
  <2>. QED
    BY <1>2, <2>1, <2>2, <2>3
<1>. QED
  BY <1>1, <1>3, <1>4, <1>5

LEMMA CopiesListed ==
  ASSUME NEW h \in Heaps, NEW n, NEW d, Sorts(h, n, d)
  PROVE  Lists(Numbered(n, d), Contract!Copies(BagOf(h)), ByTuple)
<1>1. /\ n \in Nat /\ d \in [1..n -> Int] /\ n = Len(h)
      /\ \A i, j \in 1..n : i < j => d[i] <= d[j]
      /\ \A x : Cardinality(HasAt(d, x)) = Times(h, x)
  BY HeapIs DEF Sorts
<1>2. PICK C : C = Contract!Copies(BagOf(h))
  OBVIOUS
<1>3. IsFiniteSet(C) /\ Cardinality(C) = n
  BY <1>1, <1>2, CopiesCount DEF AllCopies
<1>4. PICK c : c = Numbered(n, d)
  OBVIOUS
<1>5. ASSUME NEW i \in 1..n
      PROVE  /\ c[i] = <<d[i], Cardinality(Upto(d, i))>> /\ Cardinality(Upto(d, i)) \in Nat
             /\ c[i] \in C /\ c[i] \in Item
  <2>1. PICK x \in Int, k \in Nat : x = d[i] /\ k = Cardinality(Upto(d, i))
    BY <1>1, UptoGrows
  <2>2. k >= 1 /\ k <= Times(h, x)
    BY <1>1, <2>1, UptoGrows
  <2>3. c[i] = <<x, k>>
    BY <1>4, <2>1 DEF Numbered
  <2>4. <<x, k>> \in C /\ <<x, k>> \in Item
    BY <1>2, <2>2, CopiesIs DEF Item
  <2>. QED
    BY <2>1, <2>3, <2>4
<1>6. c \in [1..n -> C]
  <2>1. c = [i \in 1..n |-> c[i]]
    BY <1>4 DEF Numbered
  <2>. QED
    BY <1>5, <2>1
<1>7. ASSUME NEW i \in 1..n, NEW j \in 1..n, i < j PROVE TupleLess(c[i], c[j])
  <2>1. PICK x \in Int, k \in Nat : x = d[i] /\ k = Cardinality(Upto(d, i)) /\ c[i] = <<x, k>>
    BY <1>1, <1>5
  <2>2. PICK y \in Int, l \in Nat : y = d[j] /\ l = Cardinality(Upto(d, j)) /\ c[j] = <<y, l>>
    BY <1>1, <1>5
  <2>3. x <= y /\ (x = y => k < l)
    BY <1>1, <1>7, <2>1, <2>2, UptoGrows
  <2>. QED
    BY <2>1, <2>2, <2>3 DEF TupleLess
<1>8. c \in Seq(C) /\ Len(c) = n /\ DOMAIN c = 1..n
  BY <1>1, <1>6, AsSeq
<1>9. Ascends(c, ByTuple)
  BY <1>5, <1>7, <1>8 DEF Ascends, ByTuple
<1>10. Injected(c)
  <2>1. ASSUME NEW i \in 1..n, NEW j \in 1..n, i < j PROVE c[i] # c[j]
    BY <1>5, <1>7, <2>1, ItemOrder DEF AtMost
  <2>2. \A i, j \in 1..n : i < j \/ i = j \/ j < i
    BY <1>1
  <2>. QED
    BY <1>8, <2>1, <2>2 DEF Injected
<1>11. Cardinality(ToSet(c)) = n
  BY <1>8, <1>10, InjectedCount
<1>12. ToSet(c) \in SUBSET C
  BY <1>6, <1>8 DEF ToSet
<1>13. ToSet(c) = C
  BY <1>3, <1>11, <1>12, FS_Subset
<1>. QED
  BY <1>2, <1>4, <1>8, <1>9, <1>13 DEF Lists

(* Draining the heap gives the bag in ascending order.                     *)
LEMMA DrainedAscends ==
  ASSUME NEW h \in Heaps, HeapOrdered(h, Len(h))
  PROVE  Drained[h] = Contract!Ascending(BagOf(h))
<1>1. PICK n \in Nat, d \in Seq(Int) : n = Len(h) /\ d = Drained[h]
  BY HeapIs, DrainedIs
<1>2. Sorts(h, n, d)
  BY <1>1, DrainSorts
<1>3. d \in [1..n -> Int]
  BY <1>2 DEF Sorts
<1>4. PICK C : C = Contract!Copies(BagOf(h))
  OBVIOUS
<1>5. IsFiniteSet(C) /\ C \in SUBSET Item
  <2>1. IsFiniteSet(C)
    BY <1>4, CopiesCount DEF AllCopies
  <2>2. \A c \in C : c \in Item
    BY <1>4, CopiesIs DEF Item
  <2>. QED
    BY <2>1, <2>2
<1>6. PICK c : c = Contract!InOrder(C, Contract!TupleLess)
  OBVIOUS
<1>7. StrictOrder(C, ByTuple) /\ Lists(c, C, ByTuple)
  BY <1>5, <1>6, ItemsInOrder
<1>8. c = Numbered(n, d)
  BY <1>2, <1>4, <1>7, CopiesListed, ListsOnce
<1>9. Contract!Ascending(BagOf(h)) = [i \in DOMAIN c |-> c[i][1]]
  BY <1>4, <1>6 DEF Contract!Ascending
<1>10. DOMAIN c = 1..n /\ \A i \in 1..n : c[i][1] = d[i]
  BY <1>8 DEF Numbered
<1>. QED
  BY <1>1, <1>3, <1>9, <1>10

-----------------------------------------------------------------------------
(* sk: what a collection of each kind scans to.                            *)
LEMMA AnswersSame ==
  \A fault, value, value2 : (fault = Fine => value = value2) => Reply(fault, value) = Reply(fault, value2)
BY DEF Reply

LEMMA ScanTree ==
  ASSUME kind = "te", Tree
  PROVE  tree_walk[body] = Contract!SortedPairs(Held)
<1>1. PICK h \in 0..Top : Grown(h, body)
  BY DEF Tree
<1>2. body \in Good[h]
  BY <1>1 DEF Grown
<1>3. PICK S : S = Content[body]
  OBVIOUS
<1>4. IsFiniteSet(S) /\ S \in SUBSET Pair /\ \A p, q \in S : p[1] = q[1] => p = q
  <2>1. IsFiniteSet(S)
    BY <1>2, <1>3, TreeCount DEF Counted
  <2>2. \A p \in S : p \in Pair
    BY <1>2, <1>3, HeldArePairs
  <2>3. \A p, q \in S : p[1] = q[1] => p = q
    BY <1>2, <1>3, OneForKey
  <2>. QED
    BY <2>1, <2>2, <2>3
<1>5. PICK s \in Seq(Pair) : s = tree_walk[body] /\ ToSet(s) = S /\ Ascends(s, ByKey)
  BY <1>2, <1>3, WalkedTree, WalkIs, GoodTrees DEF Walked
<1>6. Held = S
  BY <1>5, HeldIs DEF Shows
<1>7. s \in Seq(S)
  <2>1. PICK n \in Nat : n = Len(s)
    BY <1>5
  <2>2. s = [i \in 1..n |-> s[i]] /\ DOMAIN s = 1..n
    BY <1>5, <2>1
  <2>3. \A i \in 1..n : s[i] \in S
    BY <1>5, <2>2 DEF ToSet
  <2>. QED
    BY <2>2, <2>3, AsSeq
<1>8. Lists(s, S, ByKey)
  BY <1>5, <1>7 DEF Lists
<1>9. StrictOrder(S, ByKey) /\ Lists(Contract!SortedPairs(S), S, ByKey)
  BY <1>4, PairsInOrder
<1>10. s = Contract!SortedPairs(S)
  BY <1>8, <1>9, ListsOnce
<1>. QED
  BY <1>5, <1>6, <1>10

LEMMA PrefixIs ==
  ASSUME NEW p \in Word, NEW w \in Word
  PROVE  Contract!IsPrefix(p, w) <=> Starts(p, w)
<1>1. PICK m \in Nat, n \in Nat : m = Len(p) /\ n = Len(w)
  BY DEF Word
<1>2. CASE m <= n
  <2>1. m \in 0..m /\ m \in 0..n /\ p \in Seq(Int) /\ w \in Seq(Int)
    BY <1>2 DEF Word
  <2>2. PICK a \in Seq(Int) : a = SubSeq(p, 1, m) /\ IsCut(a, p, m)
    BY <1>1, <2>1, Cut
  <2>3. PICK b \in Seq(Int) : b = SubSeq(w, 1, m) /\ IsCut(b, w, m)
    BY <1>1, <2>1, Cut
  <2>4. Contract!IsPrefix(p, w) <=> a = b
    BY <1>1, <1>2, <2>2, <2>3 DEF Contract!IsPrefix
  <2>5. Len(a) = m /\ Len(b) = m /\ \A i \in 1..m : a[i] = p[i] /\ b[i] = w[i]
    BY <2>2, <2>3 DEF IsCut
  <2>6. a = b <=> \A i \in 1..m : a[i] = b[i]
    BY <2>5, SeqEqual
  <2>. QED
    BY <1>1, <1>2, <2>4, <2>5, <2>6 DEF Starts
<1>3. CASE ~(m <= n)
  BY <1>1, <1>3 DEF Contract!IsPrefix, Starts
<1>. QED
  BY <1>2, <1>3

(* px: the words of a trie that start with a prefix.                       *)
LEMMA WalkPrefix ==
  ASSUME NEW t, TrieGood(t), NEW p \in Word, NEW found, found = {w \in Flagged(t) : Contract!IsPrefix(p, w)}
  PROVE  (IF p \in DOMAIN t THEN trie_walk(t, p) ELSE <<>>) = Contract!Sorted(found)
<1>1. DOMAIN t \subseteq Word /\ IsFiniteSet(DOMAIN t)
      /\ \A q \in DOMAIN t : \A m \in 0..Len(q) : SubSeq(q, 1, m) \in DOMAIN t
  BY DEF TrieGood
<1>2. found = Under(t, p)
  BY <1>1, PrefixIs DEF Flagged, Under
<1>3. found \in SUBSET Word /\ IsFiniteSet(found)
  <2>1. found \in SUBSET DOMAIN t
    BY DEF Flagged
  <2>. QED
    BY <1>1, <2>1, FS_Subset
<1>4. StrictOrder(found, ByLex) /\ Lists(Contract!Sorted(found), found, ByLex)
  BY <1>3, WordsInOrder
<1>5. CASE p \in DOMAIN t
  <2>1. Lists(trie_walk(t, p), found, ByLex)
    BY <1>2, <1>5, TrieLists
  <2>. QED
    BY <1>4, <1>5, <2>1, ListsOnce
<1>6. CASE p \notin DOMAIN t
  <2>1. ASSUME NEW q \in DOMAIN t, Starts(p, q) PROVE FALSE
    <3>1. q \in Seq(Int) /\ p \in Seq(Int)
      BY <1>1 DEF Word
    <3>2. PICK m \in Nat, n \in Nat : m = Len(p) /\ n = Len(q)
      BY <3>1
    <3>3. m \in 0..n /\ \A i \in 1..m : q[i] = p[i]
      BY <2>1, <3>2 DEF Starts
    <3>4. PICK u \in Seq(Int) : u = SubSeq(q, 1, m) /\ IsCut(u, q, m)
      BY <3>1, <3>2, <3>3, Cut
    <3>5. Len(u) = m /\ \A i \in 1..m : u[i] = p[i]
      BY <3>3, <3>4 DEF IsCut
    <3>6. u = p
      BY <3>1, <3>2, <3>5, SeqEqual
    <3>. QED
      BY <1>1, <1>6, <3>2, <3>3, <3>4, <3>6
  <2>2. found = {}
    BY <1>2, <2>1 DEF Under
  <2>3. Contract!Sorted(found) \in Seq({})
    BY <1>4, <2>2 DEF Lists
  <2>4. \A s \in Seq({}) : s = <<>>
    <3> SUFFICES ASSUME NEW s \in Seq({}) PROVE s = <<>>
      OBVIOUS
    <3>1. PICK n \in Nat : n = Len(s)
      OBVIOUS
    <3>2. n # 0 => s[1] \in {}
      BY <3>1
    <3>. QED
      BY <3>1, <3>2
  <2>. QED
    BY <1>6, <2>3, <2>4
<1>. QED
  BY <1>5, <1>6

LEMMA SortedSame ==
  \A S : SortedSet(S) = Contract!SortedElems(S)
BY DEF SortedSet, Contract!SortedElems, Contract!Sorted, InOrder, Contract!InOrder, LexLess, Contract!LexLess,
       IsStr, Contract!IsStr, IsInt, Contract!IsInt, Str, Contract!Str, Cardinality, Contract!Cardinality

LEMMA ScanAgrees ==
  ASSUME kind \in Kinds, Tree, Kept
  PROVE  b_sk = Contract!Scan
<1> DEFINE checks == coll_live(freed) ?? Unless(TYPE_MISMATCH, kind # "bm")
<1>1. CASE kind \in RowKinds
  <2>1. Held = body
    BY <1>1, HeldIs DEF Shows, RowKinds
  <2>2. b_sk = Reply(checks, body) /\ Contract!Scan = Reply(checks, Held)
    BY <1>1, SameWords DEF b_sk, Contract!Scan, RowKinds
  <2>. QED
    BY <2>1, <2>2
<1>2. CASE kind = "sc"
  <2>1. Held = body
    BY <1>2, HeldIs DEF Shows
  <2>2. b_sk = Reply(checks, SortedSet(body)) /\ Contract!Scan = Reply(checks, Contract!SortedElems(Held))
    BY <1>2, SameWords DEF b_sk, Contract!Scan
  <2>. QED
    BY <2>1, <2>2, SortedSame
<1>3. CASE kind = "mp"
  <2>1. Held = PairsOf(body)
    BY <1>3, HeldIs DEF Shows
  <2>2. b_sk = Reply(checks, PairsOf(body)) /\ Contract!Scan = Reply(checks, Held)
    BY <1>3, SameWords DEF b_sk, Contract!Scan, PairsOf
  <2>. QED
    BY <2>1, <2>2
<1>4. CASE kind = "te"
  <2>1. b_sk = Reply(checks, tree_walk[body]) /\ Contract!Scan = Reply(checks, Contract!SortedPairs(Held))
    BY <1>4, SameWords DEF b_sk, Contract!Scan
  <2>. QED
    BY <1>4, <2>1, ScanTree
<1>5. CASE kind = "ti"
  <2>1. PICK t : t = body.trie /\ TrieGood(t)
    BY <1>5 DEF Kept, Tries
  <2>2. b_sk = Reply(checks, trie_walk(t, <<>>)) /\ Contract!Scan = Reply(checks, Contract!Sorted(Held))
    BY <1>5, <2>1, SameWords DEF b_sk, Contract!Scan
  <2>3. Held = Flagged(t)
    BY <1>5, <2>1, HeldIs, WordsIs DEF Shows
  <2>4. <<>> \in DOMAIN t /\ <<>> \in Word
    BY <2>1 DEF TrieGood
  <2>5. \A w \in Flagged(t) : w \in Word /\ Contract!IsPrefix(<<>>, w)
    <3> SUFFICES ASSUME NEW w \in Flagged(t) PROVE w \in Word /\ Contract!IsPrefix(<<>>, w)
      OBVIOUS
    <3>1. w \in Word
      BY <2>1 DEF Flagged, TrieGood
    <3>2. Len(<<>>) = 0 /\ 0 <= Len(w) /\ \A i \in 1..0 : FALSE
      BY <3>1 DEF Word
    <3>. QED
      BY <2>4, <3>1, <3>2, PrefixIs DEF Starts
  <2>6. Flagged(t) = {w \in Flagged(t) : Contract!IsPrefix(<<>>, w)}
    BY <2>5
  <2>7. trie_walk(t, <<>>) = Contract!Sorted(Flagged(t))
    BY <2>1, <2>4, <2>6, WalkPrefix
  <2>. QED
    BY <2>2, <2>3, <2>7
<1>6. CASE kind = "pq"
  <2>1. PICK h : h = body.heap /\ h \in Heaps /\ HeapOrdered(h, Len(h))
    BY <1>6 DEF Kept, HeapKept
  <2>2. b_sk = Reply(checks, Drained[h]) /\ Contract!Scan = Reply(checks, Contract!Ascending(Held))
    BY <1>6, <2>1, SameWords DEF b_sk, Contract!Scan
  <2>3. Held = BagOf(h)
    BY <1>6, <2>1, HeldIs DEF Shows
  <2>. QED
    BY <2>1, <2>2, <2>3, DrainedAscends
<1>7. CASE kind = "bv"
  <2>1. size \in Nat
    BY <1>7 DEF Kept, Bits
  <2>2. Held = [i \in 0 .. size - 1 |-> Bit(body, i)]
    BY <1>7, HeldIs DEF Shows, VectorOf
  <2>3. \A i \in 1..size : Held[i - 1] = Bit(body, i - 1)
    BY <2>1, <2>2
  <2>4. [i \in 1..size |-> Held[i - 1]] = [i \in 1..size |-> Bit(body, i - 1)]
    BY <2>3
  <2>5. /\ b_sk = Reply(checks, [i \in 1..size |-> Bit(body, i - 1)])
        /\ Contract!Scan = Reply(checks, [i \in 1..size |-> Held[i - 1]])
    BY <1>7, SameWords DEF b_sk, Contract!Scan
  <2>. QED
    BY <2>4, <2>5
<1>8. CASE kind = "bm"
  <2>1. PICK v, v2 : b_sk = Reply(checks, v) /\ Contract!Scan = Reply(checks, v2)
    BY SameWords DEF b_sk, Contract!Scan
  <2>2. checks # Fine
    <3>1. Unless(TYPE_MISMATCH, kind # "bm") # Fine
      BY <1>8 DEF Unless, TYPE_MISMATCH, Fine
    <3>. QED
      BY <3>1, BothPass
  <2>. QED
    BY <2>1, <2>2, AnswersSame
<1>. QED
  BY <1>1, <1>2, <1>3, <1>4, <1>5, <1>6, <1>7, <1>8 DEF Kinds, RowKinds

-----------------------------------------------------------------------------
(* gt: the element at an index, the bit, or what a key was last given.     *)
LEMMA GetWords ==
  ASSUME NEW k
  PROVE  LET live == coll_live(freed) IN
         /\ kind = "ls" =>
              /\ b_gt(k) = Reply(live ?? Index(k, Len(body)), body[k[2] + 1])
              /\ Contract!Get(k) = Reply(live ?? Index(k, Contract!Count), Held[k[2] + 1])
         /\ kind = "bv" =>
              /\ b_gt(k) = Reply(live ?? Index(k, size), Int_(Bit(body, k[2])))
              /\ Contract!Get(k) = Reply(live ?? Index(k, Contract!Count), Int_(Held[k[2]]))
         /\ kind = "mp" =>
              /\ b_gt(k) = Reply(live ?? (key_str(k) ?? Unless(BOUNDS, k[2] \in DOMAIN body.pairs)),
                                 body.pairs[k[2]])
              /\ Contract!Get(k) =
                   Reply(live ?? (key_str(k) ?? Unless(BOUNDS, k[2] \in Contract!Keys(ToSet(Held)))),
                         Contract!ValueOf(ToSet(Held), k[2]))
         /\ kind = "te" =>
              /\ b_gt(k) = Reply(live ?? (key_str(k) ?? Unless(BOUNDS, tree_get(body, k[2]) # Absent)),
                                 tree_get(body, k[2]))
              /\ Contract!Get(k) =
                   Reply(live ?? (key_str(k) ?? Unless(BOUNDS, k[2] \in Contract!Keys(Held))),
                         Contract!ValueOf(Held, k[2]))
         /\ kind \notin {"ls", "bv", "mp", "te"} =>
              \E v, w : /\ b_gt(k) = Reply(live ?? TYPE_MISMATCH, v)
                        /\ Contract!Get(k) = Reply(live ?? TYPE_MISMATCH, w)
<1> DEFINE live == coll_live(freed)
           pairs == Contract!Pairs
<1>1. /\ kind = "mp" => pairs = ToSet(Held)
      /\ kind # "mp" => pairs = Held
  BY DEF Contract!Pairs, Contract!ToSet, ToSet
<1> DEFINE a == Index(k, Len(body))
           b == Index(k, size)
           c == Index(k, Contract!Count)
           d == key_str(k) ?? Unless(BOUNDS, k[2] \in DOMAIN body.pairs)
           e == key_str(k) ?? Unless(BOUNDS, tree_get(body, k[2]) # Absent)
           f == key_str(k) ?? Unless(BOUNDS, k[2] \in Contract!Keys(pairs))
           asked == CASE kind = "ls" -> a [] kind = "bv" -> b [] kind = "mp" -> d
                      [] kind = "te" -> e [] OTHER -> TYPE_MISMATCH
           wanted == CASE kind \in {"ls", "bv"} -> c [] kind \in {"mp", "te"} -> f
                       [] OTHER -> TYPE_MISMATCH
           s == body[k[2] + 1]
           t == Int_(Bit(body, k[2]))
           u == body.pairs[k[2]]
           v == tree_get(body, k[2])
           x == Held[k[2] + 1]
           y == Int_(Held[k[2]])
           z == Contract!ValueOf(pairs, k[2])
           found == CASE kind = "ls" -> s [] kind = "bv" -> t [] kind = "mp" -> u [] kind = "te" -> v
           held == CASE kind = "ls" -> x [] kind = "bv" -> y [] OTHER -> z
<1>2. b_gt(k) = Reply(live ?? asked, found)
  BY DEF b_gt
<1>3. Contract!Get(k) = Reply(live ?? wanted, held)
  BY SameWords DEF Contract!Get
<1>. HIDE DEF live, a, b, c, d, e, f, s, t, u, v, x, y, z
<1>4. /\ kind = "ls" => asked = a /\ wanted = c /\ found = s /\ held = x
      /\ kind = "bv" => asked = b /\ wanted = c /\ found = t /\ held = y
      /\ kind = "mp" => asked = d /\ wanted = f /\ found = u /\ held = z
      /\ kind = "te" => asked = e /\ wanted = f /\ found = v /\ held = z
      /\ kind \notin {"ls", "bv", "mp", "te"} => asked = TYPE_MISMATCH /\ wanted = TYPE_MISMATCH
  OBVIOUS
<1>. HIDE DEF asked, wanted, found, held
<1>5. kind = "ls" => b_gt(k) = Reply(live ?? a, s) /\ Contract!Get(k) = Reply(live ?? c, x)
  BY <1>2, <1>3, <1>4
<1>6. kind = "bv" => b_gt(k) = Reply(live ?? b, t) /\ Contract!Get(k) = Reply(live ?? c, y)
  BY <1>2, <1>3, <1>4
<1>7. kind = "mp" => b_gt(k) = Reply(live ?? d, u) /\ Contract!Get(k) = Reply(live ?? f, z)
  BY <1>2, <1>3, <1>4
<1>8. kind = "te" => b_gt(k) = Reply(live ?? e, v) /\ Contract!Get(k) = Reply(live ?? f, z)
  BY <1>2, <1>3, <1>4
<1>9. kind \notin {"ls", "bv", "mp", "te"} =>
        /\ b_gt(k) = Reply(live ?? TYPE_MISMATCH, found)
        /\ Contract!Get(k) = Reply(live ?? TYPE_MISMATCH, held)
  BY <1>2, <1>3, <1>4
<1>10. kind = "mp" => /\ f = (key_str(k) ?? Unless(BOUNDS, k[2] \in Contract!Keys(ToSet(Held))))
                      /\ z = Contract!ValueOf(ToSet(Held), k[2])
  BY <1>1 DEF f, z
<1>11. kind = "te" => /\ f = (key_str(k) ?? Unless(BOUNDS, k[2] \in Contract!Keys(Held)))
                      /\ z = Contract!ValueOf(Held, k[2])
  BY <1>1 DEF f, z
<1>12. /\ live = coll_live(freed) /\ a = Index(k, Len(body)) /\ b = Index(k, size)
       /\ c = Index(k, Contract!Count)
       /\ d = (key_str(k) ?? Unless(BOUNDS, k[2] \in DOMAIN body.pairs))
       /\ e = (key_str(k) ?? Unless(BOUNDS, tree_get(body, k[2]) # Absent))
       /\ s = body[k[2] + 1] /\ t = Int_(Bit(body, k[2])) /\ u = body.pairs[k[2]]
       /\ v = tree_get(body, k[2]) /\ x = Held[k[2] + 1] /\ y = Int_(Held[k[2]])
  BY DEF live, a, b, c, d, e, s, t, u, v, x, y
<1>. QED
  BY <1>5, <1>6, <1>7, <1>8, <1>9, <1>10, <1>11, <1>12

(* What passes a lookup is a word under which something is held.           *)
LEMMA KeyPasses ==
  ASSUME NEW k \in Operand, NEW live, NEW there \in BOOLEAN,
         (live ?? (key_str(k) ?? Unless(BOUNDS, there))) = Fine
  PROVE  k[2] \in Word /\ there
<1>1. key_str(k) = Fine /\ Unless(BOUNDS, there) = Fine
  BY BothPass
<1>2. k[2] \in Word
  BY <1>1, ChecksPass, OperandIs DEF IsWord, Word
<1>. QED
  BY <1>1, <1>2, Passes

LEMMA GetMap ==
  ASSUME NEW b, MapGood(b), NEW k, k \in DOMAIN b.pairs
  PROVE  Contract!ValueOf(ToSet(PairsOf(b)), k) = b.pairs[k]
<1>1. PICK n \in Nat : n = Len(b.order)
  BY DEF MapGood
<1>2. DOMAIN b.order = 1..n /\ DOMAIN b.pairs = ToSet(b.order)
  BY <1>1 DEF MapGood
<1>3. PairsOf(b) = [i \in 1..n |-> <<b.order[i], b.pairs[b.order[i]]>>]
  BY <1>2 DEF PairsOf
<1>4. PICK i \in 1..n : b.order[i] = k
  BY <1>2 DEF ToSet
<1> DEFINE S == ToSet(PairsOf(b))
<1>5. \A p \in S : p = <<p[1], b.pairs[p[1]]>>
  BY <1>3 DEF ToSet
<1>6. <<k, b.pairs[k]>> \in S
  BY <1>3, <1>4 DEF ToSet
<1>. HIDE DEF S
<1>7. PICK p \in S : p[1] = k /\ p = CHOOSE q \in S : q[1] = k
  BY <1>6
<1>8. p[2] = b.pairs[k]
  BY <1>5, <1>7
<1>. QED
  BY <1>7, <1>8 DEF Contract!ValueOf, S

LEMMA GetTree ==
  ASSUME NEW h \in 0..Top, NEW n \in Good[h], NEW k \in Word, tree_get(n, k) # Absent
  PROVE  Contract!ValueOf(Content[n], k) = tree_get(n, k)
<1>1. PICK v : v = tree_get(n, k) /\ Finds(n, k, v)
  BY TreeGet
<1>2. <<k, v>> \in Content[n]
  BY <1>1 DEF Finds
<1>3. PICK S : S = Content[n]
  OBVIOUS
<1>4. PICK p \in S : p[1] = k /\ p = CHOOSE q \in S : q[1] = k
  BY <1>2, <1>3
<1>5. p = <<k, v>>
  <2>1. <<k, v>>[1] = k
    OBVIOUS
  <2>. QED
    BY <1>2, <1>3, <1>4, <2>1, OneForKey
<1>6. Contract!ValueOf(S, k) = p[2]
  BY <1>4 DEF Contract!ValueOf
<1>7. p[2] = v
  BY <1>5
<1>. QED
  BY <1>1, <1>3, <1>6, <1>7

LEMMA GetAgrees ==
  ASSUME kind \in Kinds, Tree, Kept, NEW k \in Operand
  PROVE  b_gt(k) = Contract!Get(k)
<1> DEFINE live == coll_live(freed)
<1>1. CASE kind = "ls"
  <2>1. Held = body /\ Contract!Count = Len(Held)
    BY <1>1, HeldIs, ContractCount DEF Shows
  <2>2. /\ b_gt(k) = Reply(live ?? Index(k, Len(body)), body[k[2] + 1])
        /\ Contract!Get(k) = Reply(live ?? Index(k, Contract!Count), Held[k[2] + 1])
    BY <1>1, GetWords
  <2>. QED
    BY <2>1, <2>2
<1>2. CASE kind = "bv"
  <2>1. Held = VectorOf(body, size) /\ Contract!Count = size
    BY <1>2, HeldIs, ContractCount DEF Shows
  <2> DEFINE fault == live ?? Index(k, size)
             value == Int_(Bit(body, k[2]))
             value2 == Int_(Held[k[2]])
  <2>2. b_gt(k) = Reply(fault, value) /\ Contract!Get(k) = Reply(fault, value2)
    BY <1>2, <2>1, GetWords
  <2>3. fault = Fine => value = value2
    <3>. HIDE DEF live
    <3> SUFFICES ASSUME fault = Fine PROVE value = value2
      OBVIOUS
    <3>1. Index(k, size) = Fine
      BY BothPass
    <3>2. k[2] \in 0..size - 1
      BY <3>1, ChecksPass
    <3>3. Held[k[2]] = Bit(body, k[2])
      BY <2>1, <3>2 DEF VectorOf
    <3>. QED
      BY <3>3
  <2>. HIDE DEF fault, value, value2
  <2>. QED
    BY <2>2, <2>3, AnswersSame
<1>3. CASE kind = "mp"
  <2>1. MapGood(body) /\ Held = PairsOf(body)
    BY <1>3, HeldIs DEF Kept, Maps, Shows
  <2>2. Contract!Keys(ToSet(Held)) = DOMAIN body.pairs
    BY <2>1, MapShows
  <2> DEFINE there == k[2] \in DOMAIN body.pairs
             fault == live ?? (key_str(k) ?? Unless(BOUNDS, there))
             value == body.pairs[k[2]]
             value2 == Contract!ValueOf(ToSet(Held), k[2])
  <2>3. b_gt(k) = Reply(fault, value) /\ Contract!Get(k) = Reply(fault, value2)
    BY <1>3, <2>2, GetWords
  <2>4. fault = Fine => there
    <3>. HIDE DEF live
    <3>1. there \in BOOLEAN
      OBVIOUS
    <3>. HIDE DEF there
    <3>. QED
      BY <3>1, KeyPasses
  <2>5. there => value = value2
    BY <2>1, GetMap
  <2>. HIDE DEF fault, value, value2
  <2>. QED
    BY <2>3, <2>4, <2>5, AnswersSame
<1>4. CASE kind = "te"
  <2>1. PICK h \in 0..Top : body \in Good[h]
    BY <1>4 DEF Tree, Grown
  <2>2. Held = Content[body]
    <3>1. Held = ToSet(tree_walk[body])
      BY <1>4, HeldIs DEF Shows
    <3>. QED
      BY <2>1, <3>1, WalkedTree DEF Walked
  <2> DEFINE there == tree_get(body, k[2]) # Absent
             has == k[2] \in Contract!Keys(Held)
             fault == live ?? (key_str(k) ?? Unless(BOUNDS, there))
             asked == live ?? (key_str(k) ?? Unless(BOUNDS, has))
             value == tree_get(body, k[2])
             value2 == Contract!ValueOf(Held, k[2])
  <2>3. b_gt(k) = Reply(fault, value) /\ Contract!Get(k) = Reply(asked, value2)
    BY <1>4, GetWords
  <2>4. k[2] \in Word => (there <=> has)
    BY <2>1, <2>2, KeyThere DEF Contract!Keys
  <2>5. key_str(k) = Fine => k[2] \in Word
    BY ChecksPass, OperandIs DEF IsWord, Word
  <2>6. k[2] \in Word /\ there => value = value2
    BY <2>1, <2>2, GetTree
  <2>7. there \in BOOLEAN /\ has \in BOOLEAN
    OBVIOUS
  <2>. HIDE DEF there, has, value, value2, live
  <2>8. asked = fault
    <3>1. CASE key_str(k) = Fine
      <4>1. there = has
        BY <2>4, <2>5, <2>7, <3>1
      <4>. QED
        BY <4>1
    <3>2. CASE key_str(k) # Fine
      <4>1. \A g : (key_str(k) ?? g) = key_str(k)
        BY <3>2 DEF ??
      <4>. QED
        BY <4>1
    <3>. QED
      BY <3>1, <3>2
  <2>9. fault = Fine => k[2] \in Word /\ there
    BY <2>7, KeyPasses
  <2>. HIDE DEF fault, asked
  <2>. QED
    BY <2>3, <2>6, <2>8, <2>9, AnswersSame
<1>5. CASE kind \notin {"ls", "bv", "mp", "te"}
  <2>1. PICK v, w : /\ b_gt(k) = Reply(live ?? TYPE_MISMATCH, v)
                    /\ Contract!Get(k) = Reply(live ?? TYPE_MISMATCH, w)
    BY <1>5, GetWords
  <2>2. (live ?? TYPE_MISMATCH) # Fine
    BY NotOfKind
  <2>. QED
    BY <2>1, <2>2, AnswersSame
<1>. QED
  BY <1>1, <1>2, <1>3, <1>4, <1>5

-----------------------------------------------------------------------------
(* hs: whether a set, a trie or a filter has an operand.                   *)
LEMMA HasWords ==
  ASSUME NEW v
  PROVE  LET live == coll_live(freed)
             yes(found) == Int_(IF found THEN 1 ELSE 0) IN
         /\ kind = "sc" =>
              /\ b_hs(v) = Reply(live ?? elem(v), yes(v \in body))
              /\ Contract!Has(v) = Reply(live ?? elem(v), yes(v \in Held))
         /\ kind = "ti" =>
              /\ b_hs(v) = Reply(live ?? key_str(v), yes(trie_has(body.trie, v[2])))
              /\ Contract!Has(v) = Reply(live ?? key_str(v), yes(v[2] \in Held))
         /\ kind = "bm" =>
              /\ b_hs(v) = Reply(live ?? key_str(v), yes(Bit(body, Hash(v[2]) % size) = 1))
              /\ Contract!Has(v) = Reply(live ?? key_str(v), yes(Hash(v[2]) % size \in Held))
         /\ kind \notin {"sc", "ti", "bm"} =>
              \E a, b : /\ b_hs(v) = Reply(live ?? TYPE_MISMATCH, a)
                        /\ Contract!Has(v) = Reply(live ?? TYPE_MISMATCH, b)
<1> DEFINE live == coll_live(freed)
           e == elem(v)
           k == key_str(v)
           asked == CASE kind = "sc" -> e [] kind \in {"ti", "bm"} -> k [] OTHER -> TYPE_MISMATCH
           r == v \in body
           s == trie_has(body.trie, v[2])
           t == Bit(body, Hash(v[2]) % size) = 1
           x == v \in Held
           y == v[2] \in Held
           z == Hash(v[2]) % size \in Held
           found == CASE kind = "sc" -> r [] kind = "ti" -> s [] kind = "bm" -> t
           in == CASE kind = "sc" -> x [] kind = "ti" -> y [] OTHER -> z
<1>1. b_hs(v) = Reply(live ?? asked, Int_(IF found THEN 1 ELSE 0))
  BY DEF b_hs
<1>2. Contract!Has(v) = Reply(live ?? asked, Int_(IF in THEN 1 ELSE 0))
  BY SameWords DEF Contract!Has
<1>. HIDE DEF live, e, k, r, s, t, x, y, z
<1>3. /\ kind = "sc" => asked = e /\ found = r /\ in = x
      /\ kind = "ti" => asked = k /\ found = s /\ in = y
      /\ kind = "bm" => asked = k /\ found = t /\ in = z
      /\ kind \notin {"sc", "ti", "bm"} => asked = TYPE_MISMATCH
  OBVIOUS
<1>. HIDE DEF asked, found, in
<1>4. kind = "sc" => /\ b_hs(v) = Reply(live ?? e, Int_(IF r THEN 1 ELSE 0))
                     /\ Contract!Has(v) = Reply(live ?? e, Int_(IF x THEN 1 ELSE 0))
  BY <1>1, <1>2, <1>3
<1>5. kind = "ti" => /\ b_hs(v) = Reply(live ?? k, Int_(IF s THEN 1 ELSE 0))
                     /\ Contract!Has(v) = Reply(live ?? k, Int_(IF y THEN 1 ELSE 0))
  BY <1>1, <1>2, <1>3
<1>6. kind = "bm" => /\ b_hs(v) = Reply(live ?? k, Int_(IF t THEN 1 ELSE 0))
                     /\ Contract!Has(v) = Reply(live ?? k, Int_(IF z THEN 1 ELSE 0))
  BY <1>1, <1>2, <1>3
<1>7. kind \notin {"sc", "ti", "bm"} =>
        /\ b_hs(v) = Reply(live ?? TYPE_MISMATCH, Int_(IF found THEN 1 ELSE 0))
        /\ Contract!Has(v) = Reply(live ?? TYPE_MISMATCH, Int_(IF in THEN 1 ELSE 0))
  BY <1>1, <1>2, <1>3
<1>. QED
  BY <1>4, <1>5, <1>6, <1>7 DEF live, e, k, r, s, t, x, y, z

LEMMA HasAgrees ==
  ASSUME kind \in Kinds, Kept, NEW v \in Operands[kind]
  PROVE  b_hs(v) = Contract!Has(v)
<1> DEFINE live == coll_live(freed)
<1>1. v \in Operand
  BY OperandAssumption
<1>2. CASE kind = "sc"
  <2>1. Held = body
    BY <1>2, HeldIs DEF Shows
  <2>. QED
    BY <1>2, <2>1, HasWords
<1>3. CASE kind = "ti"
  <2>1. PICK t : t = body.trie /\ TrieGood(t)
    BY <1>3 DEF Kept, Tries
  <2>2. Held = Flagged(t)
    BY <1>3, <2>1, HeldIs, WordsIs DEF Shows
  <2>3. \A w : trie_has(t, w) <=> w \in Flagged(t)
    BY DEF trie_has, Flagged
  <2>4. (IF trie_has(t, v[2]) THEN 1 ELSE 0) = (IF v[2] \in Held THEN 1 ELSE 0)
    BY <2>2, <2>3
  <2>. QED
    BY <1>3, <2>1, <2>4, HasWords
<1>4. CASE kind = "bm"
  <2>1. size \in Nat \ {0} /\ Held = HitsOf(body, size)
    BY <1>4, HeldIs DEF Kept, Bits, Shows
  <2> DEFINE cell == Hash(v[2]) % size
             hit == Bit(body, cell) = 1
             in == cell \in Held
             fault == live ?? key_str(v)
             value == Int_(IF hit THEN 1 ELSE 0)
             value2 == Int_(IF in THEN 1 ELSE 0)
  <2>2. b_hs(v) = Reply(fault, value) /\ Contract!Has(v) = Reply(fault, value2)
    BY <1>4, HasWords
  <2>3. fault = Fine => value = value2
    <3>. HIDE DEF live
    <3> SUFFICES ASSUME fault = Fine PROVE value = value2
      OBVIOUS
    <3>1. IsStr(v)
      BY BothPass, ChecksPass DEF IsWord
    <3>2. Hash(v[2]) \in Nat
      BY <1>4, <3>1, OperandAssumption
    <3>3. cell \in 0..size - 1
      BY <2>1, <3>2
    <3>. HIDE DEF cell
    <3>4. hit = in
      BY <2>1, <3>3 DEF HitsOf
    <3>. HIDE DEF hit, in
    <3>. QED
      BY <3>4
  <2>. HIDE DEF fault, value, value2
  <2>. QED
    BY <2>2, <2>3, AnswersSame
<1>5. CASE kind \notin {"sc", "ti", "bm"}
  <2>1. PICK a, b : /\ b_hs(v) = Reply(live ?? TYPE_MISMATCH, a)
                    /\ Contract!Has(v) = Reply(live ?? TYPE_MISMATCH, b)
    BY <1>5, HasWords
  <2>2. (live ?? TYPE_MISMATCH) # Fine
    BY NotOfKind
  <2>. QED
    BY <2>1, <2>2, AnswersSame
<1>. QED
  BY <1>2, <1>3, <1>4, <1>5

(* px: the two checks of a prefix are one in the contract.                 *)
LEMMA PrefixAgrees ==
  ASSUME kind \in Kinds, Kept, NEW p \in Operand
  PROVE  b_px(p) = Contract!Prefixed(p)
<1> DEFINE live == coll_live(freed)
           of == kind = "ti"
           ok == IsStr(p) /\ White \cap ToSet(p[2]) = {}
           fault == live ?? (Unless(TYPE_MISMATCH, of) ?? Unless(TYPE_MISMATCH, ok))
           asked == live ?? Unless(TYPE_MISMATCH, of /\ ok)
           value == IF p[2] \in DOMAIN body.trie THEN trie_walk(body.trie, p[2]) ELSE <<>>
           value2 == Contract!Sorted({w \in Held : Contract!IsPrefix(p[2], w)})
<1>1. b_px(p) = Reply((live ?? Unless(TYPE_MISMATCH, of)) ?? Unless(TYPE_MISMATCH, ok), value)
  BY DEF b_px
<1>2. Contract!Prefixed(p) = Reply(asked, value2)
  <2>1. Contract!IsStr(p) = IsStr(p)
    BY DEF Contract!IsStr, IsStr
  <2>2. Contract!White = White /\ Contract!ToSet(p[2]) = ToSet(p[2])
    BY DEF Contract!White, White, Contract!Newline, Newline, Contract!Blank, Blank, Contract!ToSet, ToSet
  <2>. QED
    BY <2>1, <2>2, SameWords DEF Contract!Prefixed
<1>3. of \in BOOLEAN /\ ok \in BOOLEAN
  BY DEF IsStr
<1>4. fault = Fine => value = value2
  <2>1. fault = Fine => of /\ ok
    <3>. HIDE DEF of, ok, live
    <3>1. fault = Fine => Unless(TYPE_MISMATCH, of) = Fine /\ Unless(TYPE_MISMATCH, ok) = Fine
      BY BothPass
    <3>. QED
      BY <1>3, <3>1, Passes
  <2> SUFFICES ASSUME of, ok PROVE value = value2
    BY <2>1
  <2>2. PICK t : t = body.trie /\ TrieGood(t)
    BY DEF Kept, Tries
  <2>3. Held = Flagged(t)
    BY <2>2, HeldIs, WordsIs DEF Shows
  <2>4. PICK q \in Word : q = p[2]
    BY OperandIs DEF Word
  <2>5. value2 = Contract!Sorted({w \in Flagged(t) : Contract!IsPrefix(q, w)})
    BY <2>3, <2>4
  <2>6. value = IF q \in DOMAIN t THEN trie_walk(t, q) ELSE <<>>
    BY <2>2, <2>4
  <2>. QED
    BY <2>2, <2>5, <2>6, WalkPrefix
<1>. HIDE DEF of, ok, live, value, value2
<1>5. ((live ?? Unless(TYPE_MISMATCH, of)) ?? Unless(TYPE_MISMATCH, ok)) = fault
  BY DEF ??
<1>6. fault = asked
  <2>1. (Unless(TYPE_MISMATCH, of) ?? Unless(TYPE_MISMATCH, ok)) = Unless(TYPE_MISMATCH, of /\ ok)
    BY <1>3 DEF Unless, ??
  <2>. QED
    BY <2>1
<1>. HIDE DEF fault, asked
<1>. QED
  BY <1>1, <1>2, <1>4, <1>5, <1>6, AnswersSame

-----------------------------------------------------------------------------
(* Every word that looks (gt, hs, sk, px: coll.rs) answers what the        *)
(* contract says of the value held, whatever words came before: the walk   *)
(* of the B-tree is its pairs in order of key and the search of it finds   *)
(* what a key was last given, the walk of the trie from a prefix is the    *)
(* words that start with it in order, draining a copy of the heap lists    *)
(* its bag from the least, and the packed bits are the vector.             *)
THEOREM LooksAgreeTheorem == Spec => []LooksAgree
<1> DEFINE Inv == kind \in Kinds /\ Tree /\ Kept
<1>1. Init => Inv
  BY TreeInit, FreshKept
<1>2. Inv /\ [Next]_vars => Inv'
  <2> SUFFICES ASSUME Inv, [Next]_vars
               PROVE  Inv'
    OBVIOUS
  <2>1. CASE Next
    BY <2>1, TreeStep, SameKind, ContractNext
  <2>2. CASE UNCHANGED vars
    <3>1. UNCHANGED <<kind, size, body>>
      BY <2>2 DEF vars
    <3>. QED
      BY <3>1, KeptSame DEF Tree
  <2>. QED
    BY <2>1, <2>2
<1>3. Inv => LooksAgree
  <2> SUFFICES ASSUME Inv PROVE LooksAgree
    OBVIOUS
  <2>1. b_sk = Contract!Scan
    BY ScanAgrees
  <2>2. ASSUME NEW v \in Operands[kind]
        PROVE  b_gt(v) = Contract!Get(v) /\ b_hs(v) = Contract!Has(v) /\ b_px(v) = Contract!Prefixed(v)
    <3>1. v \in Operand
      BY OperandAssumption
    <3>. QED
      BY <3>1, GetAgrees, HasAgrees, PrefixAgrees
  <2>. QED
    BY <2>1, <2>2 DEF LooksAgree
<1>. QED
  BY <1>1, <1>2, <1>3, PTL DEF Spec
=============================================================================
