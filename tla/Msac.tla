--------------------------------- MODULE Msac ---------------------------------
(***************************************************************************)
(* The entropy coder of a still picture: MsacEnc of zown-vm/src/av1enc.rs  *)
(* and Msac of av1.rs.  Every table of frequencies adapts to the symbols   *)
(* coded with it, on both sides alike.  The widths are parameters.         *)
(***************************************************************************)
EXTENDS Integers, Sequences

CONSTANTS ByteBits,      \* bits of a byte: 8
          RngBits,       \* bits of the range: 16
          WinBits,       \* bits of the window of code bits: 64
          ProbDrop,      \* bits of a frequency that are not looked at: 6
          MinProb,       \* the least share of a symbol: 4
          Rate,          \* how fast a table adapts: 4
          RateStep       \* symbols after which it adapts slower: 16

ASSUME MsacWidths ==
    /\ WinBits > RngBits + ByteBits /\ RngBits % 2 = 0
    /\ 2 * RateStep < 2 ^ ProbDrop     \* a count reads as the frequency 0

Bsh(n, k) == IF k >= 0 THEN n \div 2 ^ k ELSE n * 2 ^ (-k)
Whole == 2 ^ (RngBits - 1)
Byte == 2 ^ ByteBits
Bits(n) == CHOOSE k \in 0 .. RngBits : n < 2 ^ k /\ (k = 0 \/ n >= 2 ^ (k - 1))
\* The share of a frequency f in the range r.
Share(r, f) == Bsh(Bsh(r, RngBits \div 2) * Bsh(f, ProbDrop), RngBits \div 2 - 1 - ProbDrop)

\* A table for the symbols 0 .. n: n falling frequencies, and how often it was used.
Adapted(cdf, n, s, rate) ==
    LET count == cdf[n + 1]
        up(p) == p + Bsh(Whole - p, rate)
        down(p) == p - Bsh(p, rate)
    IN  [i \in 1 .. Len(cdf) |->
            IF i <= n THEN IF i <= s THEN up(cdf[i]) ELSE down(cdf[i])
            ELSE IF i = n + 1 THEN IF count < 2 * RateStep THEN count + 1 ELSE count
            ELSE cdf[i]]
SymbolRate(cdf, n) == Rate + cdf[n + 1] \div RateStep + (IF n > 2 THEN 1 ELSE 0)
BoolRate(cdf) == Rate + cdf[2] \div RateStep
\* adapt_bool: bit 1 is the symbol above.
AdaptedBool(cdf, bit) == Adapted(cdf, 1, bit, BoolRate(cdf))

-----------------------------------------------------------------------------
NewMsacEnc == [buf |-> <<>>, low |-> 0, rng |-> Whole, cnt |-> -(ByteBits + 1)]

\* The last byte is one more; a byte that was full passes it on.
RECURSIVE carry(_)
carry(buf) ==
    IF buf = <<>> THEN buf
    ELSE LET n == Len(buf)
         IN  IF buf[n] = Byte - 1 THEN Append(carry(SubSeq(buf, 1, n - 1)), 0)
             ELSE [buf EXCEPT ![n] = @ + 1]
BytesOf(v, num) == [i \in 1 .. num |-> Bsh(v, (num - i) * ByteBits) % Byte]
msac_write(buf, v, num) ==
    (IF Bsh(v, num * ByteBits) % 2 = 1 THEN carry(buf) ELSE buf) \o BytesOf(v, num)
enc_norm(e, low, rng) ==
    LET d == RngBits - Bits(rng)
        s == e.cnt + d
        num == s \div ByteBits + 1
        c == e.cnt + RngBits + ByteBits - num * ByteBits
        kept == IF c <= 0 THEN 0 ELSE low % 2 ^ c
        full == s >= WinBits - RngBits - ByteBits
    IN  [buf |-> IF full THEN msac_write(e.buf, Bsh(low, c), num) ELSE e.buf,
         low |-> ((IF full THEN kept ELSE low) * 2 ^ d) % 2 ^ WinBits,
         rng |-> rng * 2 ^ d,
         cnt |-> IF full THEN c + d - (RngBits + ByteBits) ELSE s]
enc_bool_bit(e, bit, f) ==
    LET v == Share(e.rng, f) + MinProb
    IN  IF bit # 0 THEN enc_norm(e, e.low + e.rng - v, v) ELSE enc_norm(e, e.low, e.rng - v)
enc_equi(e, bit) == enc_bool_bit(e, bit, Whole \div 2)
enc_symbol(e, cdf, n, s) ==
    LET at(k) == Share(e.rng, cdf[k + 1]) + MinProb * (n - k)
    IN  IF s > 0 /\ cdf[s] < Whole THEN enc_norm(e, e.low + e.rng - at(s - 1), at(s - 1) - at(s))
        ELSE enc_norm(e, e.low, e.rng - at(0))
RECURSIVE LastBytes(_, _, _, _)
LastBytes(buf, end, c, s) ==
    LET v == Bsh(end, c + RngBits)
    IN  IF s <= 0 THEN buf
        ELSE LastBytes(Append(IF Bsh(v, ByteBits) % 2 = 1 THEN carry(buf) ELSE buf, v % Byte),
                       end % 2 ^ (c + RngBits), c - ByteBits, s - ByteBits)
msac_done(e) ==
    LET m == 2 ^ (RngBits - 2)
        r == ((e.low + m - 1) \div m) * m
    IN  LastBytes(e.buf, IF (r \div m) % 2 = 0 THEN r + m ELSE r, e.cnt, e.cnt + ByteBits + 2)

-----------------------------------------------------------------------------
shl_u64(val, c) == val * 2 ^ c
starved_mask(c) == 2 ^ (c + ByteBits) - 1
\* The window holds the code inverted; past the end of the tile it reads ones.
\* Fill is the loop of refill.
RECURSIVE Fill(_, _)
Fill(d, c) ==
    LET b == Byte - 1 - d.buf[d.pos + 1]
        ones == starved_mask(c)
        r == [d EXCEPT !.dif = @ + shl_u64(b, c), !.pos = @ + 1,
                       !.cnt = WinBits - (c - ByteBits) - (RngBits + ByteBits)]
    IN  IF d.pos >= Len(d.buf)
        THEN [d EXCEPT !.dif = @ - (@ % (ones + 1)) + ones, !.cnt = WinBits - c - (RngBits + ByteBits)]
        ELSE IF c < ByteBits THEN r ELSE Fill(r, c - ByteBits)
refill(d) == Fill(d, WinBits - d.cnt - (RngBits + ByteBits))
NewMsac(buf) == refill([buf |-> buf, pos |-> 0, dif |-> 0, rng |-> Whole, cnt |-> -(RngBits - 1)])
\* Bits run out when there were some and there are not enough: at the end of the
\* tile there are none, and zeros come in.
dec_norm(d, dif, rng) ==
    LET k == RngBits - Bits(rng)
        n == [d EXCEPT !.dif = (dif * 2 ^ k) % 2 ^ WinBits, !.rng = rng * 2 ^ k, !.cnt = @ - k]
    IN  IF 0 <= d.cnt /\ d.cnt < k THEN refill(n) ELSE n
Scaled(v) == v * 2 ^ (WinBits - RngBits)
Heard(d, v) == [dec |-> d, val |-> v]
Halve(d, v) ==
    IF d.dif >= Scaled(v) THEN Heard(dec_norm(d, d.dif - Scaled(v), d.rng - v), 0)
    ELSE Heard(dec_norm(d, d.dif, v), 1)
dec_bool_bit(d, f) == Halve(d, Share(d.rng, f) + MinProb)
dec_equi(d) == Halve(d, Bsh(d.rng, RngBits \div 2) * 2 ^ (RngBits \div 2 - 1) + MinProb)
RECURSIVE SymbolFrom(_, _, _, _, _)
SymbolFrom(d, cdf, n, u, val) ==
    LET v == Share(d.rng, cdf[val + 1]) + MinProb * (n - val)
    IN  IF Bsh(d.dif, WinBits - RngBits) >= v THEN Heard(dec_norm(d, d.dif - Scaled(v), u - v), val)
        ELSE SymbolFrom(d, cdf, n, v, val + 1)
dec_symbol(d, cdf, n) == SymbolFrom(d, cdf, n, d.rng, 0)
=============================================================================
