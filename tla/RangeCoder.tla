------------------------------ MODULE RangeCoder ------------------------------
(***************************************************************************)
(* The entropy coder of an Opus frame: Enc of zown-vm/src/opusenc.rs and   *)
(* EcDec of opus.rs, the Laplace code of an energy and the numbering of    *)
(* the pulses of a band.  Range-coded symbols fill the packet from the     *)
(* front, raw bits from the end.  The widths are parameters.               *)
(***************************************************************************)
EXTENDS Integers, Sequences, FiniteSetsExt

CONSTANTS SymBits,       \* EC_SYM_BITS: 8
          CodeBits,      \* EC_CODE_BITS: 32
          UintBits,      \* EC_UINT_BITS: 8
          Window,        \* EC_WINDOW: 32
          LapBits,       \* bits of a Laplace frequency: 15
          LapMin,        \* values a Laplace tail has at least: 16
          Storage        \* PAYLOAD: 19 symbols

ASSUME WidthsFit ==
    /\ CodeBits % SymBits = 0 /\ Window % SymBits = 0
    /\ LapBits <= CodeBits - SymBits - 1 /\ UintBits <= CodeBits - SymBits - 1

Sym == 2 ^ SymBits
CodeTop == 2 ^ (CodeBits - 1)
CodeBot == CodeTop \div Sym
CodeShift == CodeBits - SymBits - 1
U32(n) == n % 2 ^ CodeBits
Shr(n, k) == n \div 2 ^ k
Shl(n, k) == n * 2 ^ k
Least(a, b) == IF a < b THEN a ELSE b
\* s is -1 or 0: (n + s) ^ s.
Signed(n, neg) == IF neg THEN -n ELSE n
Or(a, b) ==
    MapThenSumSet(LAMBDA i : IF Shr(a, i) % 2 = 1 \/ Shr(b, i) % 2 = 1 THEN 2 ^ i ELSE 0, 0 .. SymBits - 1)
bit_len(n) == CHOOSE k \in 0 .. CodeBits : n < 2 ^ k /\ (k = 0 \/ n >= 2 ^ (k - 1))

-----------------------------------------------------------------------------
NewEnc ==
    [buf |-> [i \in 1 .. Storage |-> 0], offs |-> 0, end_offs |-> 0, end_window |-> 0,
     nend_bits |-> 0, nbits_total |-> CodeBits + 1, rng |-> CodeTop, rem |-> -1, val |-> 0,
     ext |-> 0, error |-> 0]

\* The packet is full when the front meets the end.
enc_write(e, v) ==
    IF e.offs + e.end_offs >= Storage THEN [e EXCEPT !.error = -1]
    ELSE [e EXCEPT !.buf[e.offs + 1] = v % Sym, !.offs = @ + 1]
write_end(e, v) ==
    IF e.offs + e.end_offs >= Storage THEN [e EXCEPT !.error = -1]
    ELSE [e EXCEPT !.end_offs = @ + 1, !.buf[Storage - e.end_offs] = v % Sym]
RECURSIVE WriteRun(_, _, _)
WriteRun(e, v, n) == IF n = 0 THEN e ELSE WriteRun(enc_write(e, v), v, n - 1)

\* Mutant of carry_out: the symbols held back do not get the carry.
CarryStops(e, c) ==
    LET carry == c \div Sym
        a == IF e.rem >= 0 THEN enc_write(e, e.rem + carry) ELSE e
    IN  IF c = Sym - 1 THEN [e EXCEPT !.ext = @ + 1]
        ELSE [WriteRun(a, Sym - 1, e.ext) EXCEPT !.ext = 0, !.rem = c % Sym]
\* A symbol that is all ones is held back: a carry may still run through it.
carry_out(e, c) ==
    LET carry == c \div Sym
        a == IF e.rem >= 0 THEN enc_write(e, e.rem + carry) ELSE e
    IN  IF c = Sym - 1 THEN [e EXCEPT !.ext = @ + 1]
        ELSE [WriteRun(a, Sym - 1 + carry, e.ext) EXCEPT !.ext = 0, !.rem = c % Sym]
RECURSIVE enc_normalize(_)
enc_normalize(e) ==
    IF e.rng > CodeBot THEN e
    ELSE enc_normalize([carry_out(e, Shr(e.val, CodeShift))
                          EXCEPT !.val = Shl(e.val, SymBits) % CodeTop,
                                 !.rng = U32(Shl(e.rng, SymBits)), !.nbits_total = @ + SymBits])
\* The part [low, low + size) of the range, counted from its top when low > 0.
Narrow(e, add, rng) == enc_normalize([e EXCEPT !.val = U32(@ + add), !.rng = U32(rng)])
Interval(e, r, fl, fh, ft) ==
    IF fl > 0 THEN Narrow(e, e.rng - r * (ft - fl), r * (fh - fl))
    ELSE Narrow(e, 0, e.rng - r * (ft - fh))
encode_sym(e, fl, fh, ft) == Interval(e, e.rng \div ft, fl, fh, ft)
encode_bin(e, fl, fh, nbits) == Interval(e, Shr(e.rng, nbits), fl, fh, 2 ^ nbits)
enc_bit_logp(e, bit, logp) ==
    LET s == Shr(e.rng, logp)
    IN  IF bit # 0 THEN Narrow(e, e.rng - s, s) ELSE Narrow(e, 0, e.rng - s)
\* table falls to 0; symbol s has the part between table[s - 1] and table[s].
enc_icdf(e, s, table, ftb) ==
    LET r == Shr(e.rng, ftb)
    IN  IF s > 0 THEN Narrow(e, e.rng - r * table[s], r * (table[s] - table[s + 1]))
        ELSE Narrow(e, 0, e.rng - r * table[1])

\* Whole symbols of raw bits go to the end of the packet.
RECURSIVE Flush(_)
Flush(e) ==
    IF e.nend_bits < SymBits THEN e
    ELSE Flush([write_end(e, e.end_window) EXCEPT !.end_window = Shr(@, SymBits), !.nend_bits = @ - SymBits])
enc_bits(e, fl, n) ==
    LET f == IF e.nend_bits + n > Window THEN Flush(e) ELSE e
    IN  IF n <= 0 THEN e
        ELSE [f EXCEPT !.end_window = @ + Shl(fl, f.nend_bits), !.nend_bits = @ + n, !.nbits_total = @ + n]
uint_sym(e, fl, ft) ==
    LET top == ft - 1
        ftb == bit_len(top) - UintBits
        fh == Shr(fl, ftb)
    IN  IF ftb > 0 THEN enc_bits(encode_sym(e, fh, fh + 1, Shr(top, ftb) + 1), fl % 2 ^ ftb, ftb)
        ELSE encode_sym(e, fl, fl + 1, top + 1)

\* The packet: enough bits of a number in the range, the raw bits, and where the
\* two meet the last raw bits in the spare bits of the last symbol.
RECURSIVE CarryAll(_, _, _)
CarryAll(e, end, l) ==
    IF l <= 0 THEN [enc |-> e, spare |-> -l]
    ELSE CarryAll(carry_out(e, Shr(end, CodeShift)), Shl(end, SymBits) % CodeTop, l - SymBits)
Finish(e, l, end) ==
    LET c == CarryAll(e, end, l)
    IN  [c EXCEPT !.enc = Flush(IF @.rem >= 0 \/ @.ext > 0 THEN carry_out(@, 0) ELSE @)]
LastBits(e, spare) ==
    LET at == Storage - e.end_offs
        met == e.offs + e.end_offs >= Storage /\ spare < e.nend_bits
    IN  IF at = 0 THEN [e EXCEPT !.error = -1]
        ELSE IF met THEN [e EXCEPT !.error = -1, !.buf[at] = Or(@, e.end_window % 2 ^ spare)]
        ELSE [e EXCEPT !.buf[at] = Or(@, e.end_window)]
enc_done(e) ==
    LET RoundUp(m) == (U32(e.val + m) \div (m + 1)) * (m + 1)
        l == CodeBits - bit_len(e.rng)
        msk == Shr(CodeTop - 1, l)
        f == IF RoundUp(msk) + msk >= U32(e.val + e.rng)
             THEN Finish(e, l + 1, RoundUp(Shr(msk, 1))) ELSE Finish(e, l, RoundUp(msk))
    IN  IF f.enc.error # 0 \/ f.enc.nend_bits = 0 THEN f.enc ELSE LastBits(f.enc, f.spare)

-----------------------------------------------------------------------------
\* Past its end the packet reads as zeros.
dec_read(d) ==
    IF d.offs >= Storage THEN [d EXCEPT !.rem = 0]
    ELSE [d EXCEPT !.rem = d.buf[d.offs + 1], !.offs = @ + 1]
RECURSIVE dec_normalize(_)
dec_normalize(d) ==
    LET r == dec_read(d)
        sym == Shr(Shl(d.rem, SymBits) + r.rem, 1) % Sym
    IN  IF d.rng > CodeBot THEN d
        ELSE dec_normalize([r EXCEPT !.nbits_total = @ + SymBits, !.rng = U32(Shl(@, SymBits)),
                                     !.val = (Shl(@, SymBits) + (Sym - 1 - sym)) % CodeTop])
NewDec(buf) ==
    LET top == 2 ^ (SymBits - 1)
        d == dec_read([buf |-> buf, offs |-> 0, end_offs |-> 0, end_window |-> 0, nend_bits |-> 0,
                       nbits_total |-> SymBits + 1, rng |-> top, rem |-> 0, val |-> 0, error |-> 0])
    IN  dec_normalize([d EXCEPT !.val = top - 1 - Shr(d.rem, 1)])

\* What a read returns, and the decoder after it.
Read(d, v) == [dec |-> d, val |-> v]
\* decode and decode_bin, for a range cut into ft parts of size ext each.
Part(d, ext, ft) == ft - Least(d.val \div ext + 1, ft)
update(d, ext, fl, fh, ft) ==
    LET s == ext * (ft - fh)
    IN  dec_normalize([d EXCEPT !.val = U32(@ - s), !.rng = IF fl > 0 THEN ext * (fh - fl) ELSE @ - s])
dec_bit_logp(d, logp) ==
    LET s == Shr(d.rng, logp)
    IN  IF d.val < s THEN Read(dec_normalize([d EXCEPT !.rng = s]), 1)
        ELSE Read(dec_normalize([d EXCEPT !.val = @ - s, !.rng = @ - s]), 0)
RECURSIVE IcdfFrom(_, _, _, _, _)
IcdfFrom(d, table, r, t, ret) ==
    LET s == r * table[ret + 1]
    IN  IF d.val >= s THEN Read(dec_normalize([d EXCEPT !.val = @ - s, !.rng = t - s]), ret)
        ELSE IcdfFrom(d, table, r, s, ret + 1)
dec_icdf(d, table, ftb) == IcdfFrom(d, table, Shr(d.rng, ftb), d.rng, 0)

read_end(d) ==
    IF d.end_offs >= Storage THEN d
    ELSE [d EXCEPT !.end_offs = @ + 1, !.end_window = @ + Shl(d.buf[Storage - d.end_offs], d.nend_bits)]
RECURSIVE Refill(_)
Refill(d) ==
    LET r == [read_end(d) EXCEPT !.nend_bits = @ + SymBits]
    IN  IF r.nend_bits > Window - SymBits THEN r ELSE Refill(r)
\* Mutant of dec_bits: raw bits do not count.
DecBitsFree(d, n) ==
    LET r == IF d.nend_bits < n THEN Refill(d) ELSE d
    IN  Read([r EXCEPT !.end_window = Shr(@, n), !.nend_bits = @ - n], r.end_window % 2 ^ n)
dec_bits(d, n) ==
    LET r == IF d.nend_bits < n THEN Refill(d) ELSE d
    IN  Read([r EXCEPT !.end_window = Shr(@, n), !.nend_bits = @ - n, !.nbits_total = @ + n],
             r.end_window % 2 ^ n)
DecodeSym(d, ft) ==
    LET ext == d.rng \div ft
        s == Part(d, ext, ft)
    IN  Read(update(d, ext, s, s + 1, ft), s)
dec_uint(d, ft) ==
    LET top == ft - 1
        ftb == bit_len(top) - UintBits
        s == DecodeSym(d, Shr(top, ftb) + 1)
        low == dec_bits(s.dec, ftb)
        t == Shl(s.val, ftb) + low.val
    IN  IF ftb <= 0 THEN DecodeSym(d, ft)
        ELSE IF t <= top THEN Read(low.dec, t)
        ELSE Read([low.dec EXCEPT !.error = 1], top)

-----------------------------------------------------------------------------
\* The Laplace code of a value: a frequency for 0, falling ones for 1, 2, ..
\* below and above 0, and 1 each for the rest.
Laps == 2 ^ LapBits
laplace_get_freq1(fs0, decay) == Shr((Laps - 2 * LapMin - fs0) * (Laps \div 2 - decay), LapBits)
RECURSIVE Climb(_, _, _, _, _)
Climb(i, fl, fs, v, decay) ==
    IF fs > 0 /\ i < v THEN Climb(i + 1, fl + 2 * fs + 2, Shr(2 * fs * decay, LapBits), v, decay)
    ELSE [i |-> i, fl |-> fl, fs |-> fs]
\* The interval of a value, and the value that was coded: the tail ends.
laplace(value, fs0, decay) ==
    LET neg == value < 0
        s == IF neg THEN -1 ELSE 0
        v == IF neg THEN -value ELSE value
        c == Climb(1, fs0, laplace_get_freq1(fs0, decay), v, decay)
        di == Least(v - c.i, Shr(Laps - c.fl - s, 1) - 1)
        at == c.fl + 2 * di + 1 + s
    IN  IF v = 0 THEN [fl |-> 0, fh |-> fs0, val |-> 0]
        ELSE IF c.fs = 0
        THEN [fl |-> at, fh |-> at + Least(1, Laps - at), val |-> Signed(c.i + di, neg)]
        ELSE LET lo == IF neg THEN c.fl ELSE c.fl + c.fs + 1
             IN  [fl |-> lo, fh |-> lo + c.fs + 1, val |-> value]
RECURSIVE Descend(_, _, _, _, _)
Descend(v, fl, fs, fm, decay) ==
    IF fs > 1 /\ fm >= fl + 2 * fs
    THEN Descend(v + 1, fl + 2 * fs, Shr((2 * fs - 2) * decay, LapBits) + 1, fm, decay)
    ELSE [v |-> v, fl |-> fl, fs |-> fs]
ec_laplace_decode(d, fs0, decay) ==
    LET ext == Shr(d.rng, LapBits)
        fm == Part(d, ext, Laps)
        c == Descend(1, fs0, laplace_get_freq1(fs0, decay) + 1, fm, decay)
        di == IF c.fs <= 1 THEN Shr(fm - c.fl, 1) ELSE 0
        lo == c.fl + 2 * di
        neg == fm < lo + c.fs
        fl == IF neg THEN lo ELSE lo + c.fs
        Took(a, b, v) == Read(update(d, ext, a, Least(b, Laps), Laps), v)
    IN  IF fm < fs0 THEN Took(0, fs0, 0) ELSE Took(fl, fl + c.fs, Signed(c.v + di, neg))

-----------------------------------------------------------------------------
\* The vectors of n ints whose absolute values sum to k have numbers: pvq_u(n, k)
\* is how many there are of which the first is not negative and not 0.
PvqTop == 20
PVQ_U[n \in 0 .. PvqTop, k \in 0 .. PvqTop] ==
    IF n = 0 \/ k = 0 THEN IF n = k THEN 1 ELSE 0
    ELSE PVQ_U[n - 1, k] + PVQ_U[n, k - 1] + PVQ_U[n - 1, k - 1]
pvq_u(n, k) == PVQ_U[n, k]
pvq_ft(n, k) == pvq_u(n, k) + pvq_u(n, k + 1)
Abs(v) == IF v < 0 THEN -v ELSE v
\* From the last int to the first, k the sum of those behind.
RECURSIVE Number(_, _, _, _)
Number(y, j, k, acc) ==
    LET n == Len(y) - j + 1
        more == k + Abs(y[j])
    IN  IF j = 0 THEN acc
        ELSE Number(y, j - 1, more,
                    acc + pvq_u(n, k) + (IF y[j] < 0 THEN pvq_u(n, more + 1) ELSE 0))
icwrs(y) ==
    LET n == Len(y) IN Number(y, n - 1, Abs(y[n]), IF y[n] < 0 THEN 1 ELSE 0)
RECURSIVE cwrsi(_, _, _)
cwrsi(n, k, i) ==
    LET sign == pvq_u(n, k + 1)
        neg == i >= sign
        rest == IF neg THEN i - sign ELSE i
        \* The most that can be left behind.
        left == Max({j \in 0 .. k : pvq_u(n, j) <= rest})
        two == (rest + 1) \div 2
        last == IF two = 0 THEN rest ELSE rest - (2 * two - 1)
    IN  IF n > 2 THEN <<Signed(k - left, neg)>> \o cwrsi(n - 1, left, rest - pvq_u(n, left))
        ELSE <<Signed(k - two, neg), Signed(two, last = 1)>>
decode_pulses(d, n, k) ==
    LET r == dec_uint(d, pvq_ft(n, k)) IN Read(r.dec, cwrsi(n, k, r.val))
=============================================================================
