-------------------------------- MODULE Still --------------------------------
(***************************************************************************)
(* A lossless still picture: encode of zown-vm/src/av1enc.rs and decode of *)
(* av1.rs on what it writes.  A picture is cut into blocks of 4 x 4 pixels;*)
(* a block is predicted from the ones above and left of it, transformed    *)
(* and coded with tables chosen by what was coded around it.  Both sides   *)
(* must make every choice alike.                                           *)
(***************************************************************************)
EXTENDS Msac, SequencesExt, FiniteSetsExt

CONSTANTS LumaBlocks,    \* blocks in a row of the luma plane: 4
          LebBits,       \* bits of a size in one byte: 7
          HeadSyms       \* symbols a mode has: 9, 12 and 13

\* The blocks in the order they are coded: <<plane, column, row>>.
PlaneBlocks(plane, n) == [k \in 1 .. n * n |-> <<plane, (k - 1) % n, (k - 1) \div n>>]
Blocks == PlaneBlocks(0, LumaBlocks) \o PlaneBlocks(1, LumaBlocks \div 2) \o PlaneBlocks(2, LumaBlocks \div 2)

Low(a, b) == IF a < b THEN a ELSE b
AbsOf(n) == IF n < 0 THEN -n ELSE n
BitLen(n) == CHOOSE k \in 0 .. 20 : n < 2 ^ k /\ (k = 0 \/ n >= 2 ^ (k - 1))
Bit01(b) == IF b THEN 1 ELSE 0

-----------------------------------------------------------------------------
\* One side: its coder, its tables, and the last symbol a reader took.  A table
\* not used yet has equal shares.
Side(coder) == [coder |-> coder, tabs |-> <<>>, val |-> 0]
Table(x, key, n) ==
    IF key \in DOMAIN x.tabs THEN x.tabs[key]
    ELSE [i \in 1 .. n |-> Whole - i * (Whole \div (n + 1))] \o <<0>>
Learn(x, key, cdf) ==
    [x EXCEPT !.tabs = [k \in DOMAIN @ \cup {key} |-> IF k = key THEN cdf ELSE @[k]]]
\* What a side takes of a step of its coder.
Wrote(x, coder) == [x EXCEPT !.coder = coder]
Took(x, heard) == [x EXCEPT !.coder = heard.dec, !.val = heard.val]

WSymbol(w, key, n, s, cdf) ==
    Learn(Wrote(w, enc_symbol(w.coder, cdf, n, s)), key, Adapted(cdf, n, s, SymbolRate(cdf, n)))
w_symbol(w, key, n, s) == WSymbol(w, key, n, s, Table(w, key, n))
WAdaptBool(w, key, bit, cdf) == Learn(Wrote(w, enc_bool_bit(w.coder, bit, cdf[1])), key, AdaptedBool(cdf, bit))
w_adapt_bool(w, key, bit) == WAdaptBool(w, key, bit, Table(w, key, 1))
w_equi(w, bit) == Wrote(w, enc_equi(w.coder, bit))
RECURSIVE w_bools(_, _, _), w_hi_tok(_, _, _, _)
w_bools(w, n, v) == IF n = 0 THEN w ELSE w_bools(w_equi(w, Bsh(v, n - 1) % 2), n - 1, v)
w_hi_tok(w, key, tok, base) ==
    IF tok < base + 3 \/ base = 12 THEN w_symbol(w, key, 3, tok - base)
    ELSE w_hi_tok(w_symbol(w, key, 3, 3), key, tok, base + 3)
WGolomb(w, v, n) == w_bools(w_equi(w_bools(w, n, 0), 1), n, (v + 1) % 2 ^ n)
w_golomb(w, v) == WGolomb(w, v, BitLen(v + 1) - 1)

\* The table a symbol was heard with adapts to it.
Heeded(r, key, n, cdf, h) == Learn(Took(r, h), key, Adapted(cdf, n, h.val, SymbolRate(cdf, n)))
RSymbol(r, key, n, cdf) == Heeded(r, key, n, cdf, dec_symbol(r.coder, cdf, n))
r_symbol(r, key, n) == RSymbol(r, key, n, Table(r, key, n))
HeededBool(r, key, cdf, h) == Learn(Took(r, h), key, AdaptedBool(cdf, h.val))
RAdaptBool(r, key, cdf) == HeededBool(r, key, cdf, dec_bool_bit(r.coder, cdf[1]))
r_adapt_bool(r, key) == RAdaptBool(r, key, Table(r, key, 1))
r_equi(r) == Took(r, dec_equi(r.coder))
RECURSIVE r_bools(_, _, _), r_hi_tok(_, _, _), LeadingZeros(_, _)
AfterBool(b, n, v) == r_bools(b, n - 1, 2 * v + b.val)
r_bools(r, n, v) == IF n = 0 THEN [r EXCEPT !.val = v] ELSE AfterBool(r_equi(r), n, v)
AfterHi(b, key, base) ==
    IF b.val = 3 /\ base < 12 THEN r_hi_tok(b, key, base + 3) ELSE [b EXCEPT !.val = base + @]
r_hi_tok(r, key, base) == AfterHi(r_symbol(r, key, 3), key, base)
AfterZero(b, n) == IF b.val = 0 /\ n < 32 THEN LeadingZeros(b, n + 1) ELSE [b EXCEPT !.val = n]
LeadingZeros(r, n) == AfterZero(r_equi(r), n)
AfterZeros(z) == [r_bools(z, z.val, 1) EXCEPT !.val = @ - 1]
r_golomb(r) == AfterZeros(LeadingZeros(r, 0))

-----------------------------------------------------------------------------
\* Pixels are rows of a block one after the other.
Pixel(b, x, y) == b[4 * y + x + 1]
Cells(F(_, _)) ==
    <<F(0,0), F(1,0), F(2,0), F(3,0), F(0,1), F(1,1), F(2,1), F(3,1),
      F(0,2), F(1,2), F(2,2), F(3,2), F(0,3), F(1,3), F(2,3), F(3,3)>>

\* The Walsh transform of four numbers, and back.
Forward(a0, b0, c0, d0) ==
    LET a == a0 + b0
        d == d0 - c0
        e == (a - d) \div 2
        b == e - b0
        c == e - c0
    IN  <<a - c, c, d + b, b>>
wht4(i0, i1, i2, i3) ==
    LET t0 == i0 + i1
        t2 == i2 - i3
        t4 == (t0 - t2) \div 2
        t3 == t4 - i3
        t1 == t4 - i1
    IN  <<t0 - t3, t3, t1, t2 + t1>>
\* Four times the value, down the columns and then down those.
fwht(raster) ==
    LET Col(b, x) == Forward(Pixel(b, x, 0), Pixel(b, x, 1), Pixel(b, x, 2), Pixel(b, x, 3))
        mid == Col(raster, 0) \o Col(raster, 1) \o Col(raster, 2) \o Col(raster, 3)
        out == <<Col(mid, 0), Col(mid, 1), Col(mid, 2), Col(mid, 3)>>
    IN  Cells(LAMBDA x, y : 4 * out[x + 1][y + 1])
clip8(v) == IF v < 0 THEN 0 ELSE IF v > 255 THEN 255 ELSE v
wht_add(pred, coef) ==
    LET cs(i) == coef[i + 1] \div 4
        Row(y) == wht4(cs(y), cs(y + 4), cs(y + 8), cs(y + 12))
        tmp == Row(0) \o Row(1) \o Row(2) \o Row(3)
        Down(x) == wht4(Pixel(tmp, x, 0), Pixel(tmp, x, 1), Pixel(tmp, x, 2), Pixel(tmp, x, 3))
        col == <<Down(0), Down(1), Down(2), Down(3)>>
    IN  Cells(LAMBDA x, y : clip8(pred + col[x + 1][y + 1]))

\* The mean of the pixels above and left of a block; pic is the blocks so far.
EdgeSum(F(_)) == F(0) + F(1) + F(2) + F(3)
dc_pred(pic, at) ==
    LET up == <<at[1], at[2], at[3] - 1>>
        before == <<at[1], at[2] - 1, at[3]>>
        Below(b) == EdgeSum(LAMBDA i : Pixel(b, i, 3))
        Right(b) == EdgeSum(LAMBDA i : Pixel(b, 3, i))
    IN  IF at[2] = 0 /\ at[3] = 0 THEN 128
        ELSE IF at[3] = 0 THEN (2 + Right(pic[before])) \div 4
        ELSE IF at[2] = 0 THEN (2 + Below(pic[up])) \div 4
        ELSE (4 + Below(pic[up]) + Right(pic[before])) \div 8

-----------------------------------------------------------------------------
\* The coefficients of a block are coded from the last that is not 0 (eob) to the
\* first, each with the table its neighbours choose.
SCAN_4X4 == <<0, 4, 1, 2, 5, 8, 12, 9, 6, 3, 7, 10, 13, 14, 11, 15>>
SKIP_CTX == <<<<1, 2, 2, 2, 3>>, <<2, 4, 4, 4, 5>>, <<2, 4, 4, 4, 5>>, <<2, 4, 4, 4, 5>>, <<3, 5, 5, 5, 6>>>>
LO_CTX == <<<<0, 1, 6, 6, 21>>, <<1, 6, 6, 21, 21>>, <<6, 6, 21, 21, 21>>, <<6, 21, 21, 21, 21>>, <<21, 21, 21, 21, 21>>>>
Rc(i) == SCAN_4X4[i + 1]
NoLevels == [i \in 1 .. 24 |-> 0]
store_level(levels, rc, tok) == [levels EXCEPT ![rc + 1] = IF tok >= 3 THEN tok + 192 ELSE 65 * tok]
\* Levels below and right of a position; a row that ends goes on in the next.
Level(levels, rc, dx, dy) == levels[rc + 4 * dx + dy + 1]
lo_mag(levels, rc) == Level(levels, rc, 0, 1) + Level(levels, rc, 1, 0) + Level(levels, rc, 1, 1)
lo_ctx(levels, rc) ==
    LET mag == lo_mag(levels, rc) + Level(levels, rc, 0, 2) + Level(levels, rc, 2, 0)
    IN  LO_CTX[(rc % 4) + 1][(rc \div 4) + 1] + (IF mag > 512 THEN 4 ELSE (mag + 64) \div 128)
\* A non-zero column wins, otherwise the row.
hi_base(rc) == LET far == IF rc \div 4 # 0 THEN rc \div 4 ELSE rc % 4 IN IF far > 1 THEN 14 ELSE 7
mag_ctx(mag) == IF mag % 64 > 12 THEN 6 ELSE ((mag % 64) + 1) \div 2
hi_ctx(levels, rc) == hi_base(rc) + mag_ctx(lo_mag(levels, rc))
eob_ctx(eob) == 1 + Bit01(eob > 2) + Bit01(eob > 4)

\* What the blocks above and left left behind, luma and chroma apart: 64 or 128
\* or 0 for the sign of the first coefficient, and the sum of all up to 63.
NewNear == [above |-> <<>>, left |-> <<>>]
NearOf(f, key) == IF key \in DOMAIN f THEN f[key] ELSE 64
Chroma(at) == Bit01(at[1] # 0)
UpOf(near, at) == NearOf(near.above, <<Chroma(at), at[2]>>)
BeforeOf(near, at) == NearOf(near.left, <<Chroma(at), at[3]>>)
LeaveNear(near, at, v) ==
    LET Put(f, key) == [k \in DOMAIN f \cup {key} |-> IF k = key THEN v ELSE f[k]]
    IN  [above |-> Put(near.above, <<Chroma(at), at[2]>>), left |-> Put(near.left, <<Chroma(at), at[3]>>)]
skip_ctx(near, at) ==
    IF Chroma(at) = 1 THEN 7
    ELSE SKIP_CTX[Low(UpOf(near, at) % 64, 4) + 1][Low(BeforeOf(near, at) % 64, 4) + 1]
dc_sign_ctx(near, at) ==
    LET s == UpOf(near, at) \div 64 + BeforeOf(near, at) \div 64 - 2 IN Bit01(s # 0) + Bit01(s > 0)
near_level(cul, dc_tok, neg) == Low(cul, 63) + (IF dc_tok = 0 THEN 64 ELSE IF neg = 1 THEN 0 ELSE 128)

\* The writer.
EncodeEob(w, ch, eob, k) ==
    w_bools(w_adapt_bool(w_symbol(w, <<"eob16", ch, 0>>, 4, k + 2), <<"eob_hi", ch, k + 2>>, Bit01(eob >= 3 * 2 ^ k)),
            k, eob % 2 ^ k)
encode_eob(w, ch, eob) ==
    IF eob <= 1 THEN w_symbol(w, <<"eob16", ch, 0>>, 4, eob) ELSE EncodeEob(w, ch, eob, BitLen(eob) - 2)
w_hi(w, ch, br, tok) == IF tok < 3 THEN w ELSE w_hi_tok(w, <<"br_tok", ch, br>>, Low(tok, 15), 3)
encode_base(w, ch, cctx, br, tok) ==
    w_hi(w_symbol(w, <<"base_tok", ch, cctx>>, 3, Low(tok, 3)), ch, br, tok)
encode_eob_tok(w, ch, ectx, br, tok) ==
    w_hi(w_symbol(w, <<"eob_base", ch, ectx>>, 2, Low(tok, 3) - 1), ch, br, tok)
RECURSIVE EncodeDown(_, _, _, _, _), EncodeSigns(_, _, _, _)
EncodeDown(w, ch, toks, levels, i) ==
    IF i = 0 THEN encode_base(w, ch, 0, mag_ctx(lo_mag(levels, 0)), toks[1])
    ELSE EncodeDown(encode_base(w, ch, lo_ctx(levels, Rc(i)), hi_ctx(levels, Rc(i)), toks[i + 1]),
                    ch, toks, store_level(levels, Rc(i), Low(toks[i + 1], 15)), i - 1)
w_rest(w, tok) == IF tok >= 15 THEN w_golomb(w, tok - 15) ELSE w
EncodeSign(w, v) == IF v = 0 THEN w ELSE w_rest(w_equi(w, Bit01(v < 0)), AbsOf(v))
EncodeSigns(w, scaled, i, eob) ==
    IF i > eob THEN w ELSE EncodeSigns(EncodeSign(w, scaled[Rc(i) + 1]), scaled, i + 1, eob)
EncodeToks(w, ch, toks, eob) ==
    IF eob = 0 THEN encode_eob_tok(w, ch, 0, 0, toks[1])
    ELSE EncodeDown(encode_eob_tok(w, ch, eob_ctx(eob), hi_base(Rc(eob)), toks[eob + 1]),
                    ch, toks, store_level(NoLevels, Rc(eob), Low(toks[eob + 1], 15)), eob - 1)
EncodeDc(w, near, at, tok, neg) ==
    IF tok = 0 THEN w
    ELSE w_rest(w_adapt_bool(w, <<"dc_sign", Chroma(at), dc_sign_ctx(near, at)>>, neg), tok)
CodeCoefs(w, near, scaled, at, toks, eob, neg) ==
    [w |-> EncodeSigns(EncodeDc(EncodeToks(encode_eob(w, Chroma(at), eob), Chroma(at), toks, eob),
                                near, at, toks[1], neg), scaled, 1, eob),
     near |-> LeaveNear(near, at, near_level(FoldSeq(LAMBDA a, b : a + b, 0, toks), toks[1], neg))]
EncodeCoefs(w, near, scaled, at, toks) ==
    CodeCoefs(w_adapt_bool(w, <<"skip", Chroma(at), skip_ctx(near, at)>>, 0), near, scaled, at, toks,
              Max({i \in 0 .. 15 : toks[i + 1] # 0}), Bit01(scaled[1] < 0))
Toks(scaled) == [i \in 1 .. 16 |-> AbsOf(scaled[Rc(i - 1) + 1])]
\* Mutant of encode_block: a block without coefficients leaves nothing behind.
EncodeBlockSilent(w, near, scaled, at) ==
    IF \A i \in 1 .. 16 : scaled[i] = 0
    THEN [w |-> w_adapt_bool(w, <<"skip", Chroma(at), skip_ctx(near, at)>>, 1), near |-> near]
    ELSE EncodeCoefs(w, near, scaled, at, Toks(scaled))
encode_block(w, near, scaled, at) ==
    IF \A i \in 1 .. 16 : scaled[i] = 0
    THEN [w |-> w_adapt_bool(w, <<"skip", Chroma(at), skip_ctx(near, at)>>, 1),
          near |-> LeaveNear(near, at, 64)]
    ELSE EncodeCoefs(w, near, scaled, at, Toks(scaled))

\* The reader.
RECURSIVE DecodeDown(_, _, _, _, _), DecodeSigns(_, _, _, _, _)
read_hi(t, ch, br) == IF t.val = 3 THEN r_hi_tok(t, <<"br_tok", ch, br>>, 3) ELSE t
AfterEobTok(t, ch, br) ==
    IF t.val = 2 THEN r_hi_tok(t, <<"br_tok", ch, br>>, 3) ELSE [t EXCEPT !.val = @ + 1]
ReadEobTok(r, ch, ectx, br) == AfterEobTok(r_symbol(r, <<"eob_base", ch, ectx>>, 2), ch, br)
\* toks holds, at i + 1, the token of position i of the scan.
AfterDc(dc, toks) == [r |-> dc, toks |-> [toks EXCEPT ![1] = dc.val]]
AfterTok(t, ch, toks, levels, i) ==
    IF i = 0 THEN AfterDc(t, toks)
    ELSE DecodeDown(t, ch, [toks EXCEPT ![i + 1] = t.val], store_level(levels, Rc(i), t.val), i - 1)
DecodeDown(r, ch, toks, levels, i) ==
    AfterTok(read_hi(r_symbol(r, <<"base_tok", ch, IF i = 0 THEN 0 ELSE lo_ctx(levels, Rc(i))>>, 3), ch,
                     IF i = 0 THEN mag_ctx(lo_mag(levels, 0)) ELSE hi_ctx(levels, Rc(i))),
             ch, toks, levels, i)
r_rest(r, tok) ==
    IF tok < 15 THEN [r EXCEPT !.val = tok] ELSE [r_golomb(r) EXCEPT !.val = (@ + 15) % 2 ^ 20]
Dequant(tok, neg) == IF neg = 1 THEN -Low(4 * tok, 32768) ELSE Low(4 * tok, 32767)
\* out: the coefficients, and the sum of the tokens.
AddCoef(out, i, tok, neg) ==
    [coef |-> [out.coef EXCEPT ![Rc(i) + 1] = Dequant(tok, neg)], cul |-> out.cul + tok]
AfterRest(t, neg, toks, i, eob, out) == DecodeSigns(t, toks, i + 1, eob, AddCoef(out, i, t.val, neg))
AfterSign(sign, toks, i, eob, out) == AfterRest(r_rest(sign, toks[i + 1]), sign.val, toks, i, eob, out)
DecodeSigns(r, toks, i, eob, out) ==
    IF i > eob THEN [r |-> r, out |-> out]
    ELSE IF toks[i + 1] = 0 THEN DecodeSigns(r, toks, i + 1, eob, out)
    ELSE AfterSign(r_equi(r), toks, i, eob, out)
NoCoefs == [i \in 1 .. 16 |-> 0]
NoSum == [coef |-> NoCoefs, cul |-> 0]
AfterEobHi(hi, bin) == r_bools(hi, bin - 2, hi.val + 2)
ReadEob(bin, ch) == IF bin.val > 1 THEN AfterEobHi(r_adapt_bool(bin, <<"eob_hi", ch, bin.val>>), bin.val) ELSE bin
AfterLast(last, ch, eob, first) ==
    IF eob = 0 THEN [r |-> last, toks |-> first]
    ELSE DecodeDown(last, ch, first, store_level(NoLevels, Rc(eob), last.val), eob - 1)
ReadLast(last, ch, eob) == AfterLast(last, ch, eob, [NoCoefs EXCEPT ![eob + 1] = last.val])
ReadToks(e, ch, eob) ==
    ReadLast(IF eob = 0 THEN ReadEobTok(e, ch, 0, 0) ELSE ReadEobTok(e, ch, eob_ctx(eob), hi_base(Rc(eob))), ch, eob)
\* The sign and the rest of the first coefficient, as a side and what it read.
AfterDcRest(dc, neg) == [r |-> dc, out |-> AddCoef(NoSum, 0, dc.val, neg), neg |-> neg]
AfterDcSign(sign, tok) == AfterDcRest(r_rest(sign, tok), sign.val)
ReadDc(r, near, at, tok) ==
    IF tok = 0 THEN [r |-> r, out |-> NoSum, neg |-> 0]
    ELSE AfterDcSign(r_adapt_bool(r, <<"dc_sign", Chroma(at), dc_sign_ctx(near, at)>>), tok)
Coefs(done, near, at, dc_tok, neg) ==
    [r |-> done.r, near |-> LeaveNear(near, at, near_level(done.out.cul, dc_tok, neg)), coef |-> done.out.coef]
AfterDcCoef(dc, near, at, toks, eob) ==
    Coefs(DecodeSigns(dc.r, toks, 1, eob, dc.out), near, at, toks[1], dc.neg)
AfterToks(body, near, at, eob) ==
    AfterDcCoef(ReadDc(body.r, near, at, body.toks[1]), near, at, body.toks, eob)
AfterEob(e, near, at) == AfterToks(ReadToks(e, Chroma(at), e.val), near, at, e.val)
AfterSkip(s, near, at) ==
    IF s.val = 1 THEN [r |-> s, near |-> LeaveNear(near, at, 64), coef |-> NoCoefs]
    ELSE AfterEob(ReadEob(r_symbol(s, <<"eob16", Chroma(at), 0>>, 4), Chroma(at)), near, at)
coefs(r, near, at) == AfterSkip(r_adapt_bool(r, <<"skip", Chroma(at), skip_ctx(near, at)>>), near, at)

-----------------------------------------------------------------------------
\* The headers, in bits: <<width, value>> one after the other.  Of the reader's
\* paths those are modelled that such headers take; on others it faults.
ToBits(v, n) == [b \in 1 .. n |-> Bsh(v, n - b) % 2]
FromBits(bits) == FoldLeft(LAMBDA a, b : 2 * a + b, 0, bits)
FieldBits(fields) == FlattenSeq([i \in 1 .. Len(fields) |-> ToBits(fields[i][2], fields[i][1])])
align(bits) == bits \o [i \in 1 .. (-Len(bits)) % ByteBits |-> 0]
trailing(bits) == align(bits \o <<1>>)
payload(bits) ==
    [i \in 1 .. Len(bits) \div ByteBits |-> FromBits(SubSeq(bits, (i - 1) * ByteBits + 1, i * ByteBits))]
Flags(n) == [i \in 1 .. n |-> <<1, 0>>]
seq_header ==
    LET side == <<4, 4 * LumaBlocks - 1>>
    IN  payload(trailing(FieldBits(<<<<3, 0>>, <<1, 1>>, <<1, 1>>, <<5, 0>>, <<4, 3>>, <<4, 3>>, side, side>>
                                   \o Flags(9) \o <<<<1, 1>>, <<2, 0>>>> \o Flags(2))))
frame_header == payload(align(FieldBits(Flags(3) \o <<<<1, 1>>, <<8, 0>>>> \o Flags(6))))

BitsOf(bytes) == FlattenSeq([i \in 1 .. Len(bytes) |-> ToBits(bytes[i], ByteBits)])
RECURSIVE ReadFields(_, _)
ReadFields(bits, widths) ==
    IF widths = <<>> THEN <<>>
    ELSE <<FromBits(SubSeq(bits, 1, widths[1]))>>
            \o ReadFields(SubSeq(bits, widths[1] + 1, Len(bits)), Tail(widths))
Total(widths) == FoldLeft(LAMBDA a, b : a + b, 0, widths)
Ones(n) == [i \in 1 .. n |-> 1]
read_seq(bytes, frame) ==
    LET bits == BitsOf(bytes)
        v == ReadFields(bits, <<3, 1, 1, 5, 4, 4>>)
        widths == <<v[5] + 1, v[6] + 1>> \o Ones(10) \o <<2, 1, 1>>
        f == ReadFields(SubSeq(bits, 19, Len(bits)), widths)
        rest == SubSeq(bits, 19 + Total(widths), Len(bits))
        ok == /\ <<v[1], v[2], v[3]>> = <<0, 1, 1>>
              /\ \A k \in 3 .. 15 \ {5, 12, 13} : f[k] = 0
              /\ rest = SubSeq(trailing(<<>>), 1, Len(rest)) /\ rest # <<>>
    IN  IF ok THEN [frame EXCEPT !.w = f[1] + 1, !.h = f[2] + 1] ELSE [frame EXCEPT !.fault = "UNSUPPORTED"]
FrameWidths == Ones(4) \o <<8>> \o Ones(6)
read_frame_header(bytes, frame) ==
    LET used == (Total(FrameWidths) + ByteBits - 1) \div ByteBits
        v == ReadFields(BitsOf(SubSeq(bytes, 1, used)), FrameWidths)
        ok == v[4] = 1 /\ \A k \in 1 .. 10 \ {4} : v[k] = 0
    IN  IF frame.w = 0 THEN [frame EXCEPT !.fault = "INTEGRITY_FAIL"]
        ELSE IF ok THEN [frame EXCEPT !.tile = SubSeq(bytes, used + 1, Len(bytes)), !.seen = TRUE]
        ELSE [frame EXCEPT !.fault = "UNSUPPORTED"]

\* A stream is units of a type, a size and that many bytes.
RECURSIVE leb(_), read_leb(_, _, _), obus(_, _)
leb(n) ==
    LET low == n % 2 ^ LebBits
        high == n \div 2 ^ LebBits
    IN  IF high = 0 THEN <<low>> ELSE <<low + 2 ^ LebBits>> \o leb(high)
obu(typ, data) == <<8 * typ + 2>> \o leb(Len(data)) \o data
read_leb(data, at, shift) ==
    LET size == (data[at] % 2 ^ LebBits) * 2 ^ shift
        more == read_leb(data, at + 1, shift + LebBits)
    IN  IF data[at] < 2 ^ LebBits THEN [size |-> size, at |-> at + 1]
        ELSE [size |-> size + more.size, at |-> more.at]
obus(data, frame) ==
    LET typ == data[1] \div 8
        n == read_leb(data, 2, 0)
        body == SubSeq(data, n.at, n.at + n.size - 1)
        next == CASE typ \in {2, 15} -> frame
                  [] typ = 1 -> read_seq(body, frame)
                  [] typ = 6 -> read_frame_header(body, frame)
                  [] OTHER -> [frame EXCEPT !.fault = "UNSUPPORTED"]
    IN  IF data = <<>> \/ frame.fault # "none" THEN frame
        ELSE IF n.size > Len(data) - n.at + 1 THEN [frame EXCEPT !.fault = "INTEGRITY_FAIL"]
        ELSE obus(SubSeq(data, n.at + n.size, Len(data)), next)

-----------------------------------------------------------------------------
\* A picture begins with one block of all of it, predicted from its edges.
NewStill ==
    LET part == w_symbol(Side(NewMsacEnc), <<"part", LumaBlocks, 0>>, HeadSyms, 0)
        mode == w_symbol(w_adapt_bool(part, <<"tskip", 0, 0>>, 0), <<"kfym", 0, 0>>, HeadSyms, 0)
    IN  [w |-> w_symbol(mode, <<"uv_mode", 0, 0>>, HeadSyms, 0), near |-> NewNear, pic |-> <<>>]
InPic(pic, at, b) == [k \in DOMAIN pic \cup {at} |-> IF k = at THEN b ELSE pic[k]]
\* plane_blocks, one block: px are its pixels.
Encoded(b, pic) == [w |-> b.w, near |-> b.near, pic |-> pic]
Quarter(small) == [i \in 1 .. 16 |-> small[i] \div 4]
encode_next(e, at, px) ==
    LET pred == dc_pred(e.pic, at)
    IN  Encoded(encode_block(e.w, e.near, Quarter(fwht([i \in 1 .. 16 |-> px[i] - pred])), at),
                InPic(e.pic, at, px))
stream(e) == obu(2, <<>>) \o obu(1, seq_header) \o obu(6, frame_header \o msac_done(e.w.coder))

NoFrame == [w |-> 0, h |-> 0, tile |-> <<>>, seen |-> FALSE, fault |-> "none"]
RECURSIVE sb(_, _, _)
sb(r, n, bl) ==
    LET hsz == 16 \div 2 ^ bl
    IN  IF n > hsz THEN r_symbol(r, <<"part", 2 * hsz, 0>>, HeadSyms) ELSE sb(r, n, bl + 1)
\* zeros: the modes read so far are all 0.
HeadFault(frame, zeros) ==
    IF frame.fault # "none" THEN frame.fault
    ELSE IF ~frame.seen THEN "INTEGRITY_FAIL"
    ELSE IF zeros THEN "none" ELSE "UNSUPPORTED"
AfterUv(uv, frame, zeros) ==
    [r |-> uv, near |-> NewNear, pic |-> <<>>, fault |-> HeadFault(frame, zeros /\ uv.val = 0),
     w |-> frame.w, h |-> frame.h]
AfterMode(mode, frame, zeros) ==
    AfterUv(r_symbol(mode, <<"uv_mode", mode.val, 0>>, HeadSyms), frame, zeros /\ mode.val = 0)
AfterTskip(skip, frame, zeros) ==
    AfterMode(r_symbol(skip, <<"kfym", 0, 0>>, HeadSyms), frame, zeros /\ skip.val = 0)
AfterPart(part, frame) == AfterTskip(r_adapt_bool(part, <<"tskip", 0, 0>>), frame, part.val = 0)
AfterHeads(frame) == AfterPart(sb(Side(NewMsac(frame.tile)), frame.w \div 4, 1), frame)
NewReader(data) == AfterHeads(obus(data, NoFrame))
\* one: the block at this place is painted.
Painted(d, at, c) ==
    [d EXCEPT !.r = c.r, !.near = c.near, !.pic = InPic(@, at, wht_add(dc_pred(d.pic, at), c.coef))]
decode_next(d, at) == Painted(d, at, coefs(d.r, d.near, at))
=============================================================================
