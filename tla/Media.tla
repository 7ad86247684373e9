-------------------------------- MODULE Media --------------------------------
(***************************************************************************)
(* What the words oe and op, ve and av of zown-vm/src/media.rs put into a  *)
(* packet and take out of it: an encoder writes some symbols (or the       *)
(* blocks of a picture), the packet is closed, a decoder reads it.         *)
(***************************************************************************)
EXTENDS RangeCoder, Still

CONSTANTS Alphabets      \* what may be written: [medium, ops], ops[i] the choices for the i-th op

VARIABLES alphabet, phase,     \* phase: "put", then "get"
          sent, heard,         \* <<value, mark>> of every op, written and read
          ops, enc, dec        \* the ops, and the two sides

mediaVars == <<alphabet, phase, sent, heard, ops, enc, dec>>
medium == alphabet.medium

\* A written op: the encoder after it, and the value it stands for.
Put_(e, v) == [enc |-> e, val |-> v]
put_opus(e, o) ==
    CASE o[1] = "bit_logp" -> Put_(enc_bit_logp(e, o[2], o[3]), o[2])
      [] o[1] = "icdf" -> Put_(enc_icdf(e, o[2], o[3], o[4]), o[2])
      [] o[1] = "bits" -> Put_(enc_bits(e, o[2], o[3]), o[2])
      [] o[1] = "uint" -> Put_(uint_sym(e, o[2], o[3]), o[2])
      [] o[1] = "laplace" -> LET l == laplace(o[2], o[3], o[4])
                             IN  Put_(encode_bin(e, l.fl, l.fh, LapBits), l.val)
      [] o[1] = "pulses" -> Put_(uint_sym(e, icwrs(o[2]), pvq_ft(Len(o[2]), o[3])), o[2])
get_opus(d, o) ==
    CASE o[1] = "bit_logp" -> dec_bit_logp(d, o[3])
      [] o[1] = "icdf" -> dec_icdf(d, o[3], o[4])
      [] o[1] = "bits" -> dec_bits(d, o[3])
      [] o[1] = "uint" -> dec_uint(d, o[3])
      [] o[1] = "laplace" -> ec_laplace_decode(d, o[3], o[4])
      [] o[1] = "pulses" -> decode_pulses(d, Len(o[2]), o[3])
put_msac(w, o) ==
    CASE o[1] = "symbol" -> Put_(w_symbol(w, o[3], o[4], o[2]), o[2])
      [] o[1] = "adapt_bool" -> Put_(w_adapt_bool(w, o[3], o[2]), o[2])
      [] o[1] = "equi" -> Put_(w_equi(w, o[2]), o[2])
      [] o[1] = "golomb" -> Put_(w_golomb(w, o[2]), o[2])
get_msac(r, o) ==
    CASE o[1] = "symbol" -> r_symbol(r, o[3], o[4])
      [] o[1] = "adapt_bool" -> r_adapt_bool(r, o[3])
      [] o[1] = "equi" -> r_equi(r)
      [] o[1] = "golomb" -> r_golomb(r)
HeardSymbol(n) == Read(n, n.val)
HeardBlock(d, at) == Read(d, d.pic[at])
BlockAt == Blocks[Len(sent) + 1]
HeardAt == Blocks[Len(heard) + 1]
write_op(o) ==
    CASE medium = "opus" -> put_opus(enc, o)
      [] medium = "msac" -> put_msac(enc, o)
      [] medium = "still" -> Put_(encode_next(enc, BlockAt, o), o)
read_op(o) ==
    CASE medium = "opus" -> get_opus(dec, o)
      [] medium = "msac" -> HeardSymbol(get_msac(dec, o))
      [] medium = "still" -> HeardBlock(decode_next(dec, HeardAt), HeardAt)
\* What the next choices of either side depend on: the budget left of a packet, the
\* tables and what the blocks around left behind.
Mark(x, side) ==
    CASE medium = "opus" -> <<x.rng, x.nbits_total>>
      [] medium = "msac" -> <<x.coder.rng, x.tabs>>
      [] medium = "still" -> <<side.coder.rng, side.tabs, x.near>>
PutMark(e) == Mark(e, IF medium = "still" THEN e.w ELSE e)
GetMark(d) == Mark(d, IF medium = "still" THEN d.r ELSE d)

NoSide == [error |-> 0]
Init ==
    /\ alphabet \in Alphabets /\ phase = "put" /\ sent = <<>> /\ heard = <<>> /\ ops = <<>>
    /\ enc = CASE medium = "opus" -> NewEnc [] medium = "msac" -> Side(NewMsacEnc) [] OTHER -> NewStill
    /\ dec = NoSide
Put(o) ==
    /\ phase = "put"
    /\ \E p \in {write_op(o)} :
          enc' = p.enc /\ sent' = Append(sent, <<p.val, PutMark(p.enc)>>) /\ ops' = Append(ops, o)
    /\ UNCHANGED <<alphabet, phase, heard, dec>>
\* A picture is closed when it is whole.
Close ==
    /\ phase = "put" /\ sent # <<>>
    /\ medium = "still" => Len(sent) = Len(Blocks)
    /\ phase' = "get"
    /\ \E closed \in {IF medium = "opus" THEN enc_done(enc) ELSE enc} :
          /\ enc' = closed
          /\ dec' = CASE medium = "opus" -> NewDec(closed.buf)
                      [] medium = "msac" -> Side(NewMsac(msac_done(enc.coder)))
                      [] OTHER -> NewReader(stream(enc))
    /\ UNCHANGED <<alphabet, sent, heard, ops>>
Get ==
    /\ phase = "get" /\ Len(heard) < Len(sent)
    /\ \E r \in {read_op(ops[Len(heard) + 1])} :
          dec' = r.dec /\ heard' = Append(heard, <<r.val, GetMark(r.dec)>>)
    /\ UNCHANGED <<alphabet, phase, sent, ops, enc>>
NextOps == IF Len(sent) < Len(alphabet.ops) THEN alphabet.ops[Len(sent) + 1] ELSE {}
Next == Get \/ Close \/ \E o \in NextOps : Put(o)
Spec == Init /\ [][Next]_mediaVars

-----------------------------------------------------------------------------
\* A packet that did not overflow.
Fitted == medium = "opus" => enc.error = 0

\* Every symbol comes back as it was written, whatever was written before and after
\* it: a carry that reaches symbols already out, raw bits that meet the coded ones in
\* the last byte, tables that adapt.  (opusenc.rs Enc::done against opus.rs EcDec,
\* av1enc.rs MsacEnc::done against av1.rs Msac.)
SymbolsReadBack ==
    phase = "get" /\ medium # "still" /\ Fitted =>
        \A i \in 1 .. Len(heard) : heard[i][1] = sent[i][1]

\* The two sides hold the same range, the same count of bits used and the same tables
\* after the same symbol.  Every later choice of what is coded at all (the bits an Opus
\* band may use, the table of an AV1 symbol) is made from these, so one bit of
\* difference loses the rest of the packet.
SidesAgree ==
    phase = "get" /\ Fitted => \A i \in 1 .. Len(heard) : heard[i][2] = sent[i][2]

\* decode of the bytes encode writes is the picture (av1enc.rs:3-4): no fault, the
\* same size and the same pixels of every block.
PictureReadsBack ==
    phase = "get" /\ medium = "still" =>
        /\ dec.fault = "none" /\ dec.w = 4 * LumaBlocks /\ dec.h = 4 * LumaBlocks
        /\ \A i \in 1 .. Len(heard) : heard[i][1] = sent[i][1]
=============================================================================
