------------------------------ MODULE MCNumbers ------------------------------
\* The number words at toy widths: limbs of 2 bits, ints of 4, floats with 2
\* bits of significand, texts to the base 3, decimals with 2 places.
EXTENDS Numbers

MCLiterals ==
    {Int_(n) : n \in {0, 1, 3, 6, 7}}
    \cup {Float(FromMag(FALSE, s)) : s \in {One \div 2, (3 * One) \div 2, 3 * One, 24 * One}}
    \cup {Str(FALSE, <<1, 2, 0>>, FALSE, <<>>), Str(TRUE, <<0>>, TRUE, <<1, 2>>), Str(FALSE, <<2>>, TRUE, <<1>>),
          Str(FALSE, <<>>, TRUE, <<1>>), Str(FALSE, <<1>>, TRUE, <<0, 1, 1>>)}
MCVecKinds ==
    [vi |-> [count |-> 2, is_float |-> FALSE, signed |-> TRUE, bits |-> 3],
     vu |-> [count |-> 3, is_float |-> FALSE, signed |-> FALSE, bits |-> 2],
     vd |-> [count |-> 2, is_float |-> TRUE, signed |-> TRUE, bits |-> 4]]
MCBlocks ==
    {<<Int_(3), Int_(-6)>>, <<Int_(7), Int_(2)>>, <<Int_(1), Int_(5), Int_(-1)>>,
     <<Int_(3), Float(FromMag(FALSE, One \div 2))>>, <<Int_(1), Width(TRUE, 4)>>,
     <<BigV(shl(from_i64(5), 3)), Int_(1)>>}
MCWidthBits == {2, 4, 6}
MCEMin == -2
=============================================================================
