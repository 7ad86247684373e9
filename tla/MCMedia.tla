------------------------------- MODULE MCMedia -------------------------------
EXTENDS Media

Times(n, set) == [i \in 1 .. n |-> set]
Symbols(name, n, set) == [medium |-> name, ops |-> Times(n, set)]

\* Range-coded symbols, likely and unlikely, beside raw bits.
Coded == Symbols("opus", 5,
            {<<"bit_logp", 0, 1>>, <<"bit_logp", 1, 3>>, <<"bit_logp", 0, 3>>,
             <<"icdf", 0, <<3, 1, 0>>, 2>>, <<"icdf", 2, <<3, 1, 0>>, 2>>,
             <<"bits", 5, 3>>, <<"bits", 2, 2>>, <<"uint", 12, 13>>, <<"uint", 3, 5>>})
\* Every value of a Laplace code and more than its tail holds.
Energies == Symbols("opus", 2, {<<"laplace", v, 10, d>> : v \in -9 .. 9, d \in {4, 9}})
\* Every way to put k pulses into n places.
Sum(y) == FoldSeq(LAMBDA a, b : Abs(a) + b, 0, y)
Shapes(n, k) == {y \in [1 .. n -> -k .. k] : Sum(y) = k}
Pulses == {Symbols("opus", 1, {<<"pulses", y, k>> : y \in Shapes(n, k)}) : n \in 2 .. 4, k \in 1 .. 4}
\* Symbols of a table of four, of a yes or no, and raw ones.
Yes(b) == <<"adapt_bool", b, <<"b", 0, 0>>>>
Adapting == Symbols("msac", 5,
               {<<"symbol", s, <<"t", 0, 0>>, 3>> : s \in 0 .. 3}
                  \cup {Yes(0), Yes(1), <<"equi", 1>>, <<"golomb", 2>>})
\* The same few symbols for long: the shares become extreme, and bytes full.
Skewed == Symbols("msac", 10, {Yes(0), Yes(1), <<"equi", 1>>})

\* Blocks that are flat at either end, sharp, and uneven.  A picture is one of them,
\* with some blocks of it free.
Flat(v) == [i \in 1 .. 16 |-> v]
Checks == Cells(LAMBDA x, y : IF (x + y) % 2 = 0 THEN 255 ELSE 0)
Slope == Cells(LAMBDA x, y : 8 * x + 3 * y + (IF x = 2 THEN 1 ELSE 0) + 100)
Pictures ==
    {[medium |-> "still",
      ops |-> [i \in 1 .. Len(Blocks) |-> IF i \in free THEN {base, other} ELSE {base}]] :
        base \in {Flat(128), Slope}, other \in {Flat(0), Checks, Slope},
        free \in {{1, 2, 3, 5}, {6, 7, 10, 11}, {16, 17, 20, 21, 24}}}

MCAlphabets == {Coded, Energies, Adapting, Skewed} \cup Pulses \cup Pictures
=============================================================================
