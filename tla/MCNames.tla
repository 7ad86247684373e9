------------------------------ MODULE MCNames ------------------------------
\* Instance of Names for TLC: peers, names, words and ports are interchangeable.
EXTENDS Names, TLC

Symmetric == Permutations(Peer) \cup Permutations(Name)
                \cup Permutations(Proto) \cup Permutations(Port)
=============================================================================
