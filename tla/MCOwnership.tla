---------------------------- MODULE MCOwnership ----------------------------
\* Instance of Ownership for TLC: allocations and names are interchangeable.
EXTENDS Ownership, TLC

Symmetric == Permutations(Alloc) \cup Permutations(Name)
=============================================================================
