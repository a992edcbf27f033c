------------------------------ MODULE MCQueue ------------------------------
\* Queue for TLC: addresses and data pointers are interchangeable.
EXTENDS Queue, TLC

AddressSymmetry == Permutations(Nodes)
=============================================================================
