------------------------------ MODULE MCServer ------------------------------
EXTENDS Server, TLC

ClientSymmetry == Permutations(Clients)
=============================================================================
