---------------------------- MODULE MCLinkedList ----------------------------
\* Symmetry of the nodes and of the threads for TLC.
EXTENDS ConcurrentLinkedList, TLC

NodeThreadSymmetry == Permutations(Nodes) \cup Permutations(Threads)
=============================================================================
