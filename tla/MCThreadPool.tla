---------------------------- MODULE MCThreadPool ----------------------------
\* Constants of ThreadPool for TLC.
EXTENDS ThreadPool, TLC

OnHeap == {TRUE}
AnyArg == BOOLEAN

CallerSymmetry == Permutations(Callers)
=============================================================================
