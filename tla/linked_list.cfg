CONSTANTS
    Nodes = {n1, n2, n3, n4, n5}
    Null = Null
    NoNode = NoNode
    Threads = {t1, t2}
    NoThread = NoThread
SPECIFICATION ConcurrentSpec
SYMMETRY NodeThreadSymmetry
INVARIANTS
    ConcurrentTypeOK
    LinksSpellChain
PROPERTIES
    FaultsAreCallers
    ActsAsLine
CHECK_DEADLOCK FALSE
