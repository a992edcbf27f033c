SPECIFICATION Spec
CONSTANTS
    Nodes = {n1, n2, n3, n4}
    Values = {a, b}
    Null = Null
    NoValue = NoValue
SYMMETRY AddressSymmetry
INVARIANTS
    WellFormed
PROPERTIES
    FreeReleasesContents
    ImplementsFifo
