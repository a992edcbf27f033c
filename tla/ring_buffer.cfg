SPECIFICATION Spec
CONSTANTS
    Values = {a, b}
    Capacity = 4
    NoValue = NoValue
INVARIANTS
    WellFormed
PROPERTY
    ImplementsDeque
