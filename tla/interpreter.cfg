SPECIFICATION Spec
CONSTANTS
    Byte = 2
    SExp = 5
    DExp = 6
    RamSize = 64
    DevBase = 128
    Programs <- MCPrograms
    Starts <- MCStarts
INVARIANTS
    IntegersExact
    FloatsExact
    MemoryExact
    TrapsHaveNoEffect
