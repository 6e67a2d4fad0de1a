\* Every pair of parents and every selector over DNAs of two 2-bit bytes.
CONSTANTS
    Width = 2
    DnaLen = 2
    NoDna = NoDna
SPECIFICATION Spec
CHECK_DEADLOCK FALSE
INVARIANT ChildBitsFromParents
