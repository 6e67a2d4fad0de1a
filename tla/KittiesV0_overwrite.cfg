CONSTANTS
    CountBits = 2
    Dnas = {d1, d2}
    NoKitty = NoKitty

SPECIFICATION Spec

PROPERTY KittiesNeverOverwritten
