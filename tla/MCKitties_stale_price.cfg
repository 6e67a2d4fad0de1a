CONSTANTS
    Accounts = {a1, a2}
    None = None
    NoItem = NoItem
    NoOwner = NoOwner
    NoPrice = NoPrice
    KittyIndexBits = 2
    Ids <- MCIds
    Prices = {1, 2}
    InitialBalance = 2

SPECIFICATION Spec

PROPERTY ListingClearedOnOwnerChange
