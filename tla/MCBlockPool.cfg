CONSTANTS
    h1 = h1
    h2 = h2
    c1 = c1
    c2 = c2
    NoHash = NoHash
    NumBlocks = 3
    Hashes <- MCHashes
    HashTokens <- MCHashTokens
    Holders <- MCHolders
    EnableCaching = TRUE
SPECIFICATION Spec
SYMMETRY Symmetry
CONSTRAINT NullRefBound
INVARIANTS
    TypeOK
    RefCntExact
    FreeExact
    HashMapExact
    NoStaleReader
