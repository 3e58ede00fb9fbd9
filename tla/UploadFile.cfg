CONSTANT MaxChunks = 3
SPECIFICATION FairSpec
INVARIANTS TypeOK NoReadAfterReturn SuccessIsWholeFile EofAfterBoundary
PROPERTY Terminates
