CONSTANT MaxChunks = 2
SPECIFICATION Spec
INVARIANT StoredIsWholeFile
