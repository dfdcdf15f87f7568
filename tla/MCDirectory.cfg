\* Callers rename only onto new names.
CONSTANTS
    n1 = n1
    n2 = n2
    Names <- MCNames
    MaxINum = 4
    MaxDepth = 2
    MaxOps = 6
    RenameOverExisting = FALSE
    MaxRestarts = 0
SPECIFICATION Spec
INVARIANT TypeOK
INVARIANT LinkCountsMatchEntries
INVARIANT NoDanglingEntries
PROPERTY RenameMovesEntry
