\* Callers also rename onto a name that exists, as rename(2) allows.
CONSTANTS
    n1 = n1
    n2 = n2
    Names <- MCNames
    MaxINum = 4
    MaxDepth = 2
    MaxOps = 6
    RenameOverExisting = TRUE
    MaxRestarts = 0
SPECIFICATION Spec
PROPERTY RenameMovesEntry
