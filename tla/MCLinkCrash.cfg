\* Callers as in MCDirectory, with one crash: the files a remount recovers
\* are those a checkpoint took after any one write of any call.
CONSTANTS
    n1 = n1
    n2 = n2
    Names <- MCNames
    MaxINum = 4
    MaxDepth = 2
    MaxOps = 6
    RenameOverExisting = FALSE
    MaxRestarts = 1
SPECIFICATION SpecCrash
INVARIANT NoDanglingEntries
