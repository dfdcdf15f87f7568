\* A process that is root or user 1 in group 1; inodes owned by user 1 or
\* 2 and group 1 or 2, so every class is met; every mode and mask.
CONSTANTS
    ProcUids = {0, 1}
    ProcGids = {1}
    FileUids = {1, 2}
    FileGids = {1, 2}
SPECIFICATION Spec
INVARIANT AccessIsPosix
