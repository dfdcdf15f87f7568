---------------------------- MODULE FileAbstract ----------------------------
(***************************************************************************)
(* What the file layer promises its caller, the directory layer: a table  *)
(* of inodes, each in use or not, holding a sequence of blocks and a link  *)
(* count.  These are the effects IFileLayer (src/layers/file.hpp) names:   *)
(* File_Create gives an inode not in use, File_Write overwrites or appends *)
(* whole blocks, File_Truncate cuts or zero-extends, File_Free releases,   *)
(* File_AddLink / File_RemoveLink count links and free at zero.  Nothing  *)
(* else (reads, attribute changes, the cleaner, sealing and checkpointing  *)
(* in the log) may change a file.                                          *)
(***************************************************************************)
EXTENDS Integers, Sequences

CONSTANTS
    INums,          \* the inode numbers of regular files and directories
    Vals,           \* the block contents a caller writes
    Zero,           \* a zeroed block
    MaxBlocks,      \* the longest file considered
    InitialFiles    \* what mklfs leaves: the root directory, inum 1

VARIABLE files

FreeFile == [inUse |-> FALSE, data |-> <<>>, nlinks |-> 0]

Init == files = InitialFiles

Create(i) ==
    /\ ~files[i].inUse
    /\ files' = [files EXCEPT ![i] = [inUse |-> TRUE, data |-> <<>>, nlinks |-> 1]]

\* Block k (0-based) of i becomes v; k may be one past the end.
Write(i, k, v) ==
    /\ files[i].inUse
    /\ k <= Len(files[i].data)
    /\ files' = [files EXCEPT ![i].data =
                    IF k = Len(@) THEN Append(@, v) ELSE [@ EXCEPT ![k + 1] = v]]

Truncate(i, n) ==
    /\ files[i].inUse
    /\ files' = [files EXCEPT ![i].data =
                    [k \in 1 .. n |-> IF k <= Len(@) THEN @[k] ELSE Zero]]

Free(i) ==
    /\ files' = [files EXCEPT ![i] = FreeFile]

AddLink(i) ==
    /\ files[i].inUse
    /\ files' = [files EXCEPT ![i].nlinks = @ + 1]

RemoveLink(i) ==
    /\ files[i].inUse
    /\ files' = [files EXCEPT ![i] =
                    IF @.nlinks = 1 THEN FreeFile ELSE [@ EXCEPT !.nlinks = @ - 1]]

Next ==
    \E i \in INums :
        \/ Create(i) \/ Free(i) \/ AddLink(i) \/ RemoveLink(i)
        \/ \E v \in Vals \cup {Zero}, k \in 0 .. Len(files[i].data) : Write(i, k, v)
        \/ \E n \in 0 .. MaxBlocks : Truncate(i, n)

Spec == Init /\ [][Next]_files
=============================================================================
