----------------------------- MODULE Directory -----------------------------
(***************************************************************************)
(* The directory layer (src/layers/directory.hpp, directory_list.hpp) on   *)
(* top of the file layer's interface.  A directory is a file of type       *)
(* Directory whose contents are a serialized DirectoryList: the entries    *)
(* (name, inum), "." and ".." first, both naming the directory itself.     *)
(*                                                                         *)
(* The file layer is seen through the calls DirectoryLayer makes of it:    *)
(* File_Create, File_AddLink, File_RemoveLink, File_Free,                  *)
(* File_GetFileType, and File_Read / File_Write of a whole directory list. *)
(* Its state here is, per inode, the in-use flag, the type, the link      *)
(* count and whether the file is empty (fileSize 0), the directory list a  *)
(* directory's file holds, and the iFile's                                 *)
(* size in inodes.  Regular file and symlink contents are not modelled:   *)
(* no directory operation depends on them.  RunCleaner, which every        *)
(* operation calls first, changes no file (FileLayerImplementsAbstract),   *)
(* and is left out.                                                        *)
(*                                                                         *)
(* Crashes: the file layer persists its files at a checkpoint, which a    *)
(* seal inside any Log_Write may take, so the files a remount recovers    *)
(* are those after any one file-layer write of any call (the file layer's *)
(* promise, FileAbstract; how it keeps it is FileLayer's concern).        *)
(*                                                                         *)
(* The callers are the kernel's FUSE requests: a request only arrives     *)
(* after the kernel's own lookups (through Directory_GetAttr) succeeded   *)
(* or failed as POSIX requires, and the guards of the actions say so.      *)
(***************************************************************************)
EXTENDS Integers, Sequences, FiniteSets

CONSTANTS
    Names,              \* the file names callers use in paths
    MaxINum,            \* bound: the highest inum the iFile grows to
    MaxDepth,           \* bound: the number of names in a path
    MaxOps,             \* bound: the number of calls
    RenameOverExisting, \* whether callers rename onto a name that exists
    MaxRestarts         \* bound: crashes

ASSUME /\ MaxINum \in Nat \ {0, 1}
       /\ MaxDepth \in Nat \ {0}
       /\ MaxOps \in Nat
       /\ RenameOverExisting \in BOOLEAN
       /\ MaxRestarts \in Nat

IFILE_INUM          == 0
ROOT_DIRECTORY_INUM == 1
INUM_NOT_FOUND      == -1       \* UINT_MAX: larger than any iFile size
Dot                 == "."
DotDot              == ".."
IFileName           == ".ifile"
FileTypes           == {"File", "Directory", "Symlink"}
INums               == 0 .. MaxINum

VARIABLES
    inode,      \* inum -> [inUse, type, nlinks, sized (fileSize > 0)], from GetINode
    dirs,       \* inum -> the DirectoryList stored in that file
    isize,      \* FileLayer::iFileSizeInINodes
    ops,        \* calls made
    fault,      \* "none", or why the process died
    durable,    \* [inode, dirs, isize] as the last checkpoint holds them
    restarts    \* crashes so far

vars == <<inode, dirs, isize, ops, fault, durable, restarts>>

\* The files of a state, as a checkpoint would hold them.
Snapshot(S) == [inode |-> S.inode, dirs |-> S.dirs, isize |-> S.isize]

\* The state of the layers below, as one record that operators pass on;
\* points collects the files after each file-layer write of the call.
FS == [inode |-> inode, dirs |-> dirs, isize |-> isize, fault |-> fault, points |-> {}]

Wrote(S) == [S EXCEPT !.points = @ \cup {Snapshot(S)}]

\* The end of a call.  A checkpoint taken during it (by a seal in any
\* Log_Write, RunCleaner's included) holds the files at the start of the
\* call or after one of its writes; the last one taken is kept.
Commit(S) ==
    /\ inode' = S.inode /\ dirs' = S.dirs /\ isize' = S.isize /\ fault' = S.fault
    /\ ops' = ops + 1
    /\ \E d \in IF restarts < MaxRestarts THEN {durable, Snapshot(FS)} \cup S.points ELSE {durable} :
          durable' = d
    /\ UNCHANGED restarts

Alive(S) == S.fault = "none"

Fail(S, why) == IF Alive(S) THEN [S EXCEPT !.fault = why] ELSE S

\* An iFile slot never written: memset to zero (type 0 is File).
ZeroINode == [inUse |-> FALSE, type |-> "File", nlinks |-> 0, sized |-> FALSE]

Entry(n, i) == [name |-> n, inum |-> i]

(***************************************************************************)
(* DirectoryList (directory_list.hpp)                                      *)
(***************************************************************************)

\* The constructor: "." and ".." both name the directory itself.
NewDirectoryList(i) == <<Entry(Dot, i), Entry(DotDot, i)>>

\* AddFile appends, with no check for a name already present.
AddFile(d, n, i) == Append(d, Entry(n, i))

ContainsFile(d, n) == \E k \in 1 .. Len(d) : d[k].name = n

\* DirectoryList::GetINum: the first entry with the name.
List_GetINum(d, n) ==
    IF ContainsFile(d, n)
    THEN d[CHOOSE k \in 1 .. Len(d) : d[k].name = n /\ \A j \in 1 .. k - 1 : d[j].name # n].inum
    ELSE INUM_NOT_FOUND

\* RemoveFile copies every entry whose name differs into a zeroed array
\* of size - 1 entries: all entries with the name go, the size drops by
\* one, and the slots left over stay zero (empty name, inum 0).  "." and
\* ".." are refused, and so is a name not present.
RemovedTo(d, kept) ==
    [k \in 1 .. Len(d) - 1 |-> IF k <= Len(kept) THEN kept[k] ELSE Entry("", IFILE_INUM)]

RemoveFile(d, n) ==
    IF n \in {Dot, DotDot} \/ ~ContainsFile(d, n) THEN d
    ELSE RemovedTo(d, SelectSeq(d, LAMBDA e : e.name # n))

IsEmpty(d) == Len(d) = 2 /\ ContainsFile(d, Dot) /\ ContainsFile(d, DotDot)

(***************************************************************************)
(* The file layer's calls (file.hpp), on the inode table                   *)
(***************************************************************************)

\* GetINode throws for an inum past the iFile (INUM_NOT_FOUND included).
KnownINum(S, i) == 0 <= i /\ i <= S.isize

\* GetUnusedINum: the first inode not in use, else one past the iFile.
GetUnusedINum(S) ==
    IF \E i \in 1 .. S.isize : ~S.inode[i].inUse
    THEN CHOOSE i \in 1 .. S.isize : ~S.inode[i].inUse /\ \A j \in 1 .. i - 1 : S.inode[j].inUse
    ELSE S.isize + 1

\* Mutant: the iFile grows on every create, reused inum or not.
CreateINodeAlwaysGrows(S, inum, type) ==
    Wrote([S EXCEPT !.inode[inum] = [inUse |-> TRUE, type |-> type, nlinks |-> 1, sized |-> FALSE],
                    !.dirs[inum]  = <<>>,
                    !.isize       = @ + 1])

\* File_Create (InitNewINode) of a new inode numbered inum, with no
\* blocks and fileSize 0.
CreateINode(S, inum, type) ==
    Wrote([S EXCEPT !.inode[inum] = [inUse |-> TRUE, type |-> type, nlinks |-> 1, sized |-> FALSE],
                    !.dirs[inum]  = <<>>,
                    !.isize       = IF inum = @ + 1 THEN @ + 1 ELSE @])

File_AddLink(S, i) ==
    IF ~KnownINum(S, i) THEN Fail(S, "NoSuchINode")
    ELSE Wrote([S EXCEPT !.inode[i].nlinks = @ + 1])

\* File_Free keeps the type and the link count; freeing the iFile throws.
File_Free(S, i) ==
    IF i = IFILE_INUM THEN Fail(S, "FreeIFile")
    ELSE IF ~KnownINum(S, i) THEN Fail(S, "NoSuchINode")
    ELSE Wrote([S EXCEPT !.inode[i].inUse = FALSE])

\* File_RemoveLink stores the decremented count, and frees at zero.
StoreNLinks(S, i, n) ==
    IF n = 0 THEN File_Free(Wrote([S EXCEPT !.inode[i].nlinks = 0]), i)
    ELSE Wrote([S EXCEPT !.inode[i].nlinks = n])

File_RemoveLink(S, i) ==
    IF ~KnownINum(S, i) THEN Fail(S, "NoSuchINode")
    ELSE StoreNLinks(S, i, S.inode[i].nlinks - 1)

File_GetFileType(S, i) == S.inode[i].type

(***************************************************************************)
(* DirectoryLayer's private helpers                                        *)
(***************************************************************************)

\* ReadDirectory returns NULL unless the inode is a directory in use whose
\* file was written: File_Read fails for a freed inode, and for a file of
\* size 0, since it clamps the length to 0 but still reads block 0, which
\* is empty.  Readable says it does not.
Readable(S, i) ==
    File_GetFileType(S, i) = "Directory" /\ S.inode[i].inUse /\ S.inode[i].sized

ReadDirectory(S, i) == S.dirs[i]

\* WriteDirectory: File_Write of the whole list to the file of the inum
\* the list records (directoryNameINumPair.inum).  Every list written was
\* built by the DirectoryList constructor with the inum of its own file,
\* or read back from that file, so that inum is i.
WriteDirectory(S, i, d) == Wrote([S EXCEPT !.dirs[i] = d, !.inode[i].sized = TRUE])

\* GetINum: walk the path from the root, taking the first entry of each
\* name.  A component that is not a directory in use ends the walk with
\* INUM_NOT_FOUND; one naming an inum past the iFile makes GetINode throw.
\* The result is [s |-> state, inum |-> inum].
RECURSIVE Walk(_, _, _), Descend(_, _, _)
Walk(S, d, p) ==
    IF ~ContainsFile(d, Head(p)) THEN [s |-> S, inum |-> INUM_NOT_FOUND]
    ELSE IF Len(p) = 1 THEN [s |-> S, inum |-> List_GetINum(d, Head(p))]
    ELSE Descend(S, List_GetINum(d, Head(p)), Tail(p))

Descend(S, i, p) ==
    IF ~KnownINum(S, i) THEN [s |-> Fail(S, "NoSuchINode"), inum |-> INUM_NOT_FOUND]
    ELSE IF ~Readable(S, i) THEN [s |-> S, inum |-> INUM_NOT_FOUND]
    ELSE Walk(S, ReadDirectory(S, i), p)

GetINum(S, p) ==
    IF p = <<>> THEN [s |-> S, inum |-> ROOT_DIRECTORY_INUM]
    ELSE Walk(S, ReadDirectory(S, ROOT_DIRECTORY_INUM), p)

GetLastPathElement(p) == p[Len(p)]
GetDirectoryPath(p)   == SubSeq(p, 1, Len(p) - 1)

\* A lookup that failed or killed the process: the caller returns.
Missing(r) == r.inum = INUM_NOT_FOUND \/ ~Alive(r.s)

(***************************************************************************)
(* DirectoryLayer's operations, each a function of the state before it    *)
(***************************************************************************)

\* CreateFile: File_Create first, then the parent is looked up, read and
\* given the entry.  A failure after File_Create leaves the new inode in
\* use with no entry.  c is [s, inum] after File_Create.
AddEntry(c, dir, n) ==
    IF Missing(dir) \/ ~Readable(dir.s, dir.inum) THEN [s |-> dir.s, inum |-> INUM_NOT_FOUND]
    ELSE [s |-> WriteDirectory(dir.s, dir.inum, AddFile(ReadDirectory(dir.s, dir.inum), n, c.inum)),
          inum |-> c.inum]

NewEntry(c, p) == AddEntry(c, GetINum(c.s, GetDirectoryPath(p)), GetLastPathElement(p))

CreateFile(S, p, type) ==
    NewEntry([s |-> CreateINode(S, GetUnusedINum(S), type), inum |-> GetUnusedINum(S)], p)

\* Directory_Mkdir: CreateFile, then the new list written to the new file.
InitDirectory(r) ==
    IF r.inum = INUM_NOT_FOUND THEN r.s ELSE WriteDirectory(r.s, r.inum, NewDirectoryList(r.inum))

Directory_Mkdir(S, p) == InitDirectory(CreateFile(S, p, "Directory"))

Directory_Create(S, p) == CreateFile(S, p, "File").s

\* Directory_Symlink: CreateFile, then Directory_Write of the target path
\* into it, which changes only the symlink's contents.
Directory_Symlink(S, p) == CreateFile(S, p, "Symlink").s

\* Directory_Link: the entry is written to the new parent, then the link
\* count raised.
\* Mutant: the entry is added without File_AddLink.
LinkIntoNoCount(from, dir, n) ==
    IF Missing(dir) \/ ~Readable(dir.s, dir.inum) THEN dir.s
    ELSE WriteDirectory(dir.s, dir.inum, AddFile(ReadDirectory(dir.s, dir.inum), n, from))

LinkInto(from, dir, n) ==
    IF Missing(dir) \/ ~Readable(dir.s, dir.inum) THEN dir.s
    ELSE File_AddLink(WriteDirectory(dir.s, dir.inum, AddFile(ReadDirectory(dir.s, dir.inum), n, from)),
                      from)

LinkFrom(from, t) ==
    IF Missing(from) THEN from.s
    ELSE LinkInto(from.inum, GetINum(from.s, GetDirectoryPath(t)), GetLastPathElement(t))

Directory_Link(S, f, t) == LinkFrom(GetINum(S, f), t)

\* Directory_Unlink: the entry is removed and the parent written, then a
\* symlink is freed and anything else loses a link.
\* Mutant: every unlinked inode is freed, as symlinks are.
DropINodeFreeAlways(S, i) ==
    IF ~Alive(S) THEN S
    ELSE IF ~KnownINum(S, i) THEN Fail(S, "NoSuchINode")
    ELSE File_Free(S, i)

DropINode(S, i) ==
    IF ~Alive(S) THEN S
    ELSE IF ~KnownINum(S, i) THEN Fail(S, "NoSuchINode")
    ELSE IF File_GetFileType(S, i) = "Symlink" THEN File_Free(S, i)
    ELSE File_RemoveLink(S, i)

UnlinkIn(i, dir, n) ==
    IF Missing(dir) \/ ~Readable(dir.s, dir.inum) \/ n \in {Dot, DotDot} THEN dir.s
    ELSE DropINode(WriteDirectory(dir.s, dir.inum, RemoveFile(ReadDirectory(dir.s, dir.inum), n)), i)

UnlinkFound(r, p) ==
    IF Missing(r) THEN r.s
    ELSE UnlinkIn(r.inum, GetINum(r.s, GetDirectoryPath(p)), GetLastPathElement(p))

Directory_Unlink(S, p) == UnlinkFound(GetINum(S, p), p)

\* Directory_Rmdir: only a directory holding just "." and ".." is unlinked.
RmdirFound(r, p) ==
    IF Missing(r) \/ ~Readable(r.s, r.inum) THEN r.s
    ELSE IF ~IsEmpty(ReadDirectory(r.s, r.inum)) THEN r.s
    ELSE Directory_Unlink(r.s, p)

Directory_Rmdir(S, p) == RmdirFound(GetINum(S, p), p)

\* Directory_Rename: the source inum is looked up first; the entry is
\* removed from the source parent, which is written; the destination
\* parent is then looked up and read again and given the entry.  An
\* entry already named like the destination stays.
RenameInto(from, dir, n) ==
    IF Missing(dir) \/ ~Readable(dir.s, dir.inum) \/ n \in {Dot, DotDot} THEN dir.s
    ELSE WriteDirectory(dir.s, dir.inum, AddFile(ReadDirectory(dir.s, dir.inum), n, from))

\* Mutant: the destination parent is looked up and read before the
\* source parent is written, and its stale list is written back.
StaleInto(from, S, to, n) ==
    IF Missing(to) \/ ~Readable(to.s, to.inum) \/ n \in {Dot, DotDot} THEN S
    ELSE WriteDirectory(S, to.inum, AddFile(ReadDirectory(to.s, to.inum), n, from))

RenameOutOfStale(from, dir, n, t) ==
    IF Missing(dir) \/ ~Readable(dir.s, dir.inum) \/ n \in {Dot, DotDot} THEN dir.s
    ELSE StaleInto(from, WriteDirectory(dir.s, dir.inum, RemoveFile(ReadDirectory(dir.s, dir.inum), n)),
                   GetINum(dir.s, GetDirectoryPath(t)), GetLastPathElement(t))

RenameTo(from, S, t) == RenameInto(from, GetINum(S, GetDirectoryPath(t)), GetLastPathElement(t))

RenameOutOf(from, dir, n, t) ==
    IF Missing(dir) \/ ~Readable(dir.s, dir.inum) \/ n \in {Dot, DotDot} THEN dir.s
    ELSE RenameTo(from, WriteDirectory(dir.s, dir.inum, RemoveFile(ReadDirectory(dir.s, dir.inum), n)), t)

RenameFound(r, f, t) ==
    RenameOutOf(r.inum, GetINum(r.s, GetDirectoryPath(f)), GetLastPathElement(f), t)

Directory_Rename(S, f, t) == RenameFound(GetINum(S, f), f, t)

(***************************************************************************)
(* The specification                                                       *)
(***************************************************************************)

\* mklfs: the iFile inode (in the checkpoint) and the root directory, whose
\* list is "/" with ".", ".." and ".ifile"; the iFile holds one inode.
Init ==
    /\ inode = [i \in INums |->
                   IF i = IFILE_INUM THEN [inUse |-> TRUE, type |-> "File", nlinks |-> 1, sized |-> TRUE]
                   ELSE IF i = ROOT_DIRECTORY_INUM
                   THEN [inUse |-> TRUE, type |-> "Directory", nlinks |-> 3, sized |-> TRUE]
                   ELSE ZeroINode]
    /\ dirs = [i \in INums |->
                  IF i = ROOT_DIRECTORY_INUM
                  THEN AddFile(NewDirectoryList(ROOT_DIRECTORY_INUM), IFileName, IFILE_INUM)
                  ELSE <<>>]
    /\ isize = 1
    /\ ops = 0
    /\ fault = "none"
    /\ durable = Snapshot([inode |-> inode, dirs |-> dirs, isize |-> isize])
    /\ restarts = 0

Paths == UNION {[1 .. n -> Names] : n \in 1 .. MaxDepth}

\* What the kernel learns from its lookups (Directory_GetAttr) before it
\* sends a request.
Found(r)      == Alive(r.s) /\ r.inum # INUM_NOT_FOUND
Exists(p)     == Found(GetINum(FS, p))
Absent(p)     == GetINum(FS, p) = [s |-> FS, inum |-> INUM_NOT_FOUND]
TypeAt(p)     == inode[GetINum(FS, p).inum].type
IsDirPath(p)  == Exists(p) /\ TypeAt(p) = "Directory"
Fresh(p)      == Absent(p) /\ IsDirPath(GetDirectoryPath(p))
Within(p, q)  == Len(q) <= Len(p) /\ SubSeq(p, 1, Len(q)) = q

Call(S) == Commit(S)

Ready == ops < MaxOps /\ fault = "none"

\* create, mkdir, symlink: the name is new and its parent a directory.
\* The iFile grows to at most MaxINum inodes.
Room == GetUnusedINum(FS) <= MaxINum

Mkdir(p)   == Ready /\ Fresh(p) /\ Room /\ Call(Directory_Mkdir(FS, p))
Create(p)  == Ready /\ Fresh(p) /\ Room /\ Call(Directory_Create(FS, p))
Symlink(p) == Ready /\ Fresh(p) /\ Room /\ Call(Directory_Symlink(FS, p))

\* link: the source is a regular file, the new name is new.
Link(f, t) ==
    /\ Ready /\ Exists(f) /\ TypeAt(f) = "File" /\ Fresh(t)
    /\ Call(Directory_Link(FS, f, t))

\* unlink of anything but a directory; rmdir of a directory.
Unlink(p) == Ready /\ Exists(p) /\ TypeAt(p) # "Directory" /\ Call(Directory_Unlink(FS, p))
Rmdir(p)  == Ready /\ IsDirPath(p) /\ Call(Directory_Rmdir(FS, p))

\* rename: the source exists, the destination's parent is a directory,
\* neither path lies inside the other, and the destination is new or,
\* when callers do so, an existing name of another inode of the same kind.
Rename(f, t) ==
    /\ Ready /\ Exists(f) /\ IsDirPath(GetDirectoryPath(t))
    /\ ~Within(t, f) /\ ~Within(f, t)
    /\ \/ Absent(t)
       \/ /\ RenameOverExisting /\ Exists(t)
          /\ GetINum(FS, t).inum # GetINum(FS, f).inum
          /\ (TypeAt(t) = "Directory") = (TypeAt(f) = "Directory")
    /\ Call(Directory_Rename(FS, f, t))

Done == ops = MaxOps /\ UNCHANGED vars

Next ==
    \/ \E p \in Paths : Mkdir(p) \/ Create(p) \/ Symlink(p) \/ Unlink(p) \/ Rmdir(p)
    \/ \E f, t \in Paths : Link(f, t) \/ Rename(f, t)
    \/ Done

Spec == Init /\ [][Next]_vars

\* A crash at any moment, dead process or not, and the remount
\* (FileLayer::Init): the files are those of the last checkpoint, and
\* iFileSizeInINodes is read back from the checkpointed iFile inode.
Crash ==
    /\ restarts < MaxRestarts
    /\ inode' = durable.inode /\ dirs' = durable.dirs /\ isize' = durable.isize
    /\ fault' = "none"
    /\ restarts' = restarts + 1
    /\ UNCHANGED <<ops, durable>>

SpecCrash == Init /\ [][Next \/ Crash]_vars

(***************************************************************************)
(* Properties                                                              *)
(***************************************************************************)

LiveDirs == {d \in INums : inode[d].inUse /\ inode[d].type = "Directory"}

\* Every entry of every directory in use, as <<directory, index>>.
EntrySlots == UNION {{<<d, k>> : k \in 1 .. Len(dirs[d])} : d \in LiveDirs}

Named(e) == e.name \notin {Dot, DotDot}

Links(i) == Cardinality({x \in EntrySlots : Named(dirs[x[1]][x[2]]) /\ dirs[x[1]][x[2]].inum = i})

TypeOK ==
    /\ inode \in [INums -> [inUse : BOOLEAN, type : FileTypes, nlinks : Nat, sized : BOOLEAN]]
    /\ \A i \in INums : dirs[i] \in Seq([name : Names \cup {Dot, DotDot, IFileName, ""},
                                         inum : INums \cup {INUM_NOT_FOUND}])
    /\ isize \in 1 .. MaxINum
    /\ ops \in 0 .. MaxOps

\* The link count of every inode in use but the root equals the number of
\* entries naming it in the directories in use: CreateFile, Link, Unlink,
\* Rmdir and Rename must each keep entries and File_AddLink /
\* File_RemoveLink in step, or a file is freed while a name still
\* reaches it, or lives on with no name.
LinkCountsMatchEntries ==
    \A i \in INums \ {ROOT_DIRECTORY_INUM} : inode[i].inUse => inode[i].nlinks = Links(i)

\* No entry of a directory in use names an inode that is not in use: an
\* unlink frees an inode only when its last name is removed, so no name
\* later reaches a reused inum.
NoDanglingEntries ==
    \A x \in EntrySlots :
        Named(dirs[x[1]][x[2]]) =>
            dirs[x[1]][x[2]].inum \in INums /\ inode[dirs[x[1]][x[2]].inum].inUse

\* Directory_Rename (spec 4.4): afterwards the destination resolves to the
\* inode the source named, and the source no longer resolves.  The
\* destination parent is read after the source parent is written, so a
\* rename within one directory keeps the removal.
RenameMovesEntry ==
    [][\A f, t \in Paths :
          Rename(f, t) =>
              /\ GetINum(FS', t).inum = GetINum(FS, f).inum
              /\ GetINum(FS', f).inum = INUM_NOT_FOUND]_vars

====
