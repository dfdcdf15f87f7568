----------------------------- MODULE FileLayer -----------------------------
(***************************************************************************)
(* The file layer over the log (src/layers/file.hpp over src/layers/       *)
(* log.hpp) as a state machine.  Each variable is a field of the record    *)
(* the operators of File and Log work on; every action is one call of the  *)
(* IFileLayer interface, run to completion (lfs_main runs FUSE with -s, so *)
(* calls never overlap).  The caller is the directory layer: it calls      *)
(* RunCleaner before its operations, modelled by letting the cleaner run   *)
(* between any two calls.  The state starts where mklfs and Log::Init /   *)
(* FileLayer::Init leave a new file system.                                *)
(***************************************************************************)
EXTENDS File

CONSTANTS
    Vals,           \* the block contents callers write
    RootData,       \* the root directory's block written by mklfs
    MaxINodes,      \* bound: inode numbers File_Create may hand out
    MaxDataBlocks,  \* bound: blocks per file callers write
    MaxOps,         \* bound: calls made (the cleaner runs at most once between two)
    MaxRestarts     \* bound: crashes and remounts

VARIABLES tail, tsum, tdata, partial, cache, usage, ifile, ckpt, since,
          flash, prog, usageFlash, ckptFlash, clock, fault, overwrote, isize,
          ops,
          cleaned,   \* the cleaner ran since the last call
          restarts,
          files,     \* the files a caller reads: a function of the others
          ckptFiles  \* history: the files the checkpoint on flash describes

vars == <<tail, tsum, tdata, partial, cache, usage, ifile, ckpt, since,
          flash, prog, usageFlash, ckptFlash, clock, fault, overwrote, isize, ops, cleaned,
          restarts, files, ckptFiles>>

\* The state as the record the operators take ...
FS == [tail |-> tail, tsum |-> tsum, tdata |-> tdata, partial |-> partial,
       cache |-> cache, usage |-> usage, ifile |-> ifile, ckpt |-> ckpt,
       since |-> since, flash |-> flash, prog |-> prog, usageFlash |-> usageFlash,
       ckptFlash |-> ckptFlash, clock |-> clock, fault |-> fault,
       overwrote |-> overwrote, isize |-> isize]

INums == 1 .. MaxINodes
ROOT_DIRECTORY_INUM == 1

(***************************************************************************)
(* The file system mklfs (src/utilities/mklfs.cpp) writes: the iFile block *)
(* and the root directory's block in slots 1 and 2 of the first log        *)
(* segment, the checkpoint naming that segment, and its usage row.         *)
(***************************************************************************)
Seg0 == FirstSegment
RootINode ==
    [NewINode(ROOT_DIRECTORY_INUM) EXCEPT !.size = BlockSize, !.nlinks = 3,
                                          !.direct[0] = [seg |-> Seg0, blk |-> 2]]
IFileINode0 ==
    [NewINode(IFILE_INUM) EXCEPT !.size = InodeSize,
                                 !.direct[0] = [seg |-> Seg0, blk |-> 1]]
FormattedSegment ==
    [seg  |-> Seg0,
     sum  |-> [k \in Slots |-> CASE k = 1 -> [inum |-> IFILE_INUM, fb |-> 0]
                                 [] k = 2 -> [inum |-> ROOT_DIRECTORY_INUM, fb |-> 0]
                                 [] OTHER -> DeadEntry],
     data |-> [k \in Slots |->
                 CASE k = 1 -> [i \in InumsOfIFileBlock(0) |->
                                  IF i = ROOT_DIRECTORY_INUM THEN RootINode ELSE ZeroINode]
                   [] k = 2 -> RootData
                   [] OTHER -> Zero]]
FormattedUsage ==
    [s \in Segments |-> IF s = Seg0 THEN [live |-> 2, age |-> 1] ELSE [live |-> 0, age |-> 0]]

\* The formatted flash as a state record; the fields a mount replaces
\* (tail, cache, usage, iFile inode, counters) hold placeholders.
Formatted ==
    [tail |-> Seg0, tsum |-> FormattedSegment.sum, tdata |-> FormattedSegment.data,
     partial |-> FALSE, cache |-> <<>>, usage |-> FormattedUsage, ifile |-> IFileINode0,
     ckpt |-> IFileINode0, since |-> 0,
     flash |-> [s \in Segments |-> IF s = Seg0 THEN FormattedSegment ELSE ErasedSegment],
     prog |-> [s \in Segments |-> s = Seg0], usageFlash |-> FormattedUsage,
     ckptFlash |-> [ifile |-> IFileINode0, last |-> Seg0], clock |-> 1,
     fault |-> "none", overwrote |-> FALSE, isize |-> 0]

(***************************************************************************)
(* What a caller can see in a state L: the inode of i and block k of its   *)
(* data, read without the cache side effects of reading, and the whole     *)
(* table of files.                                                         *)
(***************************************************************************)
ViewINodeOf(L, i) == GetINode(L, i).ino
InUseOf(L, i) == i <= L.isize /\ ViewINodeOf(L, i).inUse
Unreadable == "unreadable"
BlockRead(r) == IF r.err \/ ~Alive(r.l) \/ r.data = <<>> THEN Unreadable ELSE r.data[1]
ViewBlockOf(L, i, k) == BlockRead(File_Read(L, i, k * BlockSize, BlockSize))

FileOf(L, i, ino) ==
    [inUse  |-> TRUE,
     data   |-> [k \in 1 .. ino.size \div BlockSize |-> ViewBlockOf(L, i, k - 1)],
     nlinks |-> ino.nlinks]

FilesOf(L) ==
    [i \in INums |->
        IF InUseOf(L, i) THEN FileOf(L, i, ViewINodeOf(L, i))
        ELSE [inUse |-> FALSE, data |-> <<>>, nlinks |-> 0]]

ViewINode(i) == ViewINodeOf(FS, i)
InUse(i) == InUseOf(FS, i)

\* ... and the step that makes the record they return the next state.  A
\* step that writes a checkpoint records the files a mount of the new
\* flash would show.
Commit(L) ==
    /\ tail' = L.tail /\ tsum' = L.tsum /\ tdata' = L.tdata /\ partial' = L.partial
    /\ cache' = L.cache /\ usage' = L.usage /\ ifile' = L.ifile /\ ckpt' = L.ckpt
    /\ since' = L.since /\ flash' = L.flash /\ prog' = L.prog
    /\ usageFlash' = L.usageFlash /\ ckptFlash' = L.ckptFlash /\ clock' = L.clock
    /\ fault' = L.fault /\ overwrote' = L.overwrote /\ isize' = L.isize
    /\ files' = FilesOf(L)
    /\ ckptFiles' = IF L.ckptFlash = ckptFlash THEN ckptFiles ELSE FilesOf(File_Init(L))

\* The state is the record L.
Holds(L) ==
    /\ tail = L.tail /\ tsum = L.tsum /\ tdata = L.tdata /\ partial = L.partial
    /\ cache = L.cache /\ usage = L.usage /\ ifile = L.ifile /\ ckpt = L.ckpt
    /\ since = L.since /\ flash = L.flash /\ prog = L.prog
    /\ usageFlash = L.usageFlash /\ ckptFlash = L.ckptFlash /\ clock = L.clock
    /\ fault = L.fault /\ overwrote = L.overwrote /\ isize = L.isize

\* mklfs, then FileLayer::Init (Log::Init) mounting the new file system.
Init ==
    /\ Holds(File_Init(Formatted))
    /\ ops = 0
    /\ cleaned = FALSE
    /\ restarts = 0
    /\ files = FilesOf(FS)
    /\ ckptFiles = files

(***************************************************************************)
(* The calls.  Each is enabled while the process is alive and the call     *)
(* bound is not reached; its inputs are the ones the directory layer       *)
(* passes: existing inodes, whole blocks, offsets inside the file.         *)
(***************************************************************************)
Call(L) == Commit(L) /\ ops' = ops + 1 /\ cleaned' = FALSE /\ UNCHANGED restarts

Ready == Alive(FS) /\ ops < MaxOps

Create ==
    /\ Ready
    /\ File_Create(FS).inum <= MaxINodes
    /\ Call(File_Create(FS).l)

Write(i, k, v) ==
    /\ Ready /\ InUse(i)
    /\ k * BlockSize <= ViewINode(i).size
    /\ Call(File_Write(FS, i, k * BlockSize, BlockSize, [kind |-> "data", blocks |-> (k :> v)]))

Read(i, k) ==
    /\ Ready /\ InUse(i)
    /\ (k + 1) * BlockSize <= ViewINode(i).size
    /\ Call(File_Read(FS, i, k * BlockSize, BlockSize).l)

Truncate(i, n) ==
    /\ Ready /\ InUse(i)
    /\ Call(File_Truncate(FS, i, n * BlockSize))

Free(i) ==
    /\ Ready /\ InUse(i)
    /\ Call(File_Free(FS, i))

SetAttr(i) ==
    /\ Ready /\ InUse(i)
    /\ Call(File_SetAttr(FS, i))

AddLink(i) ==
    /\ Ready /\ InUse(i)
    /\ Call(File_AddLink(FS, i))

RemoveLink(i) ==
    /\ Ready /\ InUse(i)
    /\ Call(File_RemoveLink(FS, i))

\* DirectoryLayer calls RunCleaner at the start of each of its operations,
\* so the cleaner runs at most once between two calls of the file layer.
Clean ==
    /\ Alive(FS) /\ ~cleaned
    /\ Commit(RunCleaner(FS))
    /\ cleaned' = TRUE
    /\ UNCHANGED <<ops, restarts>>

\* The bound on calls is reached: the run goes on without calls.
Done ==
    /\ Alive(FS) /\ ops = MaxOps
    /\ UNCHANGED vars

Next ==
    \/ Create
    \/ Clean
    \/ \E i \in INums :
          \/ Free(i) \/ SetAttr(i) \/ AddLink(i) \/ RemoveLink(i)
          \/ \E k \in 0 .. MaxDataBlocks - 1 :
                \/ Read(i, k)
                \/ \E v \in Vals : Write(i, k, v)
          \/ \E n \in 0 .. MaxDataBlocks : Truncate(i, n)
    \/ Done

Spec == Init /\ [][Next]_vars

(***************************************************************************)
(* Restarts.  The process goes away and the file system is mounted again  *)
(* by FileLayer::Init on what flash holds; everything else is lost.  A    *)
(* restart may follow a throw, so it is enabled in a dead state too.      *)
(***************************************************************************)
Remount(P) ==
    /\ restarts < MaxRestarts
    /\ Commit(File_Init(P))
    /\ restarts' = restarts + 1
    /\ cleaned' = FALSE
    /\ UNCHANGED ops

\* A crash between two calls.
Crash == Remount(FS)

\* A crash inside the call that fills a recovered partial tail: the
\* sealing branch of Log_Write has erased the segment and has not yet
\* written it (the window the comment at log.hpp line 262 asks about).
CrashInSeal == Alive(FS) /\ partial /\ ops < MaxOps /\ Remount(eraseSegment(FS, tail))

\* A clean unmount: ~FileLayer deletes the log, whose destructor ~Log
\* takes a checkpoint (CheckpointNow) and closes the flash.
Unmount == Alive(FS) /\ Remount(CheckpointNow(FS))

Restart == Crash \/ CrashInSeal \/ Unmount

SpecRestarts == Init /\ [][Next \/ Restart]_vars

(***************************************************************************)
(* Properties.                                                             *)
(***************************************************************************)
Addresses == [seg : Segments \cup {EMPTY}, blk : Slots \cup {EMPTY}]
Entries == {DeadEntry} \cup [inum : {IFILE_INUM} \cup INums, fb : Int]

SegmentTyped(g) ==
    g.seg \in Segments \cup {EMPTY} /\ g.sum \in [Slots -> Entries] /\ DOMAIN g.data = Slots

\* Every variable holds a value of its type.
TypeOK ==
    /\ tail \in Segments \cup {FLASH_FULL}
    /\ tsum \in [Slots -> Entries]
    /\ DOMAIN tdata = Slots
    /\ partial \in BOOLEAN
    /\ \A j \in 1 .. Len(cache) : SegmentTyped(cache[j])
    /\ Len(cache) <= CacheSize
    /\ usage \in [Segments -> [live : 0 .. LiveMod - 1, age : Nat]]
    /\ usageFlash \in [Segments -> [live : 0 .. LiveMod - 1, age : Nat]]
    /\ DOMAIN flash = Segments /\ \A s \in Segments : SegmentTyped(flash[s])
    /\ prog \in [Segments -> BOOLEAN]
    /\ ifile.inum = IFILE_INUM /\ ckpt.inum = IFILE_INUM
    /\ ckptFlash.ifile.inum = IFILE_INUM
    /\ since \in 0 .. CheckpointInterval
    /\ isize \in 1 .. MaxINodes
    /\ ops \in 0 .. MaxOps
    /\ restarts \in 0 .. MaxRestarts

(***************************************************************************)
(* The pointers of the file system: every address an inode in use (the    *)
(* iFile's included) or one of their indirect blocks holds, with the      *)
(* (inum, fileBlock) the slot's summary must name for the cleaner to      *)
(* recognise the block as live.                                            *)
(***************************************************************************)
InodesInUse(L) == {L.ifile} \cup {ViewINodeOf(L, i) : i \in {j \in INums : InUseOf(L, j)}}

IndirectPointers(L, ino) ==
    IF ino.indirect.seg = EMPTY THEN {}
    ELSE LET t == ReadIndirectBlocks(L, ino.indirect).val
         IN  {[addr |-> t[j], inum |-> ino.inum, fb |-> 4 + j] : j \in DOMAIN t}

PointersOf(L, ino) ==
    {p \in {[addr |-> ino.direct[b], inum |-> ino.inum, fb |-> b] : b \in DirectBlocks}
            \cup {[addr |-> ino.indirect, inum |-> ino.inum, fb |-> INDIRECT_BLOCK]}
            \cup IndirectPointers(L, ino) : p.addr.seg # EMPTY}

LivePointers(L) == UNION {PointersOf(L, ino) : ino \in InodesInUse(L)}

\* Where a block of segment s is read from: the tail in memory, else flash.
Holder(L, s) == IF s = L.tail THEN TailSegment(L) ELSE L.flash[s]

\* Every block an inode points at is held, in the tail or on flash, in a
\* slot whose summary names that inode and file block.  CleanSegment
\* trusts the summary to find the owner of a block; Log_Write,
\* Log_Free, sealing and File_Write's read-free-write of each block must
\* keep pointers and summaries in step.
SummariesNameOwners ==
    \A p \in LivePointers(FS) :
        Holder(FS, p.addr.seg).sum[p.addr.blk] = [inum |-> p.inum, fb |-> p.fb]

\* The in-memory usage row of a segment other than the tail never counts
\* fewer blocks than are live in it.  GetCleanSegment hands out a segment
\* whose row is zero as the next tail, so an undercount (a missed or a
\* double Log_Free, a miscount when writeSegment seals) would let live
\* blocks be overwritten.
UsageCoversLive ==
    \A s \in Segments \ {tail} :
        usage[s].live >= Cardinality({p \in LivePointers(FS) : p.addr.seg = s})

\* The flash contract (spec section 6): a sector that was written is not
\* written again before its erase block is erased.  Log::writeSegment
\* programs the tail segment; the tail comes from GetCleanSegment, which
\* takes any segment whose usage row is zero, erased or not.
NoProgramWithoutErase == ~overwrote

\* Spec section 8, law 7: after a clean shutdown the volume reopens with
\* identical file contents.  ~Log checkpoints the iFile inode of the last
\* seal and leaves the tail unwritten.
CleanRemountKeepsFiles == [][Unmount => files' = files]_vars

\* Log::Init adopts the checkpoint's iFile inode after a crash, so a crash
\* inside Log_Write, in the window that erases a recovered partial tail
\* before writing it back, must still find the files the last checkpoint
\* describes on flash.
SealCrashRecoversCheckpoint == [][CrashInSeal => files' = ckptFiles]_vars

Abstract == INSTANCE FileAbstract
    WITH MaxBlocks <- MaxDataBlocks,
         InitialFiles <- [i \in INums |->
                            IF i = ROOT_DIRECTORY_INUM
                            THEN [inUse |-> TRUE, data |-> <<RootData>>, nlinks |-> 3]
                            ELSE [inUse |-> FALSE, data |-> <<>>, nlinks |-> 0]]

\* Every call of the file layer, and every run of the cleaner between
\* calls, changes the files a caller reads exactly as the interface says
\* (FileAbstract): in particular a read returns the last block written, and
\* relocating blocks, sealing the tail and the segment cache change nothing.
FileLayerImplementsAbstract == Abstract!Spec
=============================================================================
