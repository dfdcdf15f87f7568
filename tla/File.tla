-------------------------------- MODULE File --------------------------------
(***************************************************************************)
(* The file layer, src/layers/file.hpp, as pure operators over the state   *)
(* record of module Log, which also holds iFileSizeInINodes as field       *)
(* `isize`.  An inode is the record INode of src/data_structures/inode.hpp *)
(* without its times, owner and mode (no property reads them).  A block's  *)
(* contents are abstract: a data block holds a member of the caller's      *)
(* value set, an iFile block the function from the inums it stores to      *)
(* their inodes, an indirect block the array of IndirectEntries addresses. *)
(* Sizes are bytes: data files are written in whole blocks, the iFile one  *)
(* inode at a time.                                                        *)
(***************************************************************************)
EXTENDS Log

CONSTANTS
    BlockSize,          \* blockSizeInBytes
    InodeSize,          \* sizeof(INode)
    IndirectEntries,    \* numLogAddrInBlock = blockSizeInBytes / sizeof(LogAddress)
    CleanStart,         \* cleaningStartThreshold (lfs_main --start)
    CleanEnd            \* cleaningEndThreshold (lfs_main --stop)

ASSUME /\ BlockSize \in Nat \ {0} /\ InodeSize \in Nat \ {0}
       /\ BlockSize % InodeSize = 0        \* no inode straddles two iFile blocks
       /\ IndirectEntries \in Nat \ {0}

IFILE_INUM    == 0
MaxFileBlocks == 4 + IndirectEntries     \* maxFileBlocks
DirectBlocks  == 0 .. 3

\* What an all-zero INode reads as: not in use, and addresses of segment 0.
ZeroINode ==
    [inUse |-> FALSE, inum |-> 0, size |-> 0, nlinks |-> 0,
     direct |-> [b \in DirectBlocks |-> [seg |-> 0, blk |-> 0]],
     indirect |-> [seg |-> 0, blk |-> 0]]

\* The inode FileLayer::InitNewINode builds.
NewINode(inum) ==
    [inUse |-> TRUE, inum |-> inum, size |-> 0, nlinks |-> 1,
     direct |-> [b \in DirectBlocks |-> EmptyAddress], indirect |-> EmptyAddress]

InodesPerBlock == BlockSize \div InodeSize
IFileBlockOf(inum) == ((inum - 1) * InodeSize) \div BlockSize
InumsOfIFileBlock(j) == {j * InodesPerBlock + n : n \in 1 .. InodesPerBlock}

\* The blocks File_Write and File_Read touch for (offset, length): the
\* code's startBlock .. endBlock (one block even when length is 0).
BlockSpan(offset, length) ==
    LET start == offset \div BlockSize
        so    == offset % BlockSize
        rem   == length - (BlockSize - so)
        n     == IF so + length > BlockSize
                 THEN 1 + rem \div BlockSize + (IF rem % BlockSize > 0 THEN 1 ELSE 0)
                 ELSE 1
    IN  start .. start + n - 1

\* A write buffer: whole data blocks, or one inode spliced into the iFile.
NewContents(buf, k, old) ==
    IF buf.kind = "data" THEN buf.blocks[k]
    ELSE LET table == IF old = Zero THEN [i \in InumsOfIFileBlock(k) |-> ZeroINode] ELSE old
         IN  [table EXCEPT ![buf.ino.inum] = buf.ino]

NoIndirect == [j \in 0 .. IndirectEntries - 1 |-> EmptyAddress]

\* FileLayer::ReadIndirectBlocks
IndirectTable(r) == [l |-> r.l, val |-> IF Alive(r.l) THEN r.val ELSE NoIndirect]

ReadIndirectBlocks(L, addr) ==
    IF addr.seg = EMPTY \/ addr.blk = EMPTY
    THEN [l |-> Fail(L, "ReadEmptyIndirect"), val |-> NoIndirect]
    ELSE IndirectTable(Log_Read(L, addr))

\* FileLayer::GetBlockAddress.  Block 4 + IndirectEntries passes the range
\* check and reads past the array; the model takes the garbage it reads to
\* be an address no block has.
IndirectEntry(r, b) ==
    [l |-> r.l, addr |-> IF b - 4 < IndirectEntries THEN r.val[b - 4] ELSE EmptyAddress]

GetBlockAddress(L, ino, b) ==
    IF b \in DirectBlocks THEN [l |-> L, addr |-> ino.direct[b]]
    ELSE IF b > IndirectEntries + 4
    THEN [l |-> Fail(L, "BeyondMaxBlocks"), addr |-> EmptyAddress]
    ELSE IF ino.indirect.seg = EMPTY THEN [l |-> L, addr |-> EmptyAddress]
    ELSE IndirectEntry(ReadIndirectBlocks(L, ino.indirect), b)

\* FileLayer::UpdateINodeBlock with WriteIndirectBlocks.  The indirect
\* block is logged with the fileBlock iNode->indirectBlock.blockNumber: -1
\* (INDIRECT_BLOCK) only while the inode has none, and the old one is not
\* freed.  blockNum is unsigned: INDIRECT_BLOCK indexes the array far out of
\* bounds, which the model takes to kill the process.
SetIndirect(w, ino) == [l |-> w.l, ino |-> [ino EXCEPT !.indirect = w.addr]]

WriteIndirectBlocks(r, ino, b, addr) ==
    SetIndirect(Log_Write(r.l, ino.inum, ino.indirect.blk, [r.val EXCEPT ![b - 4] = addr]), ino)

UpdateINodeBlock(L, ino, b, addr) ==
    IF b \in DirectBlocks THEN [l |-> L, ino |-> [ino EXCEPT !.direct[b] = addr]]
    ELSE IF b - 4 \notin 0 .. IndirectEntries - 1
    THEN [l |-> Fail(L, "IndirectIndexOutOfRange"), ino |-> ino]
    ELSE WriteIndirectBlocks(IF ino.indirect.seg = EMPTY THEN [l |-> L, val |-> NoIndirect]
                             ELSE ReadIndirectBlocks(L, ino.indirect), ino, b, addr)

\* The block loop of FileLayer::File_Read; `data` is the sequence of the
\* blocks read, from the start block on.  ReadAt continues with the
\* address GetBlockAddress returned, Append with the block Log_Read read.
RECURSIVE ReadLoop(_, _, _, _, _), ReadAt(_, _, _, _, _), ReadAppend(_, _, _, _, _)
ReadLoop(L, ino, k, hi, data) ==
    IF k > hi \/ k >= MaxFileBlocks \/ ~Alive(L) THEN [l |-> L, err |-> FALSE, data |-> data]
    ELSE ReadAt(GetBlockAddress(L, ino, k), ino, k, hi, data)

ReadAt(g, ino, k, hi, data) ==
    IF g.addr.seg = EMPTY THEN [l |-> g.l, err |-> TRUE, data |-> data]
    ELSE ReadAppend(Log_Read(g.l, g.addr), ino, k, hi, data)

ReadAppend(r, ino, k, hi, data) == ReadLoop(r.l, ino, k + 1, hi, Append(data, r.val))

\* FileLayer::File_Read once the inode is fetched: the length is clamped
\* to the file (unsigned: not when offset is past the end).
ReadWith(L, ino, offset, length) ==
    IF length = 0 THEN [l |-> L, err |-> FALSE, data |-> <<>>]
    ELSE IF ~ino.inUse THEN [l |-> L, err |-> TRUE, data |-> <<>>]
    ELSE LET len  == IF offset <= ino.size /\ length > ino.size - offset
                     THEN ino.size - offset ELSE length
             span == BlockSpan(offset, len)
         IN  ReadLoop(L, ino, Min(span), Max(span), <<>>)

\* FileLayer::GetINode: inum 0 is the log's in-memory iFile inode; any
\* other is read from the iFile, and a failed read throws.
INodeOf(r, inum) ==
    IF r.err \/ ~Alive(r.l) THEN [l |-> Fail(r.l, "GetINodeFailed"), ino |-> ZeroINode]
    ELSE [l |-> r.l, ino |-> r.data[1][inum]]

GetINode(L, inum) ==
    IF inum > L.isize THEN [l |-> Fail(L, "NoSuchINode"), ino |-> ZeroINode]
    ELSE IF inum = IFILE_INUM THEN [l |-> L, ino |-> L.ifile]
    ELSE INodeOf(ReadWith(L, L.ifile, (inum - 1) * InodeSize, InodeSize), inum)

\* FileLayer::File_Read
ReadINode(g, offset, length) == ReadWith(g.l, g.ino, offset, length)

File_Read(L, inum, offset, length) ==
    IF length = 0 THEN [l |-> L, err |-> FALSE, data |-> <<>>]
    ELSE ReadINode(GetINode(L, inum), offset, length)

\* The block loop of FileLayer::File_Write, FileLayer::File_Write once the
\* inode is fetched, and FileLayer::UpdateIFile, which writes a regular
\* inode through File_Write on the iFile and hands the iFile inode to the
\* log.  One block: look up its address (WriteAt), read and free the old
\* block (ReplaceBlock), log the new one (LogBlock), point the inode at it
\* (PointAt), go on with the next (NextBlock).  After the loop the size
\* grows to the end of the write and the inode is stored (FinishWrite).
GrowTo(ino, end) == IF end > ino.size THEN [ino EXCEPT !.size = end] ELSE ino

RECURSIVE WriteLoop(_, _, _, _, _, _), WriteAt(_, _, _, _, _, _),
          ReplaceBlock(_, _, _, _, _, _, _), LogBlock(_, _, _, _, _, _, _),
          PointAt(_, _, _, _, _, _), NextBlock(_, _, _, _, _),
          WriteWith(_, _, _, _, _, _), FinishWrite(_, _), UpdateIFile(_, _),
          WriteAtNoRead(_, _, _, _, _, _)
\* Seeded fault in File_Write: the old block is freed but not read, so a
\* partial block (an inode of the iFile) is spliced into zeros.
WriteAtNoRead(g, inum, ino, k, hi, buf) ==
    IF g.addr.seg = EMPTY THEN LogBlock(g.l, Zero, inum, ino, k, hi, buf)
    ELSE LogBlock(Log_Free(g.l, g.addr), Zero, inum, ino, k, hi, buf)

WriteLoop(L, inum, ino, k, hi, buf) ==
    IF k > hi \/ k >= MaxFileBlocks \/ ~Alive(L) THEN [l |-> L, ino |-> ino]
    ELSE WriteAt(GetBlockAddress(L, ino, k), inum, ino, k, hi, buf)

WriteAt(g, inum, ino, k, hi, buf) ==
    IF g.addr.seg = EMPTY THEN LogBlock(g.l, Zero, inum, ino, k, hi, buf)
    ELSE ReplaceBlock(Log_Read(g.l, g.addr), g.addr, inum, ino, k, hi, buf)

ReplaceBlock(r, old, inum, ino, k, hi, buf) ==
    LogBlock(Log_Free(r.l, old), r.val, inum, ino, k, hi, buf)

LogBlock(L, oldval, inum, ino, k, hi, buf) ==
    PointAt(Log_Write(L, inum, k, NewContents(buf, k, oldval)), inum, ino, k, hi, buf)

PointAt(w, inum, ino, k, hi, buf) ==
    NextBlock(UpdateINodeBlock(w.l, ino, k, w.addr), inum, k, hi, buf)

NextBlock(u, inum, k, hi, buf) == WriteLoop(u.l, inum, u.ino, k + 1, hi, buf)

WriteWith(L, inum, ino, offset, length, buf) ==
    IF offset > ino.size THEN L
    ELSE LET span == BlockSpan(offset, length)
         IN  FinishWrite(WriteLoop(L, inum, ino, Min(span), Max(span), buf), offset + length)

FinishWrite(w, end) == IF ~Alive(w.l) THEN w.l ELSE UpdateIFile(w.l, GrowTo(w.ino, end))

UpdateIFile(L, toUpdate) ==
    IF toUpdate.inum = IFILE_INUM THEN [L EXCEPT !.ifile = toUpdate]
    ELSE WriteWith(L, IFILE_INUM, L.ifile, (toUpdate.inum - 1) * InodeSize, InodeSize,
                   [kind |-> "inode", ino |-> toUpdate])

\* FileLayer::File_Write
WriteINode(g, inum, offset, length, buf) == WriteWith(g.l, inum, g.ino, offset, length, buf)

File_Write(L, inum, offset, length, buf) ==
    IF length = 0 THEN L ELSE WriteINode(GetINode(L, inum), inum, offset, length, buf)

\* FileLayer::GetUnusedINum: the first inode of the iFile not in use, else
\* one past its end.  Each probe reads the iFile.
RECURSIVE GetUnusedINum(_, _), Probe(_, _)
GetUnusedINum(L, inum) ==
    IF inum > L.isize \/ ~Alive(L) THEN [l |-> L, inum |-> L.isize + 1]
    ELSE Probe(GetINode(L, inum), inum)

Probe(g, inum) ==
    IF ~g.ino.inUse THEN [l |-> g.l, inum |-> inum] ELSE GetUnusedINum(g.l, inum + 1)

\* FileLayer::File_Create (InitNewINode); `inum` of the result is *inumOut.
\* The inode found is fetched again (a new one past the end is not); the
\* iFile grows when it is one past the end.
InitNewINode(c, inum) ==
    IF c.ino.inUse THEN [l |-> c.l, inum |-> inum]
    ELSE [l    |-> UpdateIFile(IF inum = c.l.isize + 1 THEN [c.l EXCEPT !.isize = @ + 1]
                               ELSE c.l, NewINode(inum)),
          inum |-> inum]

CreateINum(u) ==
    InitNewINode(IF u.inum <= u.l.isize THEN GetINode(u.l, u.inum)
                 ELSE [l |-> u.l, ino |-> ZeroINode], u.inum)

File_Create(L) == CreateINum(GetUnusedINum(L, IFILE_INUM + 1))

\* Log_Free of every block the inode points at directly, and of its
\* indirect block (not of the blocks the indirect block points at).
FreeINodeBlocks(L, ino) ==
    LET d == ino.direct
    IN  Log_Free(Log_Free(Log_Free(Log_Free(Log_Free(L, d[0]), d[1]), d[2]), d[3]),
                 ino.indirect)

EmptyBlocks(ino) ==
    [ino EXCEPT !.direct = [b \in DirectBlocks |-> EmptyAddress], !.indirect = EmptyAddress]

\* FileLayer::File_Truncate: read the whole file, drop its blocks, store the
\* emptied inode, then rewrite the first `size` bytes (old data, then
\* zeros) with File_Write.
TruncateWith(r, ino, inum, size) ==
    LET nb == [k \in 0 .. (size \div BlockSize) - 1 |->
                   IF k * BlockSize < ino.size THEN r.data[k + 1] ELSE Zero]
    IN  IF ~Alive(r.l) \/ r.err THEN r.l
        ELSE File_Write(UpdateIFile(FreeINodeBlocks(r.l, ino), [EmptyBlocks(ino) EXCEPT !.size = 0]),
                        inum, 0, size, [kind |-> "data", blocks |-> nb])

TruncateINode(g, inum, size) ==
    TruncateWith(File_Read(g.l, inum, 0, g.ino.size), g.ino, inum, size)

File_Truncate(L, inum, size) == TruncateINode(GetINode(L, inum), inum, size)

\* FileLayer::File_Free (freeing the iFile throws).
FreeINode(g) == UpdateIFile(FreeINodeBlocks(g.l, g.ino), [EmptyBlocks(g.ino) EXCEPT !.inUse = FALSE])

File_Free(L, inum) ==
    IF inum = IFILE_INUM THEN Fail(L, "FreeIFile") ELSE FreeINode(GetINode(L, inum))

\* FileLayer::File_Chmod and File_Chown: only fields the model omits
\* change, but the inode is rewritten through the iFile all the same.
StoreINode(g) == UpdateIFile(g.l, g.ino)

File_SetAttr(L, inum) == StoreINode(GetINode(L, inum))

\* FileLayer::File_AddLink
AddLinkTo(g) == UpdateIFile(g.l, [g.ino EXCEPT !.nlinks = @ + 1])

File_AddLink(L, inum) == AddLinkTo(GetINode(L, inum))

\* FileLayer::File_RemoveLink: the count is stored, then the file is freed
\* when it reached zero.
RemoveLinkFrom(g, inum) ==
    IF g.ino.nlinks - 1 = 0
    THEN File_Free(UpdateIFile(g.l, [g.ino EXCEPT !.nlinks = 0]), inum)
    ELSE UpdateIFile(g.l, [g.ino EXCEPT !.nlinks = @ - 1])

File_RemoveLink(L, inum) == RemoveLinkFrom(GetINode(L, inum), inum)

\* FileLayer::Init: Log::Init, then the iFile's size in inodes from the
\* recovered iFile inode.
CountINodes(L) == [L EXCEPT !.isize = L.ifile.size \div InodeSize]

File_Init(P) == CountINodes(Log_Init(P))

(***************************************************************************)
(* The cleaner.                                                            *)
(***************************************************************************)

\* FileLayer::ComputePolicy is ((1 - u) * age) / (1 + u) with u the number
\* of live blocks; only its sign and order matter, so rows are compared
\* exactly by cross-multiplying the positive denominators.
PolicyIsZero(row) == row.age = 0 \/ row.live = 1
PolicyLess(r1, r2) ==
    (1 - r1.live) * r1.age * (1 + r2.live) < (1 - r2.live) * r2.age * (1 + r1.live)

\* The order in which CleanLog takes segments: std::sort of the tuples
\* (policy, segment) ascending, consumed from the back.
CleaningOrder(table) ==
    LET S == {s \in Segments : ~PolicyIsZero(table[s])}
        Later(s1, s2) == \/ PolicyLess(table[s2], table[s1])
                         \/ ~PolicyLess(table[s1], table[s2]) /\ s1 > s2
    IN  SetToSortSeq(S, Later)

\* One slot of FileLayer::CleanSegment: a block whose inode (or indirect
\* pointer) still points at it is logged again and the inode updated.
\* CurrentAddress is where the inode points for the slot's fileBlock;
\* Relocate logs the copy, Repoint stores the inode that names it.
CurrentAddress(g, fb) ==
    IF fb >= 0 THEN GetBlockAddress(g.l, g.ino, fb)
    ELSE IF fb = INDIRECT_BLOCK THEN [l |-> g.l, addr |-> g.ino.indirect]
    ELSE [l |-> Fail(g.l, "InvalidFileBlock"), addr |-> EmptyAddress]

Repoint(u) == UpdateIFile(u.l, u.ino)

StoreAddress(w, ino, fb) == UpdateINodeBlock(w.l, ino, fb, w.addr)

Relocate(cur, ino, seg, k) ==
    LET e == seg.sum[k]
    IN  IF cur.addr # [seg |-> seg.seg, blk |-> k] \/ ~Alive(cur.l) THEN cur.l
        ELSE Repoint(StoreAddress(Log_Write(cur.l, e.inum, e.fb, seg.data[k]), ino, e.fb))

CleanINodeBlock(g, seg, k) == Relocate(CurrentAddress(g, seg.sum[k].fb), g.ino, seg, k)

CleanBlock(L, seg, k) ==
    IF seg.sum[k].inum = NO_INUM THEN L
    ELSE CleanINodeBlock(GetINode(L, seg.sum[k].inum), seg, k)

RECURSIVE CleanSegment(_, _, _)
CleanSegment(L, seg, k) ==
    IF k > SegmentSize - 1 \/ ~Alive(L) THEN L
    ELSE CleanSegment(CleanBlock(L, seg, k), seg, k + 1)

\* The loop of FileLayer::CleanLog: clean, erase and uncache segments in
\* policy order until cleanSegments reaches the end threshold.
RECURSIVE CleanLoop(_, _, _), EraseCleaned(_, _, _, _)
CleanLoop(L, order, cleanSegments) ==
    IF order = <<>> \/ cleanSegments >= CleanEnd \/ ~Alive(L) THEN L
    ELSE EraseCleaned(CleanSegment(L, ReadSegment(L, Head(order)), 1),
                      ReadSegment(L, Head(order)).seg, order, cleanSegments)

EraseCleaned(L, s, order, cleanSegments) ==
    IF ~Alive(L) THEN L
    ELSE CleanLoop(InvalidateSegment(EraseSegment(L, s), s), Tail(order), cleanSegments + 1)

\* FileLayer::RunCleaner: count clean segments in the table on flash and
\* clean when there are no more than the start threshold.
RunCleaner(L) ==
    LET table == ReadSegmentUsageTable(L)
        clean == Cardinality({s \in Segments : table[s].live = 0})
    IN  IF clean > CleanStart THEN L
        ELSE CleanLoop(L, CleaningOrder(table), clean)
=============================================================================
