-------------------------------- MODULE Log --------------------------------
(***************************************************************************)
(* The log layer, src/layers/log.hpp, as pure operators over the state of  *)
(* the file system.  That state is one record L whose fields are the       *)
(* members of class Log and what flash holds:                              *)
(*   tail, tsum, tdata   tailSegment: its number, summary and data         *)
(*   partial             recoveredWithPartialSegment                       *)
(*   cache               segmentCache (see SegmentCache)                   *)
(*   usage               segmentUsageTable, the in-memory copy             *)
(*   ifile               iFileINode                                        *)
(*   ckpt                checkpoint.iFileINode (the rest is derived)       *)
(*   since               writesSinceLastCheckpoint                         *)
(*   flash, prog         each log segment on flash, and whether it has     *)
(*                       been programmed since its last erase             *)
(*   usageFlash          the usage table on flash                         *)
(*   ckptFlash           the newest valid checkpoint on flash             *)
(*   clock               time(0): a counter that advances at every seal    *)
(*   fault               "none", or the throw / hard error the code hit   *)
(*   overwrote           ghost: a segment was programmed without an erase  *)
(* A handler of the file layer composes these operators, so one of its     *)
(* steps performs every log call the handler makes, in the code's order.   *)
(* An operator that returns a value returns a record [l |-> L', ...].      *)
(* Once L.fault is set the process is dead: every operator leaves L alone. *)
(***************************************************************************)
EXTENDS Integers, FiniteSets, Sequences, SequencesExt, SegmentCache

CONSTANTS
    SegmentSize,        \* flashData.segmentSize, in blocks (block 0 = summary)
    FirstSegment,       \* checkpointSegment + 1, the first log segment
    FlashSize,          \* flashData.flashSize, in segments
    CheckpointInterval, \* checkpointInterval (lfs_main --interval)
    LiveMod,            \* 2^32 / block size: liveBytes is an unsigned counter
    Zero                \* the contents of a zeroed or erased block

ASSUME /\ SegmentSize \in Nat /\ SegmentSize >= 2
       /\ FirstSegment \in Nat \ {0} /\ FlashSize > FirstSegment
       /\ CheckpointInterval \in Nat \ {0} /\ LiveMod \in Nat \ {0}

Segments == FirstSegment .. FlashSize - 1
Slots    == 1 .. SegmentSize - 1          \* data blocks of a segment

\* Constants of src/data_structures/segment.hpp, inode.hpp, flash_data.hpp.
\* UINT_MAX (EMPTY_DIRECT_BLOCK_ADDRESS) is -1 here: it compares like a
\* number no valid one reaches.
NO_INUM        == -1
INDIRECT_BLOCK == -1
EMPTY          == -1
FLASH_FULL     == -9
EmptyAddress   == [seg |-> EMPTY, blk |-> EMPTY]
DeadEntry      == [inum |-> NO_INUM, fb |-> NO_INUM]

\* SegmentFactory::Build: a new in-memory segment, every summary slot
\* NO_INUM and the data zeroed.
BuildSummary == [k \in Slots |-> DeadEntry]
BuildData    == [k \in Slots |-> Zero]

\* An erased segment reads as all ones: every summary slot is NO_INUM and
\* the summary's segmentNumber is UINT_MAX.
ErasedSegment ==
    [seg |-> EMPTY, sum |-> [k \in Slots |-> DeadEntry], data |-> [k \in Slots |-> Zero]]

Alive(L) == L.fault = "none"
Fail(L, why) == IF Alive(L) THEN [L EXCEPT !.fault = why] ELSE L

\* Log::ValidLogAddress: block 0, the summary, passes the check.
ValidLogAddress(a) == a.seg \in 0 .. FlashSize - 1 /\ a.blk \in 0 .. SegmentSize - 1

TailSegment(L) == [seg |-> L.tail, sum |-> L.tsum, data |-> L.tdata]

\* Log::getSegment: the cache first, then the tail, then flash, whose copy
\* putEntry caches.
getSegment(L, s) ==
    IF containsEntry(L.cache, s)
    THEN LET q == getEntry(L.cache, s)
         IN  [l |-> [L EXCEPT !.cache = q], seg |-> Head(q)]
    ELSE IF s = L.tail
    THEN [l |-> L, seg |-> TailSegment(L)]
    ELSE IF s \notin Segments
    THEN [l |-> Fail(L, "ReadOutsideLog"), seg |-> ErasedSegment]
    ELSE LET e == L.flash[s]
         IN  IF containsEntry(L.cache, e.seg)
             THEN [l |-> Fail(L, "CacheDuplicate"), seg |-> e]
             ELSE [l |-> [L EXCEPT !.cache = putEntry(@, e)], seg |-> e]

\* Log::Log_Read: returns the block's contents; reading a dead block throws.
\* ReadSlot finishes it on the segment getSegment returned.
ReadSlot(g, k) ==
    IF g.seg.sum[k].inum = NO_INUM
    THEN [l |-> Fail(g.l, "DeadBlockRead"), val |-> Zero]
    ELSE [l |-> g.l, val |-> g.seg.data[k]]

\* An invalid address is an error return of the code and block 0 copies
\* from before the segment's data buffer; no pointer the model follows is
\* either, and both are taken to end the run.
Log_Read(L, a) ==
    IF ~Alive(L) THEN [l |-> L, val |-> Zero]
    ELSE IF ~ValidLogAddress(a) THEN [l |-> Fail(L, "InvalidAddress"), val |-> Zero]
    ELSE IF a.blk = 0 THEN [l |-> Fail(L, "ReadBeforeData"), val |-> Zero]
    ELSE ReadSlot(getSegment(L, a.seg), a.blk)

\* Log::GetCleanSegment: the lowest log segment whose in-memory row has no
\* live bytes; it is neither erased nor taken out of the cache here.
GetCleanSegment(L) ==
    LET clean == {s \in Segments : L.usage[s].live = 0}
    IN  IF clean = {} THEN FLASH_FULL ELSE Min(clean)

\* Log::eraseSegment (flash only).
eraseSegment(L, s) == [L EXCEPT !.flash[s] = ErasedSegment, !.prog[s] = FALSE]

\* Seeded fault in writeSegment: the live-block recount stops one slot
\* short (s < segmentSize - 1).
writeSegmentSkipsLastSlot(L) ==
    LET s    == L.tail
        live == Cardinality({k \in 1 .. SegmentSize - 2 : L.tsum[k].inum # NO_INUM})
        u    == [L.usage EXCEPT ![s] = [live |-> live, age |-> L.clock + 1]]
    IN  [L EXCEPT !.flash[s]  = TailSegment(L),
                  !.overwrote = @ \/ L.prog[s],
                  !.prog[s]   = TRUE,
                  !.ckpt      = L.ifile,
                  !.since     = @ + 1,
                  !.usage     = u,
                  !.usageFlash = u,
                  !.clock     = @ + 1]

\* Log::writeSegment: program the tail, copy the in-memory iFile inode into
\* the checkpoint, recount the tail's live blocks, stamp its age, and
\* persist the whole usage table (WriteSegmentUsageTable).
writeSegment(L) ==
    LET s    == L.tail
        live == Cardinality({k \in Slots : L.tsum[k].inum # NO_INUM})
        u    == [L.usage EXCEPT ![s] = [live |-> live, age |-> L.clock + 1]]
    IN  [L EXCEPT !.flash[s]  = TailSegment(L),
                  !.overwrote = @ \/ L.prog[s],
                  !.prog[s]   = TRUE,
                  !.ckpt      = L.ifile,
                  !.since     = @ + 1,
                  !.usage     = u,
                  !.usageFlash = u,
                  !.clock     = @ + 1]

\* Log::CheckpointNow: lastSegmentWritten is the tail when it was recovered
\* partial, and otherwise the segment numbered one below the tail.
CheckpointNow(L) ==
    [L EXCEPT !.ckptFlash = [ifile |-> L.ckpt,
                             last  |-> IF L.partial THEN L.tail ELSE L.tail - 1],
              !.since = 0]

\* The sealing branch of Log::Log_Write, taken when the last slot is
\* filled, in the code's order: a recovered partial tail is erased first
\* (its old copy is on flash), the tail is written, put in the cache (a
\* duplicate throws), replaced by a clean segment, and a checkpoint is
\* taken when enough segments were written since the last one.
ErasePartialTail(L) ==
    IF L.partial THEN [eraseSegment(L, L.tail) EXCEPT !.partial = FALSE] ELSE L

CacheWrittenTail(L) ==
    IF containsEntry(L.cache, L.tail) THEN Fail(L, "CacheDuplicate")
    ELSE [L EXCEPT !.cache = putEntry(@, TailSegment(L))]

NewTail(L) ==
    IF ~Alive(L) THEN L
    ELSE [L EXCEPT !.tail = GetCleanSegment(L),
                   !.tsum = BuildSummary,
                   !.tdata = BuildData]

CheckpointIfDue(L) ==
    IF Alive(L) /\ L.since >= CheckpointInterval THEN CheckpointNow(L) ELSE L

SealTail(L) == CheckpointIfDue(NewTail(CacheWrittenTail(writeSegment(ErasePartialTail(L)))))

\* Log::Log_Write: put the block in the lowest free slot of the tail, and
\* seal the tail when that was its last slot.  A full flash is an error
\* return the file system never recovers from, so it ends the run like a
\* throw.
SealIfFull(L, k) == IF k = SegmentSize - 1 THEN SealTail(L) ELSE L

\* Seeded fault in Log_Write: inum and fileBlock swapped in the summary.
WriteSlotSwapped(L, k, inum, fileBlock, buffer) ==
    [l    |-> SealIfFull([L EXCEPT !.tsum[k] = [inum |-> fileBlock, fb |-> inum],
                                   !.tdata[k] = buffer], k),
     addr |-> [seg |-> L.tail, blk |-> k]]

WriteSlot(L, k, inum, fileBlock, buffer) ==
    [l    |-> SealIfFull([L EXCEPT !.tsum[k] = [inum |-> inum, fb |-> fileBlock],
                                   !.tdata[k] = buffer], k),
     addr |-> [seg |-> L.tail, blk |-> k]]

Log_Write(L, inum, fileBlock, buffer) ==
    IF ~Alive(L) THEN [l |-> L, addr |-> EmptyAddress]
    ELSE IF L.tail \notin 0 .. FlashSize - 1
    THEN [l |-> Fail(L, "FlashFull"), addr |-> EmptyAddress]
    ELSE LET free == {k \in Slots : L.tsum[k].inum = NO_INUM}
         IN  IF free = {}
             THEN [l |-> Fail(L, "NoEmptyBlock"), addr |-> EmptyAddress]
             ELSE WriteSlot(L, Min(free), inum, fileBlock, buffer)

\* Log::Log_Free: a block of the tail is marked dead in its summary; the
\* owning row loses a block, unsigned, whatever it held.
\* Seeded fault in Log_Free: liveBytesInSegment taken as a signed count.
Log_FreeSigned(L, a) ==
    LET L1 == IF a.seg = L.tail THEN [L EXCEPT !.tsum[a.blk] = DeadEntry] ELSE L
    IN  IF ~Alive(L) THEN L
        ELSE IF a.seg = EMPTY THEN L1
        ELSE [L1 EXCEPT !.usage[a.seg].live = @ - 1]

Log_Free(L, a) ==
    LET L1 == IF a.seg = L.tail THEN [L EXCEPT !.tsum[a.blk] = DeadEntry] ELSE L
    IN  IF ~Alive(L) THEN L
        ELSE IF a.seg = EMPTY THEN L1
        ELSE [L1 EXCEPT !.usage[a.seg].live = (@ - 1) % LiveMod]

\* Log::EraseSegment: erase, zero the row, persist the table.  A number
\* outside the log (UINT_MAX, read from an erased summary) makes the
\* flash erase fail: an error return that changes nothing.
EraseSegment(L, s) ==
    IF s \notin Segments \/ ~Alive(L) THEN L
    ELSE LET L1 == [eraseSegment(L, s) EXCEPT !.usage[s] = [live |-> 0, age |-> 0]]
         IN  [L1 EXCEPT !.usageFlash = L1.usage]

\* Log::InvalidateSegment
InvalidateSegment(L, s) == [L EXCEPT !.cache = invalidateEntry(@, s)]

\* Log::ReadSegment: straight from flash, bypassing cache and tail.
ReadSegment(L, s) == L.flash[s]

\* Log::ReadSegmentUsageTable: the table as flash holds it.
ReadSegmentUsageTable(L) == L.usageFlash
\* Log::Init with RecoverCheckpoint, on what flash holds (P's fields
\* flash, prog, usageFlash, ckptFlash, clock; the others are what the
\* process held before and are all replaced).  The newest checkpoint gives
\* the iFile inode and lastSegmentWritten; the usage table is read from
\* flash; the segment lastSegmentWritten is read as the tail, and replaced
\* by a clean one when its last slot is written, otherwise kept as a
\* recovered partial segment.  A checkpoint naming a segment outside the
\* log, or an erased one, has readSegment parse a summary that is not one
\* (an erased summary's numberOfBlocks drives its memcpy lengths): the
\* model stops there.
RecoverTail(L, g) ==
    IF g.seg \notin Segments THEN Fail(L, "RecoverErasedSegment")
    ELSE IF g.sum[SegmentSize - 1].inum # NO_INUM
    THEN [L EXCEPT !.tail  = GetCleanSegment(L),
                   !.tsum  = BuildSummary,
                   !.tdata = BuildData]
    ELSE [L EXCEPT !.tail = g.seg, !.tsum = g.sum, !.tdata = g.data, !.partial = TRUE]

RecoverCheckpoint(L) ==
    IF L.ckptFlash.last \notin Segments THEN Fail(L, "RecoverOutsideLog")
    ELSE RecoverTail(L, L.flash[L.ckptFlash.last])

Log_Init(P) ==
    RecoverCheckpoint([P EXCEPT !.usage = P.usageFlash, !.ifile = P.ckptFlash.ifile,
                                !.ckpt = P.ckptFlash.ifile, !.cache = <<>>, !.since = 0,
                                !.partial = FALSE, !.fault = "none"])
=============================================================================
