# TLA+ models of lfs_macos

These modules model the log-structured file system in `src/`. TLC checks them.

The file system has these parts:

- a **log layer** (`src/layers/log.hpp`). It keeps an in-memory tail segment, a segment usage table, an LRU segment cache and a checkpoint on simulated flash.
- a **file layer** (`src/layers/file.hpp`). It stores inodes in the iFile, a file kept in the log itself, and addresses blocks through four direct pointers and one indirect block. It also contains the segment **cleaner**.
- a **directory layer** (`src/layers/directory.hpp`, `src/data_structures/directory_list.hpp`). It keeps each directory as a file holding a `DirectoryList`, resolves paths from the root, and turns each FUSE request into file-layer calls.
- the **FUSE front end** (`fuse.hpp`, `fuse_handlers.hpp`, `lfs_main.cpp`), which passes each callback to the directory layer.
- the formatter **mklfs**, which writes the initial flash image.

The file layer calls the log for each block it reads, writes or frees.

- Writing the last slot of the tail **seals** it:
  - a recovered partial segment is erased first;
  - the segment is written;
  - the usage row is recounted and the table saved;
  - the segment is put in the cache;
  - the lowest segment whose usage row is zero becomes the new tail;
  - a checkpoint is taken every `CheckpointInterval` seals.
- The directory layer calls `RunCleaner` at the start of each of its operations.
  - When no more than `CleanStart` segments are clean, the cleaner ranks segments by `ComputePolicy`.
  - It reads each chosen segment from flash and re-logs every block whose owner, named by the segment summary, still points at it.
  - It then erases and uncaches the segment.

`lfs_main` always runs FUSE single-threaded (`-s`), so calls never overlap. The interleavings that matter are those between the cleaner and the calls, and between the steps inside one call.

## Modules

| module | models | state / actions |
|---|---|---|
| `SegmentCache` | `segment_cache.hpp` | the cache queue as a sequence of segment copies, most recently used first; `getEntry`, `putEntry`, `invalidateEntry` |
| `Log` | `log.hpp` | pure operators on a state record `L` holding `Log`'s members and the flash contents: `Log_Read`, `Log_Write` with the whole sealing branch, `Log_Free`, `EraseSegment`, `InvalidateSegment`, `ReadSegment`, `GetCleanSegment`, `writeSegment`, `CheckpointNow`. `BuildSummary` and `BuildData` are `SegmentFactory::Build`'s fresh segment (every summary slot `NO_INUM`, data zeroed), the tail `NewTail` and `RecoverTail` install |
| `File` | `file.hpp` | the file layer's operations and the cleaner, as operators on the same record |
| `FileLayer` | the file system as its callers see it | `VARIABLES` are the fields of the record; each action calls one `File_*` operation (`Clean` calls `RunCleaner`); the initial state is what `mklfs` writes, recovered by `Log::Init`; the properties |
| `FileAbstract` | the promise of `IFileLayer` | a table of files, each with blocks and a link count, and one action per mutating call |
| `FileLayer` (restarts) | `Log::Init`, `~Log` | `Remount` mounts any flash state with `File_Init` (`Log::Init` then the iFile size); `Crash` remounts the flash as it is between two calls, `CrashInSeal` inside `Log_Write` after the erase of a recovered partial tail and before `writeSegment`, `Unmount` after `~Log`'s `CheckpointNow`. `ckptFiles` is a history variable: the files a mount of the checkpoint on flash shows. `SpecRestarts` adds these steps to `Spec`, at most `MaxRestarts` times |
| `MCFileLayer` | the TLC instance | block contents as model values |
| `Directory` | `directory.hpp`, `directory_list.hpp` | the directory layer over the file layer's interface: an inode table (in use, type, link count), the `DirectoryList` of each directory as a sequence of entries, the iFile size, a fault. One action per mutating FUSE request (`Mkdir`, `Create`, `Symlink`, `Link`, `Unlink`, `Rmdir`, `Rename`), each the whole `Directory_*` handler |
| `MCDirectory` | the TLC instance | two file names as model values |
| `Access` | `fuse.hpp` `Fuse_Access`, `directory.hpp` `Directory_CheckPermissions` | one access(2) request on inputs chosen in `Init`: the process's uid and gid, the inode's owner, group and nine permission bits, whether the path exists, and the mask. `Access` computes the answer as the code does, with the code's three tests in order. `AccessIsPosix` compares that answer with a reference definition of the POSIX check (spec §4.5) |

### How the operators are built

An operator returns the new state record, with its result when it has one, for example `[l |-> L', val |-> v]`. A handler of the code is the composition of the operators for the calls it makes, in the code's order. One TLC step therefore performs the whole handler, including every seal, checkpoint and iFile update it triggers.

A `throw`, or an error return the system does not recover from, sets `L.fault`. After that:

- every later operator leaves `L` alone;
- no action is enabled, so TLC reports the state as a deadlock.

Loops of the code are `RECURSIVE` operators. Each intermediate result is passed to a named helper as a parameter, not bound by `LET`, so TLC evaluates it only once.

### The directory layer and its callers

`Directory` composes the directory layer with the file layer at the file layer's interface. The file-layer calls it makes are operators on an inode table: `File_Create` (`InitNewINode`, numbering through `GetUnusedINum`), `File_AddLink`, `File_RemoveLink`, `File_Free` and `File_GetFileType`, with `GetINode`'s throw for an unknown inum. Directory contents are what `WriteDirectory` last wrote. The block layout beneath is the `FileLayer` model's business, and its refinement check shows that layout keeps every file as written. So `Directory` abstracts the layout away, and leaves out `RunCleaner`, which changes no file.

`DirectoryList` keeps the code's behaviour:

- the constructor gives "." and ".." both the directory's own inum;
- `AddFile` appends without a duplicate check;
- `GetINum` and `ContainsFile` take the first match;
- `RemoveFile` drops every entry of the name into a list one shorter, leaving zeroed entries when there were duplicates.

`GetINum` (path resolution) is a `RECURSIVE` walk that fails on a component that is not a directory and throws on an unknown inum. Each handler keeps the code's order of lookups, reads, writes and link-count changes, including `CreateFile` allocating the inode before it finds the parent.

The callers are the kernel's FUSE requests. The kernel looks a path up before it sends a request, so each action is guarded as POSIX guards it:

- `Mkdir`, `Create` and `Symlink` need a fresh name in an existing directory and a free inode number below `MaxINum`;
- `Link` needs an existing regular file and a fresh name. Hard links to symlinks are left out, because what macOS sends for them is not settled;
- `Unlink` needs an existing non-directory;
- `Rmdir` needs an existing directory;
- `Rename` needs an existing source and a destination whose parent is a directory, with neither path inside the other. The destination is new, or, when `RenameOverExisting` is set, an existing name of another inode of the same kind.

### Crashes of the directory layer

The file layer makes its files durable at a checkpoint, which a seal inside any `Log_Write` may take once `CheckpointInterval` seals have passed. Which write fills the tail depends on the block layout, which `Directory` abstracts away. So a checkpoint may fall:

- at the start of a call, including during `RunCleaner`;
- after any one of the call's file-layer writes.

These writes are `InitNewINode`, `File_AddLink`, the two writes of `File_RemoveLink`, `File_Free` and `WriteDirectory`. `Wrote` records the files after each of them. `Commit` lets `durable` move to any of those points, or stay. `Crash` then remounts `durable`, reading `iFileSizeInINodes` back from it. `SpecCrash` adds at most `MaxRestarts` crashes to `Spec`.

This takes the file layer to keep its promise, that a remount shows the checkpointed files. Whether it does is `FileLayer`'s question; see `crash_usage` and `seal_crash`. A new inode has no blocks and `fileSize` 0. `File_Read` of it clamps the length to 0 but still reads block 0, which is empty, and fails. So `ReadDirectory` of a directory created and not yet written returns NULL. `Readable` says so through the inode's `sized` flag, which `WriteDirectory` sets. Lookups under such a directory, creates in it and rmdir of it all fail.

### The refinement mapping

The variable `files` is derived in every step from the concrete state: it is what `File_Read` and `GetINode` return, computed without their cache side effects. `FileLayer` instantiates `FileAbstract` with it, and `FileLayerImplementsAbstract` checks that:

- every call changes the files exactly as the interface allows;
- every cleaner run, seal and cache operation changes nothing a caller can read.

## Runs

| run | cfg | expect | what it shows |
|---|---|---|---|
| main | `MCFileLayer.cfg` | pass | With a one-entry cache, all sequences of five calls keep summaries naming the owners of live blocks and usage rows covering the live blocks, and refine `FileAbstract`. |
| stale_cache | `MCStaleCache.cfg` | violation | With a two-entry cache, a segment still cached is reused as the tail, and reads return its old copy. A created inode vanishes after Write, Create, Truncate. |
| cleaner_tail | `MCCleanerTail.cfg` | violation | The flash usage row of the current tail is stale, so the cleaner chooses the tail. It relocates the old flash copy and loses the root directory. |
| erase_before_write | `MCEraseBeforeWrite.cfg` | violation | A segment whose blocks were all freed is reused as the tail and programmed without an erase. This breaks the flash contract of spec §6. |
| unmount_remount | `MCUnmount.cfg` | violation | `CleanRemountKeepsFiles`: `~Log` checkpoints without sealing the tail. Create, then unmount and remount: the created inode is gone (spec §8, law 7, says the files survive). |
| seal_crash | `MCSealCrash.cfg` | violation | `SealCrashRecoversCheckpoint`: the first seal after mounting `mklfs`'s partial segment erases it before writing it. A crash in that window erases the iFile and root blocks the checkpoint names, and the mount fails (the question the comment at `log.hpp:262` asks). |
| crash_usage | `MCCrashUsage.cfg` | violation | `UsageCoversLive` after a crash: `writeSegment` saves the usage table at every seal, frees included, while the checkpoint is older. After Create, Truncate, Write and a crash, a row counts one block where the recovered inodes use two. |
| indirect_summary | `MCIndirect.cfg` | violation | `SummariesNameOwners` with files reaching the indirect block: after Truncate, the Write that rewrites the indirect block logs it under the old block number (`file.hpp:705`), not `INDIRECT_BLOCK`. |
| directory | `MCDirectory.cfg` | pass | All sequences of six guarded directory requests keep link counts, entries and renames consistent (below). |
| rename_over_existing | `MCRenameOver.cfg` | violation | `RenameMovesEntry` when rename(2) replaces an existing name: `AddFile` appends a second entry of the name, and the destination still resolves to the old inode. Mkdir /n1, Mkdir /n2, Rename /n1 /n2. |
| link_crash | `MCLinkCrash.cfg` | violation | `NoDanglingEntries` with one crash: `Directory_Link` writes the new entry before `File_AddLink`. Create /n1, Link /n1 /n2 with a checkpoint between its two writes, crash, Unlink /n1: the inode is freed while /n2 still names it. |
| access_mask | `MCAccess.cfg` | violation | `AccessIsPosix`: `Directory_CheckPermissions` sets `ret` once per requested flag, and each test overwrites the last. The owner of a file with mode 0100 is granted `access(W_OK\|X_OK)`. Every mode, mask and ownership class is enumerated. |

Properties of the main run:

- `TypeOK`.
- `SummariesNameOwners`: every block an inode or an indirect block points at lies in a slot whose summary names that owner and file block. The cleaner depends on this.
- `UsageCoversLive`: no usage row outside the tail counts fewer blocks than are live in its segment. An undercount lets `GetCleanSegment` hand out live data. The crash_usage run checks the same property across a crash.
- `FileLayerImplementsAbstract`: the refinement described above.

Properties of the directory run:

- `TypeOK`, which includes the iFile size staying within `MaxINum`.
- `LinkCountsMatchEntries`: every inode in use other than the root has as many links as there are entries naming it, other than "." and "..".
- `NoDanglingEntries`: no entry names an inode that is not in use.
- `RenameMovesEntry`: after a rename the destination resolves to the source's inode, and the source name resolves to nothing.

Each property has a mutant in `PROJECT.json`. It is a plausible slip in the code that TLC catches:

- a signed live count;
- swapped summary fields;
- a recount that stops one slot short;
- `File_Write` not reading the old block;
- `InitNewINode` growing the iFile on every create;
- `Directory_Link` without `File_AddLink`;
- `Directory_Unlink` freeing every inode, as it does symlinks;
- `Directory_Rename` reading the destination directory before writing the source directory.

## Bounds

- Segments hold 3 data blocks. There are 6 log segments (5 in `MCCleanerTail`).
- A block is 2 inodes.
- Indirect blocks hold 2 addresses.
- There are 2 inode numbers and 2 data blocks per file, and 2 values.
- A run makes at most 5 calls (`MaxOps`), with the cleaner at most once between two calls.

Under these bounds a few calls:

- seal the tail, including the partial segment `mklfs` leaves;
- free whole segments and reuse them as the tail;
- reach a checkpoint, since `CheckpointInterval` is 2;
- grow the iFile and fill the cache.

- The restart runs, `link_crash` included, allow one remount (`MaxRestarts = 1`). The indirect run has flash of 10 segments, one-address indirect blocks, five blocks per file and three calls.
- The directory runs have two names, paths of depth two, inode numbers up to 4 and six requests. That is enough for a directory inside a directory, a hard link, a rename across directories, the reuse of a freed inode number and a non-empty rmdir.

The access run enumerates every one of the 512 modes and 8 masks, for a process that is root or user 1 and inodes of owner 1 or 2 and group 1 or 2. Every class (owner, group, other) and root are met.

The violations appear after three calls, or after five calls and a cleaner run (cleaner_tail).

The main run never actually cleans. Whenever the cleaner reaches a segment under these bounds, the cleaner_tail bug shows first. Indirect blocks (reached only by the indirect_summary instance) and a full flash are also not reached; the hazards in `PROJECT.json` say so.

## Fairness

None is assumed, and none is justified. Every property is a safety or refinement property. No liveness property is checked, because nothing in the code must happen on its own: every step is a caller's call. `Done` stutters once the call bound is reached. A deadlock therefore means the process died, which is a `throw` or a fatal error.

## Not modelled

- At the directory level: the contents of regular files and symlinks. `Directory_Read`, `Directory_Write`, `Directory_Truncate`, `Readlink`, `Readdir`, `GetAttr`, `Chmod`, `Chown`, `CheckPermissions` and `Statfs` change no directory state. Truncating `/.ifile` is not modelled.
- A torn `WriteDirectory`, with a crash between the blocks of one list. The lists here fit one block.
- A crash between two calls with a passing property. No rule for what recovery from a partial tail must return is stated anywhere, and the recovered state matches neither the checkpoint nor the state before the crash. It is listed as a hazard (`log.hpp:229`).
- FUSE callbacks other than access, argument parsing and printing. The FUSE shim passes each callback through to one `Directory_*` call. The kernel's path checks are the directory actions' guards.
- Whose ids the access check uses. `Directory_CheckPermissions` takes `getuid()` and `getgid()` of the file system process, not the ids of the request (`fuse_get_context`). So every caller is judged as the user who mounted the file system. `Access` has only that one process, so this is a hazard in `PROJECT.json` and not a property.
- `CheckpointNamesSealedSegment`. It checked with the main bounds that the checkpoint names a sealed segment. TLC found it violated after three calls: after a tail reuse, `CheckpointNow` (`log.hpp:604`) records `tail - 1`, which is segment 0. The run was retired to make room for the access run. The hazard stays listed.
- `lfsck`, an offline checker that only reads the flash and prints a count; it changes no state. Its checks look only at the root directory's entries and at direct blocks. So it would count every file in a subdirectory as an orphan, and every overwritten slot as a wrong summary.
- `rm /.ifile`. The root lists `.ifile`, and unlinking it drops the iFile to zero links, so `File_Free(0)` throws. This was seen in one step with `.ifile` among the names; no run keeps it.
- The flash simulator, except its erase-before-write contract.
- That a usage row never overcounts. With files that reach the indirect block (`IndirectEntries = 1`, five blocks), Truncate then Free leaves rows counting blocks no inode points at. `File_Free` and `File_Truncate` free the indirect block but not the data blocks behind it (`file.hpp:351`, `394`). That instance is too slow for every call sequence, and the main run never reaches an indirect block, so it is a hazard and not a run.
- That the cache never holds a stale copy or the tail. With the main run's one-entry cache it cannot, and with two entries the stale_cache bug appears first, so no passing run checks it.
- That names in a directory stay unique. Only rename onto an existing name makes a duplicate; rename_over_existing shows it.
- Times, owners and modes of inodes. `File_Chmod` and `File_Chown` are modelled as `SetAttr`, which rewrites the inode unchanged.
- File sizes that are not whole blocks.
