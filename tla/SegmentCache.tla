---------------------------- MODULE SegmentCache ----------------------------
(***************************************************************************)
(* The LRU cache of in-memory segments, src/data_structures/               *)
(* segment_cache.hpp.  The std::vector `queue` is a sequence whose head is *)
(* the most recently used entry.  An entry is a whole segment: its number  *)
(* `seg` (summary.segmentNumber) and the summary and data it held when it  *)
(* was put, so a cached copy can differ from what flash holds later.       *)
(* The operators are pure: each returns the new queue.  A `throw` of the   *)
(* class is the caller's business: the guards it needs are exported as     *)
(* operators (containsEntry).                                              *)
(***************************************************************************)
EXTENDS Naturals, Sequences, SequencesExt

CONSTANT CacheSize            \* cache_size, set from --cache (lfs_main default 4)

ASSUME CacheSize \in Nat \ {0}

\* SegmentCache::containsEntry
containsEntry(queue, segmentNumber) ==
    \E i \in 1..Len(queue) : queue[i].seg = segmentNumber

\* Position of the entry for segmentNumber (callers check containsEntry).
EntryIndex(queue, segmentNumber) ==
    CHOOSE i \in 1..Len(queue) : queue[i].seg = segmentNumber

\* SegmentCache::getEntry: move the entry to the front; it is then Head.
getEntry(queue, segmentNumber) ==
    LET i == EntryIndex(queue, segmentNumber)
    IN  <<queue[i]>> \o RemoveAt(queue, i)

\* SegmentCache::putEntry without its duplicate check (the caller decides
\* on the throw): when full, the back (least recently used) is destroyed.
putEntry(queue, segment) ==
    IF Len(queue) = CacheSize
    THEN <<segment>> \o Front(queue)
    ELSE <<segment>> \o queue

\* SegmentCache::invalidateEntry
invalidateEntry(queue, segmentNumber) ==
    SelectSeq(queue, LAMBDA e : e.seg # segmentNumber)

=============================================================================
