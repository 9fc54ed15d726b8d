----------------------------- MODULE TierOneLRU -----------------------------
(***************************************************************************)
(* The Tier 1 accountant of the shim, lruCache in shim-go/lru.go, with the *)
(* volume it guards: the cache files, whatever else shares the volume, and *)
(* the statfs call behind the disk-free watermark (main.go).               *)
(*                                                                         *)
(* An operation holds lruCache.mu from its first to its last statement, so *)
(* it excludes the other operations; it does not exclude the rest of the   *)
(* machine.  The eviction loop is therefore a step per iteration: between  *)
(* two iterations the free space may change under it, statfs may fail, and *)
(* os.Remove may fail.  The process may be killed and restarted anywhere.  *)
(*                                                                         *)
(* A caller writes a cache file and then calls Record.  Here these are one *)
(* step; XorbServe interleaves them with the other requests.               *)
(***************************************************************************)
EXTENDS LruAccount, FiniteSets

CONSTANTS Keys,         \* cache file names, one per (hash, range)
          Sizes,        \* the lengths a cached body may have
          MaxBytes,     \* the byte budget, 0 when it is disabled
          MinFree,      \* CACHE_MIN_FREE_PCT of the volume in bytes, 0 when disabled
          Volume,       \* the size of the volume
          Faults,       \* which of "statfs" and "remove" may fail
          Forgettable,  \* keys passed to Forget: none, the shim never calls it
          MaxRestarts   \* bound: how often the process is restarted

ASSUME KeysAssumption == IsFiniteSet(Keys) /\ NoKey \notin Keys
ASSUME SizesAssumption == Sizes \subseteq Nat \ {0}
ASSUME LimitsAssumption == MaxBytes \in Nat /\ MinFree \in Nat
ASSUME VolumeAssumption == Volume \in Nat /\ MinFree <= Volume
ASSUME ForgetAssumption == Forgettable \subseteq Keys
ASSUME RestartsAssumption == MaxRestarts \in Nat

VARIABLES lru,        \* [order, size, total]: list, entry sizes, byte count
          op,         \* "free", or what the holder of mu is doing
          cur,        \* the key an unfinished Record was called with
          seeds,      \* keys Load has still to add, in mtime order
          disk,       \* bytes of each key's file on the volume, 0 if absent
          written,    \* the files on the volume by mtime, oldest first
          others,     \* bytes of the volume that are not cache files
          readable,   \* whether statfs works
          minFree,    \* the watermark this process goes by, 0 when disabled
          restarts    \* restarts so far

vars == <<lru, op, cur, seeds, disk, written, others, readable, minFree, restarts>>
-----------------------------------------------------------------------------
\* The volume.

OnDisk == SumFunction(disk)

Free == Volume - others - OnDisk

Plenty == Volume

\* What freeFn returns: statfs' answer, or "plenty" when statfs fails.  It is
\* only asked by a process that has a watermark.
FreeReading == IF readable THEN Free ELSE Plenty

\* Mutant: the watermark is only looked at when no byte budget is set.
OverLimitEither(free) ==
    IF MaxBytes > 0 THEN lru.total > MaxBytes ELSE minFree > 0 /\ free < minFree

\* overLimitLocked, given what freeFn returned.
OverLimit(free) ==
    \/ MaxBytes > 0 /\ lru.total > MaxBytes
    \/ minFree > 0 /\ free < minFree
-----------------------------------------------------------------------------
\* newLRU's watermark, computed once as the process starts: a statfs that
\* fails then disables it for the life of the process.
Watermark(statfsWorks) == IF statfsWorks THEN MinFree ELSE 0

\* A cold start on an empty cache directory.
Init ==
    /\ lru = Empty(Keys)
    /\ op = "free"
    /\ cur = NoKey
    /\ seeds = <<>>
    /\ disk = [k \in Keys |-> 0]
    /\ written = <<>>
    /\ others = 0
    /\ readable \in (IF "statfs" \in Faults THEN BOOLEAN ELSE {TRUE})
    /\ minFree = Watermark(readable)
    /\ restarts = 0

Touch(k) ==
    /\ op = "free"
    /\ lru' = Touched(lru, k)
    /\ UNCHANGED <<op, cur, seeds, disk, written, others, readable, minFree, restarts>>

\* The file is written (there is room for it beside an older one), and then
\* Record runs up to its eviction loop.
Record(k, n) ==
    /\ op = "free"
    /\ n <= Free
    /\ disk' = [disk EXCEPT ![k] = n]
    /\ written' = Newest(written, k)
    /\ lru' = Recorded(lru, k, n)
    /\ op' = "evict"
    /\ cur' = k
    /\ UNCHANGED <<seeds, others, readable, minFree, restarts>>

Forget(k) ==
    /\ op = "free"
    /\ lru' = Forgotten(lru, k)
    /\ UNCHANGED <<op, cur, seeds, disk, written, others, readable, minFree, restarts>>

\* An iteration of the loop in evictLocked.
EvictOne(free, removed) ==
    /\ op = "evict"
    /\ lru.order # <<>>
    /\ OverLimit(free)
    /\ lru' = Popped(lru)
    /\ IF removed
       THEN LET k == Head(lru.order)
            IN  /\ disk' = [disk EXCEPT ![k] = 0]
                /\ written' = Dropped(written, k)
       ELSE UNCHANGED <<disk, written>>
    /\ UNCHANGED <<op, cur, seeds, others, readable, minFree, restarts>>

\* Mutant: "if" instead of "for", the loop body runs at most once.
EvictDoneOnce(free) ==
    /\ op = "evict"
    /\ op' = "free"
    /\ cur' = NoKey
    /\ UNCHANGED <<lru, seeds, disk, written, others, readable, minFree, restarts>>

\* Mutant: the loop does not stop at an empty list.
EvictDoneNonEmpty(free) ==
    /\ op = "evict"
    /\ ~OverLimit(free)
    /\ op' = "free"
    /\ cur' = NoKey
    /\ UNCHANGED <<lru, seeds, disk, written, others, readable, minFree, restarts>>

\* The loop ends and the operation releases mu.
EvictDone(free) ==
    /\ op = "evict"
    /\ lru.order = <<>> \/ ~OverLimit(free)
    /\ op' = "free"
    /\ cur' = NoKey
    /\ UNCHANGED <<lru, seeds, disk, written, others, readable, minFree, restarts>>

\* The process dies; the next one computes its watermark and lists the cache
\* directory (seedLRU).
Restart ==
    /\ restarts < MaxRestarts
    /\ restarts' = restarts + 1
    /\ lru' = Empty(Keys)
    /\ cur' = NoKey
    /\ seeds' = written
    /\ op' = "load"
    /\ minFree' = Watermark(readable)
    /\ UNCHANGED <<disk, written, others, readable>>

\* Load adds the oldest remaining file.
LoadOne ==
    /\ op = "load"
    /\ seeds # <<>>
    /\ lru' = Loaded(lru, Head(seeds), disk[Head(seeds)])
    /\ seeds' = Tail(seeds)
    /\ UNCHANGED <<op, cur, disk, written, others, readable, minFree, restarts>>

\* Load has added every file and goes on to evict.
LoadDone ==
    /\ op = "load"
    /\ seeds = <<>>
    /\ op' = "evict"
    /\ UNCHANGED <<lru, cur, seeds, disk, written, others, readable, minFree, restarts>>

\* Another user of the volume takes or returns space.
OutsideUse ==
    /\ others' \in 0 .. (Volume - OnDisk)
    /\ others' # others
    /\ UNCHANGED <<lru, op, cur, seeds, disk, written, readable, minFree, restarts>>

\* statfs begins or ceases to fail.
StatfsTurns ==
    /\ "statfs" \in Faults
    /\ readable' = ~readable
    /\ UNCHANGED <<lru, op, cur, seeds, disk, written, others, minFree, restarts>>

Evict ==
    \/ \E removed \in (IF "remove" \in Faults THEN BOOLEAN ELSE {TRUE}) :
          EvictOne(FreeReading, removed)
    \/ EvictDone(FreeReading)

Next ==
    \/ \E k \in Keys : Touch(k)
    \/ \E k \in Keys, n \in Sizes : Record(k, n)
    \/ \E k \in Forgettable : Forget(k)
    \/ Evict
    \/ Restart
    \/ LoadOne
    \/ LoadDone
    \/ OutsideUse
    \/ StatfsTurns

\* A goroutine inside an operation keeps running.
Fairness == WF_vars(Evict) /\ WF_vars(LoadOne) /\ WF_vars(LoadDone)

Spec == Init /\ [][Next]_vars /\ Fairness
-----------------------------------------------------------------------------
\* The type of the state; no list holds a key twice.
TypeOK ==
    /\ AccountOK(Keys, lru)
    /\ op \in {"free", "load", "evict"}
    /\ cur \in Keys \cup {NoKey}
    /\ seeds \in Seq(Keys)
    /\ disk \in [Keys -> Nat]
    /\ written \in Seq(Keys) /\ Distinct(written)
    /\ others \in Int
    /\ readable \in BOOLEAN
    /\ minFree \in {0, MinFree}
    /\ restarts \in 0 .. MaxRestarts

\* The running byte count is the sum of the entry sizes, across resizing an
\* entry, evicting, forgetting and reloading (lruCache.total).
TotalIsSum == Exact(lru)

\* Whoever takes the mutex finds the count within the byte budget: every
\* operation that adds bytes evicts enough before it releases mu.
WithinBudget == (MaxBytes > 0 /\ op = "free") => lru.total <= MaxBytes

\* While an older entry is left, the eviction loop of a Record does not take
\* the entry it has just recorded, although either limit may be exceeded.
OwnEntryLast == (cur # NoKey /\ cur \notin Entries(lru)) => lru.order = <<>>

\* An operation that evicts releases mu with the volume above the watermark
\* or with nothing left to evict, when statfs works as the loop ends.  The
\* watermark is the process's own: none if statfs failed as it started.
FloorHonoured ==
    (op = "evict" /\ op' = "free" /\ readable)
        => (lru'.order = <<>> \/ Free' >= minFree)

\* An entry leaves the cache by eviction only when a limit is exceeded by the
\* real numbers: a failing statfs never purges it (main.go's freeFn).
NoFalsePurge ==
    (op = "evict" /\ Len(lru'.order) < Len(lru.order)) =>
        \/ MaxBytes > 0 /\ lru.total > MaxBytes
        \/ minFree > 0 /\ Free < minFree
        \/ restarts' > restarts

\* A restarted process ends its seeding with the exact bytes that are in the
\* cache directory, files the dead process had failed to delete included.
AccountingRebuilt == (op = "load" /\ op' = "evict") => lru'.total = OnDisk'

\* The account and the volume under it: no step releases the mutex below the
\* watermark of its process when it could still restore it, evicts what need not go, or ends a
\* restart's seeding with another count than what is on disk.
VolumeHonest == [][FloorHonoured /\ NoFalsePurge /\ AccountingRebuilt]_vars

\* Every operation gives up the mutex, also when the volume stays below the
\* watermark with no entry left, or statfs and os.Remove keep failing.
EvictionTerminates == (op # "free") ~> (op = "free")
-----------------------------------------------------------------------------
\* The inductive invariant behind the theorems of LruProofs.

\* During a Record's eviction its own entry is the newest one.
OwnEntryNewest ==
    /\ op # "evict" => cur = NoKey
    /\ (cur # NoKey /\ lru.order # <<>>) => lru.order[Len(lru.order)] = cur

\* The volume is never overcommitted: a file is written where there is room.
VolumeFits == 0 <= others /\ others + OnDisk <= Volume

\* A directory listing misses no file that takes space.
DiskListed == \A k \in Keys : disk[k] # 0 => k \in Members(written)

\* While Load runs, every file is an entry already or still to be added, and
\* the entries have the sizes of their files.
LoadSound ==
    op = "load" => /\ Members(written) \subseteq Entries(lru) \cup Members(seeds)
                   /\ \A k \in Entries(lru) : lru.size[k] = disk[k]

AccountInv == TypeOK /\ Exact(lru) /\ WithinBudget /\ OwnEntryNewest
VolumeInv == VolumeFits /\ DiskListed /\ LoadSound
IInv == AccountInv /\ VolumeInv
=============================================================================
