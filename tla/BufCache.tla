------------------------------ MODULE BufCache ------------------------------
(***************************************************************************)
(* The buffer cache of the MINIX file system, kernel/fs/minix/buffer.c,    *)
(* used by several threads on one block device.                            *)
(*                                                                         *)
(* bufcache_mutex is never held across I/O, so every section under it is   *)
(* one step; block_read and block_write sleep between two such sections.   *)
(* The holder of a buffer changes its data without the mutex (the inode    *)
(* locks of vfs.c do not order it with a sync of the whole device).  Data  *)
(* is a version number: each change makes a newer one.                     *)
(***************************************************************************)
EXTENDS Integers, Sequences, FiniteSets

CONSTANTS Threads, Blocks, NoBlock,
          NSlots,       \* BUFCACHE_SLOTS
          DirtyLimit,   \* BUFCACHE_DIRTY_LIMIT
          MaxVersion    \* bound: changes of a behaviour

ASSUME CacheAssumption ==
  /\ NSlots \in Nat \ {0}
  /\ DirtyLimit \in 1..NSlots
  /\ MaxVersion \in Nat
  /\ NoBlock \notin Blocks

Slots == 1..NSlots

VARIABLES block, valid, loading, refcount, dirty, data,   \* the slots
          lru,            \* the slots, the least recently used first
          dirty_count,    \* bufcache_dirty_count
          disk,           \* what the device holds
          version,        \* the newest version
          pc,
          buf,            \* the slot a thread holds or loads (0: none)
          want,           \* the block it asked for
          cursor,         \* the slot its bufcache_sync is at
          ahead           \* history: slots changed while a sync was writing them

slotVars == <<block, valid, loading, refcount, dirty, data, lru>>
threadVars == <<buf, want, cursor>>
vars == <<slotVars, dirty_count, disk, version, pc, threadVars, ahead>>

Points == {"idle", "get", "read", "held", "changed", "mark", "scan", "write", "done", "failed"}

TypeOK == /\ block \in [Slots -> Blocks \cup {NoBlock}]
          /\ valid \in [Slots -> BOOLEAN]
          /\ loading \in [Slots -> BOOLEAN]
          /\ refcount \in [Slots -> 0..2 * Cardinality(Threads)]
          /\ dirty \in [Slots -> BOOLEAN]
          /\ data \in [Slots -> 0..MaxVersion]
          /\ lru \in [Slots -> Slots]
          /\ dirty_count \in 0..NSlots
          /\ disk \in [Blocks -> 0..MaxVersion]
          /\ version \in 0..MaxVersion
          /\ pc \in [Threads -> Points]
          /\ buf \in [Threads -> 0..NSlots]
          /\ want \in [Threads -> Blocks \cup {NoBlock}]
          /\ cursor \in [Threads -> 0..NSlots]
          /\ ahead \subseteq Slots

Init == /\ block = [i \in Slots |-> NoBlock]
        /\ valid = [i \in Slots |-> FALSE]
        /\ loading = [i \in Slots |-> FALSE]
        /\ refcount = [i \in Slots |-> 0]
        /\ dirty = [i \in Slots |-> FALSE]
        /\ data = [i \in Slots |-> 0]
        /\ lru = [i \in Slots |-> i]
        /\ dirty_count = 0
        /\ disk = [b \in Blocks |-> 0]
        /\ version = 0
        /\ pc = [t \in Threads |-> "idle"]
        /\ buf = [t \in Threads |-> 0]
        /\ want = [t \in Threads |-> NoBlock]
        /\ cursor = [t \in Threads |-> 0]
        /\ ahead = {}

Goto(t, p) == pc' = [pc EXCEPT ![t] = p]

SetBuf(t, i) == buf' = [buf EXCEPT ![t] = i]

\* slot->lru = ++bufcache_clock
Touch(i) == lru' = SelectSeq(lru, LAMBDA j : j # i) \o <<i>>

IndexOf(i) == CHOOSE k \in Slots : lru[k] = i

Least(S) == CHOOSE i \in S : \A j \in S : i <= j

Oldest(S) == CHOOSE i \in S : \A j \in S : IndexOf(i) <= IndexOf(j)
------------------------------------------------------------------------------
\* Slots that hold, or are being loaded with, block b.
Cached(b) == {i \in Slots : block[i] = b /\ (valid[i] \/ loading[i])}

Invalid == {i \in Slots : ~loading[i] /\ ~valid[i] /\ refcount[i] = 0}

Evictable == {i \in Slots : ~loading[i] /\ valid[i] /\ refcount[i] = 0 /\ ~dirty[i]}

\* bufcache_pick_victim: the first invalid slot, else the oldest evictable one.
Victim == IF Invalid # {} THEN Least(Invalid) ELSE Oldest(Evictable)

\* bufcache_get is called.
Get(t, b) ==
  /\ pc[t] = "idle"
  /\ want' = [want EXCEPT ![t] = b]
  /\ Goto(t, "get")
  /\ UNCHANGED <<slotVars, dirty_count, disk, version, buf, cursor, ahead>>

\* The block is in the cache.  (While another thread loads it: unlock, yield, retry.)
GetHit(t) ==
  /\ pc[t] = "get"
  /\ \E i \in Cached(want[t]) :
       /\ ~loading[i]
       /\ refcount' = [refcount EXCEPT ![i] = @ + 1]
       /\ Touch(i)
       /\ SetBuf(t, i)
  /\ Goto(t, "held")
  /\ UNCHANGED <<block, valid, loading, dirty, data, dirty_count, disk, version, want, cursor, ahead>>

\* Mutant: a slot that is being loaded is not looked at.
GetMissDuplicate(t) ==
  /\ pc[t] = "get"
  /\ \A i \in Cached(want[t]) : loading[i]
  /\ Invalid \cup Evictable # {}
  /\ valid' = [valid EXCEPT ![Victim] = FALSE]
  /\ loading' = [loading EXCEPT ![Victim] = TRUE]
  /\ block' = [block EXCEPT ![Victim] = want[t]]
  /\ refcount' = [refcount EXCEPT ![Victim] = 1]
  /\ dirty' = [dirty EXCEPT ![Victim] = FALSE]
  /\ ahead' = ahead \ {Victim}
  /\ Touch(Victim)
  /\ SetBuf(t, Victim)
  /\ Goto(t, "read")
  /\ UNCHANGED <<data, dirty_count, disk, version, want, cursor>>

\* A miss takes a victim and publishes the key before it drops the mutex to read.
GetMiss(t) ==
  /\ pc[t] = "get"
  /\ Cached(want[t]) = {}
  /\ Invalid \cup Evictable # {}
  /\ valid' = [valid EXCEPT ![Victim] = FALSE]
  /\ loading' = [loading EXCEPT ![Victim] = TRUE]
  /\ block' = [block EXCEPT ![Victim] = want[t]]
  /\ refcount' = [refcount EXCEPT ![Victim] = 1]
  /\ dirty' = [dirty EXCEPT ![Victim] = FALSE]
  /\ dirty_count' = IF valid[Victim] /\ dirty[Victim] /\ dirty_count > 0
                      THEN dirty_count - 1 ELSE dirty_count
  /\ ahead' = ahead \ {Victim}
  /\ Touch(Victim)
  /\ SetBuf(t, Victim)
  /\ Goto(t, "read")
  /\ UNCHANGED <<data, disk, version, want, cursor>>

\* No victim: NULL.
GetFull(t) ==
  /\ pc[t] = "get"
  /\ Cached(want[t]) = {}
  /\ Invalid \cup Evictable = {}
  /\ want' = [want EXCEPT ![t] = NoBlock]
  /\ Goto(t, "idle")
  /\ UNCHANGED <<slotVars, dirty_count, disk, version, buf, cursor, ahead>>

\* block_read ends, and the slot becomes valid; or it fails, and the slot is given up.
ReadDone(t) ==
  /\ pc[t] = "read"
  /\ data' = [data EXCEPT ![buf[t]] = disk[want[t]]]
  /\ valid' = [valid EXCEPT ![buf[t]] = TRUE]
  /\ loading' = [loading EXCEPT ![buf[t]] = FALSE]
  /\ Goto(t, "held")
  /\ UNCHANGED <<block, refcount, dirty, lru, dirty_count, disk, version, threadVars, ahead>>

ReadFail(t) ==
  /\ pc[t] = "read"
  /\ valid' = [valid EXCEPT ![buf[t]] = FALSE]
  /\ loading' = [loading EXCEPT ![buf[t]] = FALSE]
  /\ refcount' = [refcount EXCEPT ![buf[t]] = 0]
  /\ SetBuf(t, 0)
  /\ want' = [want EXCEPT ![t] = NoBlock]
  /\ Goto(t, "idle")
  /\ UNCHANGED <<block, dirty, data, lru, dirty_count, disk, version, cursor, ahead>>

\* bufcache_put; a reference nobody has is not dropped.
Put(t) ==
  /\ pc[t] = "held"
  /\ refcount' = [refcount EXCEPT ![buf[t]] = IF @ > 0 THEN @ - 1 ELSE 0]
  /\ SetBuf(t, 0)
  /\ want' = [want EXCEPT ![t] = NoBlock]
  /\ Goto(t, "idle")
  /\ UNCHANGED <<block, valid, loading, dirty, data, lru, dirty_count, disk, version, cursor, ahead>>
------------------------------------------------------------------------------
\* The file system changes the contents of a buffer it holds; it marks it dirty next.
Change(t) ==
  /\ pc[t] = "held" /\ version < MaxVersion
  /\ version' = version + 1
  /\ data' = [data EXCEPT ![buf[t]] = version + 1]
  /\ ahead' = IF \E u \in Threads : cursor[u] = buf[t] /\ pc[u] \in {"write", "done", "failed"}
                THEN ahead \cup {buf[t]} ELSE ahead
  /\ Goto(t, "changed")
  /\ UNCHANGED <<block, valid, loading, refcount, dirty, lru, dirty_count, disk, threadVars>>

SetDirty(i) ==
  /\ dirty' = [dirty EXCEPT ![i] = TRUE]
  /\ dirty_count' = IF dirty[i] THEN dirty_count ELSE dirty_count + 1

\* bufcache_mark_dirty, below the limit or for a dirty buffer.
MarkDirty(t) ==
  /\ pc[t] = "changed"
  /\ dirty[buf[t]] \/ dirty_count < DirtyLimit
  /\ SetDirty(buf[t])
  /\ Goto(t, "held")
  /\ UNCHANGED <<block, valid, loading, refcount, data, lru, disk, version, threadVars, ahead>>

\* At the limit it syncs the device first, without the mutex, and then marks whatever
\* the count has become.
MarkSyncs(t) ==
  /\ pc[t] = "changed"
  /\ ~dirty[buf[t]] /\ dirty_count >= DirtyLimit
  /\ cursor' = [cursor EXCEPT ![t] = 1]
  /\ Goto(t, "scan")
  /\ UNCHANGED <<slotVars, dirty_count, disk, version, buf, want, ahead>>

MarkAfterSync(t) ==
  /\ pc[t] = "mark"
  /\ SetDirty(buf[t])
  /\ Goto(t, "held")
  /\ UNCHANGED <<block, valid, loading, refcount, data, lru, disk, version, threadVars, ahead>>
------------------------------------------------------------------------------
\* bufcache_sync, called by fsync.
Sync(t) ==
  /\ pc[t] = "idle"
  /\ cursor' = [cursor EXCEPT ![t] = 1]
  /\ Goto(t, "scan")
  /\ UNCHANGED <<slotVars, dirty_count, disk, version, buf, want, ahead>>

\* On to the next slot, or back to the caller.
Advance(t, stop) ==
  IF stop \/ cursor[t] = NSlots
    THEN /\ cursor' = [cursor EXCEPT ![t] = 0]
         /\ Goto(t, IF buf[t] = 0 THEN "idle" ELSE "mark")
    ELSE /\ cursor' = [cursor EXCEPT ![t] = @ + 1]
         /\ Goto(t, "scan")

\* The first section of an iteration: a dirty slot is pinned.
SyncScan(t) ==
  /\ pc[t] = "scan"
  /\ IF valid[cursor[t]] /\ dirty[cursor[t]]
       THEN /\ refcount' = [refcount EXCEPT ![cursor[t]] = @ + 1]
            /\ Goto(t, "write")
            /\ UNCHANGED cursor
       ELSE /\ Advance(t, FALSE)
            /\ UNCHANGED refcount
  /\ UNCHANGED <<block, valid, loading, dirty, data, lru, dirty_count, disk, version, buf, want, ahead>>

\* block_write takes the data as it finds it, or fails.
SyncWrite(t) ==
  /\ pc[t] = "write"
  /\ disk' = [disk EXCEPT ![block[cursor[t]]] = data[cursor[t]]]
  /\ Goto(t, "done")
  /\ UNCHANGED <<slotVars, dirty_count, version, threadVars, ahead>>

SyncWriteFail(t) ==
  /\ pc[t] = "write"
  /\ Goto(t, "failed")
  /\ UNCHANGED <<slotVars, dirty_count, disk, version, threadVars, ahead>>

Unpin(i) == refcount' = [refcount EXCEPT ![i] = IF @ > 0 THEN @ - 1 ELSE 0]

\* The second section: the slot is clean, and unpinned.
SyncDone(t) ==
  /\ pc[t] = "done"
  /\ dirty' = [dirty EXCEPT ![cursor[t]] = FALSE]
  /\ dirty_count' = IF dirty[cursor[t]] /\ dirty_count > 0 THEN dirty_count - 1 ELSE dirty_count
  /\ Unpin(cursor[t])
  /\ Advance(t, FALSE)
  /\ UNCHANGED <<block, valid, loading, data, lru, disk, version, buf, want, ahead>>

\* Mutant: the slot is clean although its write failed.
SyncFailedCleans(t) ==
  /\ pc[t] = "failed"
  /\ dirty' = [dirty EXCEPT ![cursor[t]] = FALSE]
  /\ dirty_count' = IF dirty[cursor[t]] /\ dirty_count > 0 THEN dirty_count - 1 ELSE dirty_count
  /\ Unpin(cursor[t])
  /\ Advance(t, TRUE)
  /\ UNCHANGED <<block, valid, loading, data, lru, disk, version, buf, want, ahead>>

\* A failed write ends the sync and leaves the slot dirty.
SyncFailed(t) ==
  /\ pc[t] = "failed"
  /\ Unpin(cursor[t])
  /\ Advance(t, TRUE)
  /\ UNCHANGED <<block, valid, loading, dirty, data, lru, dirty_count, disk, version, buf, want, ahead>>

Proceed(t) == \/ GetHit(t) \/ GetMiss(t) \/ GetFull(t)
              \/ ReadDone(t) \/ ReadFail(t)
              \/ MarkDirty(t) \/ MarkSyncs(t) \/ MarkAfterSync(t)
              \/ SyncScan(t) \/ SyncWrite(t) \/ SyncWriteFail(t)
              \/ SyncDone(t) \/ SyncFailed(t)

Next == \E t \in Threads : \/ Proceed(t)
                           \/ \E b \in Blocks : Get(t, b)
                           \/ Put(t)
                           \/ Change(t)
                           \/ Sync(t)

Spec == Init /\ [][Next]_vars
------------------------------------------------------------------------------
Holds(t, i) == buf[t] = i

Pins(t, i) == cursor[t] = i /\ pc[t] \in {"write", "done", "failed"}

\* The state is well-typed.  No block is in two slots: a miss that reads and a second
\* request for the same block cannot both take a victim.  The reference count is the number
\* of threads that hold, load or write the slot, and the count of dirty slots is right, so
\* that neither a failed read nor a failed write leaks a pin and the dirty limit acts on
\* the truth.  A buffer stays what its holder asked for: while a thread holds it, or a sync
\* writes it, the slot is not given to another block.
SlotsExact ==
  /\ TypeOK
  /\ \A b \in Blocks : Cardinality(Cached(b)) <= 1
  /\ \A i \in Slots : refcount[i] = Cardinality({t \in Threads : Holds(t, i)})
                                    + Cardinality({t \in Threads : Pins(t, i)})
  /\ dirty_count = Cardinality({i \in Slots : dirty[i]})
  /\ \A t \in Threads : buf[t] # 0 /\ pc[t] # "read" => valid[buf[t]] /\ block[buf[t]] = want[t]
  /\ \A t \in Threads, i \in Slots : Pins(t, i) => valid[i]

\* A slot that may be evicted has its data on the device, unless a write-back raced
\* with a change.
EvictableOnDisk == \A i \in Evictable : i \in ahead \/ data[i] = disk[block[i]]

\* The cache is the single source of truth: a slot that may be evicted has its data on
\* the device.
CacheIsTruth == \A i \in Evictable : data[i] = disk[block[i]]

\* The number of dirty buffers is capped at the limit.
DirtyCapped == dirty_count <= DirtyLimit

\* No thread asks for a block while another one loads it.
NoLoadingSeen ==
  \A t \in Threads : pc[t] = "get" => \A i \in Cached(want[t]) : ~loading[i]
=============================================================================
