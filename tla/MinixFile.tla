-------------------------------- MODULE MinixFile --------------------------------
(***************************************************************************)
(* The blocks of a MINIX file: kernel/fs/minix/file.c, minix_bmap of       *)
(* inode.c and the zone map of bitmap.c.                                   *)
(*                                                                         *)
(* A zone holds a block of words: data, or the numbers of other zones.     *)
(* minix_write, minix_truncate and minix_read run under the lock of the    *)
(* inode: each is one step.  Any one read of a block in a call may fail:   *)
(* the input `bad` says which bufcache_get of the call returns NULL (0:    *)
(* none).  minix_bmap reports a table it could not read as a hole; only    *)
(* with MfBlindBmap may such a read fail.  The image is well formed, so    *)
(* the range checks on zone numbers never refuse one.  Times are left out. *)
(***************************************************************************)
EXTENDS Integers, Sequences, FiniteSets, FiniteSetsExt

CONSTANTS MfZones,      \* data zones, 1..MfZones
          MfWords,      \* MINIX_BLOCK_SIZE, in words; also the entries of a table
          MfDirect,     \* 7: the zones the inode names itself
          MfMaxChunk,   \* MINIX_WRITE_MAX_CHUNK, in words
          MfWrites,     \* the writes tried: <<offset, length, value>>
          MfSizes,      \* the sizes tried with truncate
          MfBad,        \* the reads that may fail in a call, and 0
          MfBlindBmap   \* whether the reads of tables in minix_bmap may be among them

ASSUME MfAssumption == /\ {MfZones, MfWords, MfDirect, MfMaxChunk} \subseteq Nat \ {0}
                       /\ 0 \in MfBad /\ MfBlindBmap \in BOOLEAN

VARIABLES mf_file,   \* the inode, the zone map and the zones
          mf_want    \* the reference: the words of the file, and its size

mfVars == <<mf_file, mf_want>>

MfBlank == [w \in 0..(MfWords - 1) |-> 0]

\* The blocks a file may have: direct, single indirect, double indirect.
MfBlocks == 0..(MfDirect + MfWords + MfWords * MfWords - 1)

\* A word the reference says nothing of.
MfAny == -1

\* Words the double indirect zone has no part in.
MfReach == (MfDirect + MfWords) * MfWords

\* i_zone[7] and i_zone[8].
MfSingle == MfDirect
MfDouble == MfDirect + 1

\* gets, bad, b, err: bufcache_get calls so far, the one that fails, the block number or
\* the error a helper returned. lost: zones minix_free_indirect could not give back.
MfInit == /\ mf_file = [zmap |-> {}, zone |-> [z \in 1..MfZones |-> MfBlank],
                        i_zone |-> [i \in 0..MfDouble |-> 0], size |-> 0,
                        lost |-> {}, panic |-> FALSE,
                        gets |-> 0, bad |-> 0, b |-> 0, err |-> "ok"]
          /\ mf_want = [word |-> [w \in 0..(MfReach - 1) |-> 0], size |-> 0]
-------------------------------------------------------------------------------
\* bufcache_get: it counts, and the one with number `bad` fails.
Got(f) == [f EXCEPT !.gets = @ + 1]
Fails(f) == f.gets + 1 = f.bad

Return(f, b) == [f EXCEPT !.b = b]

\* minix_alloc_zone: the lowest clear bit.
MfAllocZone(f) ==
  LET free == (1..MfZones) \ f.zmap
  IN  IF Fails(f) \/ free = {} THEN Return(Got(f), 0)
      ELSE Return([Got(f) EXCEPT !.zmap = @ \cup {Min(free)}], Min(free))

\* minix_free_zone: a bitmap that cannot be read, and a bit that is clear, are fatal.
MfFreeZone(f, z) ==
  IF Fails(f) \/ z \notin f.zmap THEN [Got(f) EXCEPT !.panic = TRUE]
  ELSE [Got(f) EXCEPT !.zmap = @ \ {z}]

\* minix_safe_free_zone.
SafeFreeZone(f, z) == IF z = 0 THEN f ELSE MfFreeZone(f, z)

\* Mutant: the zone is not given back if it cannot be zeroed.
AllocDataZoneLeaks(f) ==
  LET a == MfAllocZone(f)
  IN  IF a.b = 0 THEN a
      ELSE IF Fails(a) THEN Return(Got(a), 0)
      ELSE [Got(a) EXCEPT !.zone[a.b] = MfBlank]

\* minix_alloc_data_zone: a zeroed zone.
AllocDataZone(f) ==
  LET Zeroed(a) == IF a.b = 0 THEN a
                   ELSE IF Fails(a) THEN Return(MfFreeZone(Got(a), a.b), 0)
                   ELSE [Got(a) EXCEPT !.zone[a.b] = MfBlank]
  IN  Zeroed(MfAllocZone(f))

\* i_zone[i], allocated if it is missing and create says so.
InodeZone(f, i, create) ==
  LET Filled(a) == [a EXCEPT !.i_zone[i] = a.b]
  IN  IF f.i_zone[i] = 0 /\ create THEN Filled(AllocDataZone(f)) ELSE Return(f, f.i_zone[i])

\* Entry i of the table in zone f.b.
TableEntry(f, i, create) ==
  LET z == f.b
      Filled(a) == [a EXCEPT !.zone[z][i] = a.b]
      Entry(g) == IF g.zone[z][i] = 0 /\ create THEN Filled(AllocDataZone(g))
                  ELSE Return(g, g.zone[z][i])
  IN  IF z = 0 THEN f
      ELSE IF ~MfBlindBmap THEN Entry(f)
      ELSE IF Fails(f) THEN Return(Got(f), 0)
      ELSE Entry(Got(f))

\* minix_bmap. Below a double indirect zone the last level is never created.
Bmap(f, blk, create) ==
  LET n == blk - MfDirect
      m == n - MfWords
  IN  IF blk < MfDirect THEN InodeZone(f, blk, create)
      ELSE IF n < MfWords THEN TableEntry(InodeZone(f, MfSingle, create), n, create)
      ELSE TableEntry(TableEntry(InodeZone(f, MfDouble, create), m \div MfWords, create),
                      m % MfWords, FALSE)

\* The words of block i that the range from off to end has.
InBlock(i, off, end) == {w \in 0..(MfWords - 1) : i * MfWords + w \in off..(end - 1)}

\* minix_read: the block reads of the loop from block i on. What it delivers is ReadWord.
RECURSIVE ReadBlocks(_, _, _)
ReadBlocks(f, i, last) ==
  LET Read(m) == IF m.b # 0 /\ Fails(m) THEN [Got(m) EXCEPT !.err = "EIO"]
                 ELSE ReadBlocks(IF m.b = 0 THEN m ELSE Got(m), i + 1, last)
  IN  IF i > last THEN [f EXCEPT !.err = "ok"] ELSE Read(Bmap(f, i, FALSE))

\* A word of the file as minix_read delivers it when no block read fails; a hole is zero.
ReadWord(f, u) ==
  LET Word(b) == IF b = 0 THEN 0 ELSE f.zone[b][u % MfWords]
  IN  Word(Bmap([f EXCEPT !.bad = 0], u \div MfWords, FALSE).b)

\* minix_clear_block_mapping.
ClearBlockMapping(f, blk) ==
  LET n == blk - MfDirect
      m == n - MfWords
      Drop(g, z, i) == IF g.zone[z][i] = 0 THEN g
                       ELSE [SafeFreeZone(g, g.zone[z][i]) EXCEPT !.zone[z][i] = 0]
      Below(outer) == IF outer.b = 0 THEN outer
                      ELSE IF Fails(outer) THEN Got(outer)
                      ELSE Drop(Got(outer), outer.b, m % MfWords)
  IN  IF blk < MfDirect
        THEN [SafeFreeZone(f, f.i_zone[blk]) EXCEPT !.i_zone[blk] = 0]
      ELSE IF n < MfWords
        THEN IF f.i_zone[MfSingle] = 0 THEN f
             ELSE IF Fails(f) THEN Got(f) ELSE Drop(Got(f), f.i_zone[MfSingle], n)
      ELSE Below(TableEntry(Return(f, f.i_zone[MfDouble]), m \div MfWords, FALSE))

\* minix_indirect_empty: b is 1 if the table in zone z is empty.
IndirectEmpty(f, z) ==
  IF z = 0 THEN Return(f, 1)
  ELSE IF Fails(f) THEN Return(Got(f), 0)
  ELSE Return(Got(f), IF f.zone[z] = MfBlank THEN 1 ELSE 0)

\* The loop of minix_prune_empty_indirects over the double indirect zone z.
RECURSIVE PruneOuter(_, _, _)
PruneOuter(f, z, i) ==
  LET Pruned(e) == IF e.b = 1 THEN [SafeFreeZone(e, e.zone[z][i]) EXCEPT !.zone[z][i] = 0] ELSE e
  IN  IF i = MfWords THEN f
      ELSE PruneOuter(IF f.zone[z][i] = 0 THEN f ELSE Pruned(IndirectEmpty(f, f.zone[z][i])), z, i + 1)

\* An indirect zone of the inode is given back if its table is empty.
PruneInode(f, i) ==
  LET Pruned(e) == IF e.i_zone[i] # 0 /\ e.b = 1
                     THEN [SafeFreeZone(e, e.i_zone[i]) EXCEPT !.i_zone[i] = 0] ELSE e
  IN  Pruned(IndirectEmpty(f, f.i_zone[i]))

\* minix_prune_empty_indirects.
PruneEmptyIndirects(f) ==
  LET Rest(s) == IF s.i_zone[MfDouble] = 0 THEN s
                 ELSE IF Fails(s) THEN Got(s)
                 ELSE PruneInode(PruneOuter(Got(s), s.i_zone[MfDouble], 0), MfDouble)
  IN  Rest(PruneInode(f, MfSingle))
-------------------------------------------------------------------------------
\* The first loop of minix_write: blocks i..last get a zone; `created` has the new ones.
RECURSIVE CreateBlocks(_, _, _, _)
CreateBlocks(f, i, last, created) ==
  LET Create(before, after) ==
        IF after.b = 0 THEN [f |-> [after EXCEPT !.err = "ENOSPC"], created |-> created]
        ELSE CreateBlocks(after, i + 1, last, IF before.b = 0 THEN created \o <<i>> ELSE created)
      Look(before) == Create(before, Bmap(before, i, TRUE))
  IN  IF i > last THEN [f |-> [f EXCEPT !.err = "ok"], created |-> created]
      ELSE Look(Bmap(f, i, FALSE))

\* The second loop: the words of the range, block by block. `at` is where it stopped.
RECURSIVE WriteBlocks(_, _, _, _, _)
WriteBlocks(f, i, off, end, val) ==
  LET ws == InBlock(i, off, end)
      Filled(zone) == [w \in DOMAIN zone |-> IF w \in ws THEN val ELSE zone[w]]
      Store(m) ==
        IF m.b = 0 \/ Fails(m) THEN [f |-> [(IF m.b = 0 THEN m ELSE Got(m)) EXCEPT !.err = "EIO"], at |-> i]
        ELSE WriteBlocks([Got(m) EXCEPT !.zone[m.b] = Filled(@)], i + 1, off, end, val)
  IN  IF i > (end - 1) \div MfWords THEN [f |-> [f EXCEPT !.err = "ok"], at |-> i]
      ELSE Store(Bmap(f, i, FALSE))


\* rollback_data: blocks i..to - 1 get the words back that `old` had.
RECURSIVE RestoreBlocks(_, _, _, _, _, _)
RestoreBlocks(f, i, to, off, end, old) ==
  LET ws == InBlock(i, off, end)
      Word(w) == IF i * MfWords + w < old.size THEN ReadWord(old, i * MfWords + w) ELSE 0
      Restored(zone) == [w \in DOMAIN zone |-> IF w \in ws THEN Word(w) ELSE zone[w]]
      Store(m) == IF m.b = 0 THEN m
                  ELSE IF Fails(m) THEN Got(m)
                  ELSE [Got(m) EXCEPT !.zone[m.b] = Restored(@)]
  IN  IF i >= to THEN f
      ELSE RestoreBlocks(Store(Bmap(f, i, FALSE)), i + 1, to, off, end, old)

\* rollback_alloc: the new blocks go, and indirect zones left empty.
RECURSIVE ClearCreated(_, _)
ClearCreated(f, created) ==
  IF created = << >> THEN f ELSE ClearCreated(ClearBlockMapping(f, Head(created)), Tail(created))

RollbackAlloc(f, created, old) ==
  [PruneEmptyIndirects(ClearCreated(f, created)) EXCEPT !.size = old.size, !.err = f.err]

\* minix_write of `val` over [off, off + len).
MinixWrite(f, off, len, val) ==
  LET end == off + Min({len, MfMaxChunk})
      first == off \div MfWords
      last == (end - 1) \div MfWords
      Wrote(w, created) ==
        IF w.f.err # "ok" THEN RollbackAlloc(RestoreBlocks(w.f, first, w.at, off, end, f), created, f)
        ELSE [w.f EXCEPT !.size = Max({@, end})]
      Created(c) == IF c.f.err # "ok" THEN RollbackAlloc(c.f, c.created, f)
                    ELSE Wrote(WriteBlocks(c.f, first, off, end, val), c.created)
      BackedUp(g) == IF g.err # "ok" THEN g ELSE Created(CreateBlocks(g, first, last, << >>))
  IN  BackedUp(IF off < f.size
                 THEN ReadBlocks(f, first, (Min({end, f.size}) - 1) \div MfWords)
                 ELSE [f EXCEPT !.err = "ok"])
-------------------------------------------------------------------------------
\* The zones in table z and below it, `depth` tables deep.
ZonesUnder(f, z, depth) ==
  LET entries == {f.zone[z][i] : i \in 0..(MfWords - 1)} \ {0}
      below == UNION {{f.zone[e][i] : i \in 0..(MfWords - 1)} : e \in entries} \ {0}
  IN  IF z = 0 THEN {} ELSE {z} \cup entries \cup (IF depth = 2 THEN below ELSE {})

\* The zones the inode leads to.
MfMapped(f) == ({f.i_zone[i] : i \in 0..(MfDirect - 1)} \ {0})
                 \cup ZonesUnder(f, f.i_zone[MfSingle], 1)
                 \cup ZonesUnder(f, f.i_zone[MfDouble], 2)

\* minix_free_indirect: without its table the zones are lost.
RECURSIVE FreeEntries(_, _, _)
FreeEntries(f, z, i) ==
  IF i = MfWords THEN f ELSE FreeEntries(SafeFreeZone(f, f.zone[z][i]), z, i + 1)

FreeIndirect(f, z) ==
  IF z = 0 THEN f
  ELSE IF Fails(f) THEN [Got(f) EXCEPT !.lost = @ \cup ZonesUnder(f, z, 1)]
  ELSE SafeFreeZone(FreeEntries(Got(f), z, 0), z)

\* minix_free_double_indirect.
RECURSIVE FreeTables(_, _, _)
FreeTables(f, z, i) ==
  IF i = MfWords THEN f ELSE FreeTables(FreeIndirect(f, f.zone[z][i]), z, i + 1)

FreeDoubleIndirect(f, z) ==
  IF z = 0 THEN f
  ELSE IF Fails(f) THEN [Got(f) EXCEPT !.lost = @ \cup ZonesUnder(f, z, 2)]
  ELSE SafeFreeZone(FreeTables(Got(f), z, 0), z)

RECURSIVE ClearBlocks(_, _, _)
ClearBlocks(f, i, to) == IF i >= to THEN f ELSE ClearBlocks(ClearBlockMapping(f, i), i + 1, to)

\* minix_truncate.
MinixTruncate(f, size) ==
  LET keep == (size + MfWords - 1) \div MfWords
      old == (f.size + MfWords - 1) \div MfWords
      Indirects(g) == FreeDoubleIndirect(FreeIndirect(g, g.i_zone[MfSingle]), g.i_zone[MfDouble])
  IN  IF size > f.size THEN [f EXCEPT !.size = size]
      ELSE IF size = f.size THEN f
      ELSE IF keep # 0 THEN [PruneEmptyIndirects(ClearBlocks(f, keep, old)) EXCEPT !.size = size]
      ELSE [Indirects(ClearBlocks(f, 0, MfDirect))
              EXCEPT !.i_zone[MfSingle] = 0, !.i_zone[MfDouble] = 0, !.size = 0]

\* The locals of a call are gone when it returns. A zone that is not mapped is zeroed before
\* it is used again, so its words are left out of the state.
Settled(f) == [f EXCEPT !.gets = 0, !.bad = 0, !.b = 0, !.err = "ok",
                        !.zone = [z \in DOMAIN @ |-> IF z \in MfMapped(f) THEN @[z] ELSE MfBlank]]

\* vfs_write. The reference: a write that succeeds changes the words of its range; one that
\* fails changes none.
Write_(wr, bad) ==
  LET end == wr[1] + Min({wr[2], MfMaxChunk})
  IN  \E f \in {MinixWrite([mf_file EXCEPT !.bad = bad], wr[1], wr[2], wr[3])} :
        /\ mf_file' = Settled(f)
        /\ mf_want' = IF f.err # "ok" THEN mf_want
                      ELSE [word |-> [u \in DOMAIN mf_want.word |->
                                        IF u \in wr[1]..(end - 1) THEN wr[3] ELSE mf_want.word[u]],
                            size |-> Max({mf_want.size, end})]

\* vfs_truncate. The reference: words that are cut off are anyone's guess from then on.
\* Blocks that go are freed, but the rest of the last block that stays, and blocks whose
\* table could not be read, keep their words, and a longer file shows them again.
Truncate_(size, bad) ==
  /\ mf_file' = Settled(MinixTruncate([mf_file EXCEPT !.bad = bad], size))
  /\ mf_want' = [word |-> [u \in DOMAIN mf_want.word |->
                             IF u \in size..(mf_want.size - 1) THEN MfAny ELSE mf_want.word[u]],
                 size |-> size]

MfNext == /\ ~mf_file.panic
          /\ \E bad \in MfBad : \/ \E wr \in MfWrites : Write_(wr, bad)
                                \/ \E size \in MfSizes : Truncate_(size, bad)

MfSpec == MfInit /\ [][MfNext]_mfVars
-------------------------------------------------------------------------------

\* The zone map has the zones the inode leads to, and no other but those that
\* minix_free_indirect gave up: none is free while in use, and a rollback or truncation
\* leaves none behind.
ZonesExact == \/ mf_file.panic
              \/ /\ mf_file.zmap = MfMapped(mf_file) \cup mf_file.lost
                 /\ MfMapped(mf_file) \cap mf_file.lost = {}
===============================================================================
