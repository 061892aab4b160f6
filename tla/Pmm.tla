--------------------------------- MODULE Pmm ---------------------------------
(***************************************************************************)
(* The physical page allocator, kernel/mm/pmm.c: buddy free lists in two   *)
(* zones, blocks that callers hold, user pages with a reference count, and *)
(* frees that drop pmm_lock to zero the block.                             *)
(*                                                                         *)
(* pmm_lock disables interrupts: a section under it is one step.  A free   *)
(* has up to three of them, and other threads run in between.  The callers *)
(* keep the contract of pmm.h: they free what they hold, once.  The global *)
(* zero page is a held block like any other.                               *)
(***************************************************************************)
EXTENDS Integers, Sequences, FiniteSets, FiniteSetsExt

CONSTANTS PfnCount,   \* pfn_count
          First,      \* the first usable page; below it is reserved memory
          DmaEnd,     \* the first page of ZONE_NORMAL
          MaxOrder,   \* PMM_MAX_ORDER
          MaxRef,     \* 0xFFFF
          Threads     \* bound: how many threads are in pmm_free_pages at a time

ASSUME PmmAssumption ==
  /\ PfnCount \in Nat /\ First \in 0..PfnCount /\ DmaEnd \in 0..PfnCount
  /\ MaxOrder \in Nat \ {0} /\ DmaEnd % 2^(MaxOrder - 1) = 0
  /\ MaxRef \in Nat \ {0}

Pfns == 0..(PfnCount - 1)
Usable == First..(PfnCount - 1)
Orders == 0..(MaxOrder - 1)
Zones == {"DMA", "NORMAL"}

VARIABLES free_list,   \* free_list_head: per zone and order, the blocks from the head
          is_free,     \* PFN_FREE
          order,       \* the order of a block, at its first page
          refcount,
          zone_free,   \* stats.zone_free
          dirty,       \* pages with contents other than zero
          held,        \* blocks callers of pmm_alloc_pages hold: <<pfn, order>>
          refs,        \* the references callers of pmm_alloc_user_page hold to a page
          freeing,     \* blocks on their way back: <<pfn, order, stage>>
          panicked

vars == <<free_list, is_free, order, refcount, zone_free, dirty, held, refs,
          freeing, panicked>>

Stages == {"call", "zero", "insert"}

TypeOK == /\ free_list \in [Zones -> [Orders -> Seq(Pfns)]]
          /\ is_free \in [Pfns -> BOOLEAN]
          /\ order \in [Pfns -> Orders]
          /\ refcount \in [Pfns -> 0..MaxRef]
          /\ zone_free \in [Zones -> 0..PfnCount]
          /\ dirty \subseteq Pfns
          /\ held \subseteq Pfns \X Orders
          /\ refs \in [Pfns -> 0..MaxRef]
          /\ freeing \subseteq Pfns \X Orders \X Stages
          /\ panicked \in BOOLEAN

Zone(pfn) == IF pfn < DmaEnd THEN "DMA" ELSE "NORMAL"

Pages(pfn, o) == pfn..(pfn + 2^o - 1)

\* The aligned block of order o that page pfn is in.
Block(pfn, o) == (pfn \div 2^o) * 2^o

\* buddy_pfn: flip bit o.
Buddy(pfn, o) == IF (pfn \div 2^o) % 2 = 0 THEN pfn + 2^o ELSE pfn - 2^o
------------------------------------------------------------------------------
\* pmm_register_range from page p: the largest aligned block that fits, again and again.
BootOrder(p) == Max({o \in Orders : p % 2^o = 0 /\ p + 2^o <= PfnCount})

\* A page starts a boot block if no larger choice before it covers it.
BootBlocks == {p \in Usable : \A q \in Usable : q < p => p \notin Pages(q, BootOrder(q))}

\* The free lists after boot: the last block registered is at the head.
BootList(z, o) ==
  LET S == {p \in BootBlocks : BootOrder(p) = o /\ Zone(p) = z}
  IN  [i \in 1..Cardinality(S) |-> CHOOSE p \in S : Cardinality({q \in S : q >= p}) = i]

Init == /\ free_list = [z \in Zones |-> [o \in Orders |-> BootList(z, o)]]
        /\ is_free = [p \in Pfns |-> p \in BootBlocks]
        /\ order = [p \in Pfns |-> IF p \in BootBlocks THEN BootOrder(p) ELSE 0]
        /\ refcount = [p \in Pfns |-> 0]
        /\ zone_free = [z \in Zones |-> Cardinality({p \in Usable : Zone(p) = z})]
        /\ dirty = {}
        /\ held = {}
        /\ refs = [p \in Pfns |-> 0]
        /\ freeing = {}
        /\ panicked = FALSE
------------------------------------------------------------------------------
\* The orders at which zone z has a block for a request of order o.
Fits(z, o) == {k \in Orders : k >= o /\ free_list[z][k] # << >>}

\* The block that list_pop gives for it.
Taken(z, o) == Head(free_list[z][Min(Fits(z, o))])

\* Mutant: the lower half goes back and the caller gets the rest of the block.
HalvesLow(pfn, o, k) == {pfn + 2^j : j \in (o + 1)..(k - 1)}

\* The upper halves that the split from order k down to o pushes back: pfn + 2^j at order j.
Halves(pfn, o, k) == {pfn + 2^j : j \in o..(k - 1)}

\* pmm_alloc_pages_locked in one zone: pop the smallest block that fits and split it.
Take(z, o) ==
  LET k == Min(Fits(z, o))
      pfn == Taken(z, o)
      halves == Halves(pfn, o, k)
      OfOrder(j) == IF pfn + 2^j \in halves THEN <<pfn + 2^j>> ELSE << >>
  IN  /\ Fits(z, o) # {}
      /\ free_list' = [free_list EXCEPT ![z] =
           [j \in Orders |-> IF j = k THEN Tail(@[j]) ELSE OfOrder(j) \o @[j]]]
      /\ is_free' = [p \in Pfns |-> p # pfn /\ (is_free[p] \/ p \in halves)]
      /\ order' = [p \in Pfns |-> IF p = pfn THEN o
                                  ELSE IF p \in halves THEN CHOOSE j \in Orders : p = pfn + 2^j
                                  ELSE order[p]]
      /\ zone_free' = [zone_free EXCEPT ![z] = @ - 2^k + Cardinality(UNION
                         {Pages(pfn + 2^j, j) : j \in {j \in Orders : pfn + 2^j \in halves}})]

\* ZONE_NORMAL first.
AllocZone(o) == IF Fits("NORMAL", o) # {} THEN "NORMAL" ELSE "DMA"

\* pmm_alloc_pages; without a block it returns 0 and changes nothing.
AllocPages(o) ==
  /\ Take(AllocZone(o), o)
  /\ held' = held \cup {<<Taken(AllocZone(o), o), o>>}
  /\ UNCHANGED <<refcount, dirty, refs, freeing, panicked>>

AllocDma(o) ==
  /\ Take("DMA", o)
  /\ held' = held \cup {<<Taken("DMA", o), o>>}
  /\ UNCHANGED <<refcount, dirty, refs, freeing, panicked>>

\* pmm_alloc_user_page: a single page with one reference.
AllocUserPage ==
  /\ Take(AllocZone(0), 0)
  /\ LET pfn == Taken(AllocZone(0), 0)
     IN  /\ refcount' = [refcount EXCEPT ![pfn] = 1]
         /\ refs' = [refs EXCEPT ![pfn] = 1]
  /\ UNCHANGED <<dirty, held, freeing, panicked>>

\* Somebody writes to pages they hold.
Write(pages) ==
  /\ dirty' = dirty \cup pages
  /\ UNCHANGED <<free_list, is_free, order, refcount, zone_free, held, refs, freeing, panicked>>
------------------------------------------------------------------------------
\* pmm_get_user_page for page p, by a caller that has a reference.
GetUserPage(p) ==
  /\ refs[p] > 0
  /\ IF is_free[p] \/ refcount[p] = 0 \/ refcount[p] = MaxRef
       THEN panicked' = TRUE /\ UNCHANGED <<refcount, refs>>
       ELSE /\ refcount' = [refcount EXCEPT ![p] = @ + 1]
            /\ refs' = [refs EXCEPT ![p] = @ + 1]
            /\ UNCHANGED panicked
  /\ UNCHANGED <<free_list, is_free, order, zone_free, dirty, held, freeing>>

\* The decrement of pmm_put_user_page reaches 0.
LastRef(p) == refcount[p] = 1

\* pmm_put_user_page for page p: the last reference calls pmm_free_pages, without the lock.
PutUserPage(p) ==
  /\ refs[p] > 0 /\ Cardinality(freeing) < Threads
  /\ IF is_free[p] \/ refcount[p] = 0
       THEN panicked' = TRUE /\ UNCHANGED <<refcount, refs, freeing>>
       ELSE /\ refcount' = [refcount EXCEPT ![p] = @ - 1]
            /\ refs' = [refs EXCEPT ![p] = @ - 1]
            /\ freeing' = freeing \cup (IF LastRef(p) THEN {<<p, 0, "call">>} ELSE {})
            /\ UNCHANGED panicked
  /\ UNCHANGED <<free_list, is_free, order, zone_free, dirty, held>>

\* The holder of block b calls pmm_free_pages.
CallFree(b) ==
  /\ b \in held /\ Cardinality(freeing) < Threads
  /\ held' = held \ {b}
  /\ freeing' = freeing \cup {<<b[1], b[2], "call">>}
  /\ UNCHANGED <<free_list, is_free, order, refcount, zone_free, dirty, refs, panicked>>

\* The free f is at stage s, and goes on to the next.
Advance(f, s, next) ==
  /\ f \in freeing /\ f[3] = s
  /\ freeing' = (freeing \ {f}) \cup {<<f[1], f[2], next>>}

\* pmm_free_validate_locked.
Validate(f) ==
  /\ Advance(f, "call", "zero")
  /\ panicked' = (f[1] % 2^f[2] # 0 \/ is_free[f[1]])
  /\ UNCHANGED <<free_list, is_free, order, refcount, zone_free, dirty, held, refs>>

\* memset, without the lock.
Zero(f) ==
  /\ Advance(f, "zero", "insert")
  /\ dirty' = dirty \ Pages(f[1], f[2])
  /\ UNCHANGED <<free_list, is_free, order, refcount, zone_free, held, refs, panicked>>
------------------------------------------------------------------------------
\* Mutant: the loop ends one order early.
MergeableShort(pfn, o) ==
  LET b == Buddy(Block(pfn, o), o)
  IN  o + 2 < MaxOrder /\ b \in Pfns /\ is_free[b] /\ order[b] = o /\ Zone(b) = Zone(pfn)

\* The loop of pmm_free_pages_locked goes on at order o, with the block of that order
\* around pfn: its buddy is free, whole and in the same zone.
Mergeable(pfn, o) ==
  LET b == Buddy(Block(pfn, o), o)
  IN  o + 1 < MaxOrder /\ b \in Pfns /\ is_free[b] /\ order[b] = o /\ Zone(b) = Zone(pfn)

\* The order at which the loop stops.
MergedOrder(pfn, o) == Min({k \in o..MaxOrder : ~Mergeable(pfn, k)})

\* The pages of the merged buddies, which the loop takes off the statistics.
MergedPages(o, top) == 2^top - 2^o

\* pmm_free_pages_locked: the merged buddies leave their lists, the block is pushed.
Insert(f) ==
  LET pfn == f[1]
      top == MergedOrder(pfn, f[2])
      new == Block(pfn, top)
      merged == {Buddy(Block(pfn, k), k) : k \in f[2]..(top - 1)}
      z == Zone(pfn)
      Rest(s) == SelectSeq(s, LAMBDA p : p \notin merged)
  IN  /\ f \in freeing /\ f[3] = "insert"
      /\ freeing' = freeing \ {f}
      /\ free_list' = [free_list EXCEPT ![z] =
           [k \in Orders |-> (IF k = top THEN <<new>> ELSE << >>) \o Rest(@[k])]]
      /\ is_free' = [p \in Pfns |-> p = new \/ (is_free[p] /\ p \notin merged)]
      /\ order' = [order EXCEPT ![new] = top]
      /\ zone_free' = [zone_free EXCEPT ![z] = @ - MergedPages(f[2], top) + 2^top]
      /\ UNCHANGED <<refcount, dirty, held, refs, panicked>>

Alloc == AllocUserPage \/ \E o \in Orders : AllocPages(o) \/ AllocDma(o)

Use == \/ \E b \in held : Write(Pages(b[1], b[2])) \/ CallFree(b)
       \/ \E p \in Pfns : \/ refs[p] > 0 /\ Write({p})
                          \/ GetUserPage(p) \/ PutUserPage(p)

Next == ~panicked /\ (Alloc \/ Use \/ \E f \in freeing : Validate(f) \/ Zero(f) \/ Insert(f))

Spec == Init /\ [][Next]_vars
------------------------------------------------------------------------------
FreeBlocks == {<<p, order[p]>> : p \in {q \in Pfns : is_free[q]}}

InUse == held \cup {<<p, 0>> : p \in {q \in Pfns : refs[q] > 0}}

InFlight == {<<f[1], f[2]>> : f \in freeing}

\* No page is lost or handed out twice: free blocks, blocks in use and blocks being freed
\* without the lock (pmm_free_pages) never share a page and cover the usable memory.  Nor do
\* callers that keep the contract meet a panic other than the overflow of a reference count:
\* the double-free and underflow checks never fire on a legal sequence of calls.
PagesConserved ==
  LET all == FreeBlocks \cup InUse \cup InFlight
  IN  /\ UNION {Pages(b[1], b[2]) : b \in all} = Usable
      /\ \A b, c \in all : b # c => Pages(b[1], b[2]) \cap Pages(c[1], c[2]) = {}
      /\ InFlight \cap (InUse \cup FreeBlocks) = {}
      /\ InUse \cap FreeBlocks = {}
      /\ panicked => \E p \in Pfns : refcount[p] = MaxRef /\ refs[p] = MaxRef

\* The state is well-typed.  PFN_FREE and order say on which list of which zone a block is,
\* and it is there once: what list_remove and the merge loop of pmm_free_pages_locked rely
\* on.  stats.zone_free counts the pages on the lists of the zone.  Memory that is given
\* back becomes whole again: two buddies are never both free, whatever frees overlapped
\* while the lock was dropped for the memset.  Pages on the lists are zero, which is why
\* pmm_alloc_zeroed_pages does not clear them.
FreeListsExact ==
  /\ TypeOK
  /\ \A z \in Zones, o \in Orders :
       LET on == free_list[z][o]
       IN  /\ \A i, j \in DOMAIN on : i # j => on[i] # on[j]
           /\ {on[i] : i \in DOMAIN on} =
                {p \in Pfns : is_free[p] /\ order[p] = o /\ Zone(p) = z}
           /\ \A i \in DOMAIN on : on[i] % 2^o = 0
  /\ \A z \in Zones : zone_free[z] =
       Cardinality({p \in Usable : Zone(p) = z /\ \E b \in FreeBlocks : p \in Pages(b[1], b[2])})
  /\ \A b \in FreeBlocks :
       /\ b[2] + 1 < MaxOrder => <<Buddy(b[1], b[2]), b[2]>> \notin FreeBlocks
       /\ Pages(b[1], b[2]) \cap dirty = {}
=============================================================================
