---------------------------------- MODULE Slab ----------------------------------
(***************************************************************************)
(* The kernel heap, kernel/mm/slab.c: caches of equal objects in pages     *)
(* taken from the page allocator, kmalloc over one cache per size class,   *)
(* and larger allocations in blocks of pages of their own.                 *)
(*                                                                         *)
(* A cache's lock disables interrupts: kmem_cache_alloc and the locked     *)
(* part of kmem_cache_free are one step each.  kfree reads the kind byte   *)
(* of the page before, without a lock, and large_free has none: other      *)
(* threads run in between.  The callers free what they hold, once.         *)
(* The page allocator is the contract of Pmm: any free, aligned block.     *)
(***************************************************************************)
EXTENDS Integers, Sequences, FiniteSets

CONSTANTS SlPages,      \* pages the page allocator has, 0..SlPages-1
          SlCapacity,   \* per cache, the objects that fit in a page (capacity)
          SlMaxOrder,   \* PMM_MAX_ORDER
          SlThreads,    \* bound: the calls of kfree under way at a time
          SlNone

ASSUME SlAssumption == /\ SlPages \in Nat /\ SlMaxOrder \in Nat \ {0}
                       /\ \A c \in DOMAIN SlCapacity : SlCapacity[c] \in Nat \ {0}

\* The index that stands for a large allocation.
SlWhole == -1

SlPfns == 0..(SlPages - 1)
Caches == DOMAIN SlCapacity

VARIABLES sl_head,      \* per page: kind, cache, used and bitmap, or kind and order
          sl_partial,   \* per cache, the list of pages with a free object
          sl_full,      \* per cache, the list of pages without
          sl_pool,      \* the pages the page allocator has
          sl_live,      \* what callers hold: <<page, index>> or <<page, SlWhole>>
          sl_freeing,   \* calls of kfree under way: <<what, kind read>>
          sl_panic

slVars == <<sl_head, sl_partial, sl_full, sl_pool, sl_live, sl_freeing, sl_panic>>

\* The page allocator zeroes a page before it can be had again: its kind is no kind.
SlBlank == [kind |-> "none", cache |-> SlNone, used |-> 0, bitmap |-> {}, order |-> 0]

\* slab_init: the size classes exist, without pages.
SlInit == /\ sl_head = [p \in SlPfns |-> SlBlank]
          /\ sl_partial = [c \in Caches |-> << >>]
          /\ sl_full = [c \in Caches |-> << >>]
          /\ sl_pool = SlPfns
          /\ sl_live = {}
          /\ sl_freeing = {}
          /\ sl_panic = FALSE
-------------------------------------------------------------------------------
SlBlock(p, o) == p..(p + 2^o - 1)

\* The blocks pmm_alloc_pages may return.
PmmBlocks(o) == {p \in SlPfns : p % 2^o = 0 /\ SlBlock(p, o) \subseteq sl_pool}

\* list_remove.
ListRemove(list, p) == SelectSeq(list, LAMBDA q : q # p)

\* new_slab: the header of a page for cache c.
NewSlab(c) == [SlBlank EXCEPT !.kind = "slab", !.cache = c]

\* alloc_in_slab: the lowest clear bit.
FirstClear(c, bitmap) ==
  CHOOSE i \in 0..(SlCapacity[c] - 1) : /\ i \notin bitmap
                                        /\ \A j \in 0..(i - 1) : j \in bitmap

\* The rest of kmem_cache_alloc for cache c in page p, whose header is h: the page moves to
\* the full list with its last object. `partial` is the partial list with p on it.
AllocIn(c, p, h, partial) ==
  LET i == FirstClear(c, h.bitmap)
      full == h.used + 1 = SlCapacity[c]
  IN  /\ sl_head' = [sl_head EXCEPT ![p] = [h EXCEPT !.used = @ + 1, !.bitmap = @ \cup {i}]]
      /\ sl_partial' = [sl_partial EXCEPT ![c] = IF full THEN ListRemove(partial, p) ELSE partial]
      /\ sl_full' = [sl_full EXCEPT ![c] = IF full THEN <<p>> \o @ ELSE @]
      /\ sl_live' = sl_live \cup {<<p, i>>}

\* kmem_cache_alloc with a page on the partial list.
CacheAlloc(c) ==
  /\ sl_partial[c] # << >>
  /\ LET p == Head(sl_partial[c])
     IN  AllocIn(c, p, sl_head[p], sl_partial[c])
  /\ UNCHANGED <<sl_pool, sl_freeing, sl_panic>>

\* kmem_cache_alloc without: a new page. If there is none, it returns NULL.
CacheGrow(c) ==
  /\ sl_partial[c] = << >>
  /\ \E p \in PmmBlocks(0) :
       /\ AllocIn(c, p, NewSlab(c), <<p>>)
       /\ sl_pool' = sl_pool \ {p}
  /\ UNCHANGED <<sl_freeing, sl_panic>>

\* large_alloc.
LargeAlloc(o) ==
  /\ \E p \in PmmBlocks(o) :
       /\ sl_pool' = sl_pool \ SlBlock(p, o)
       /\ sl_head' = [sl_head EXCEPT ![p] = [SlBlank EXCEPT !.kind = "large", !.order = o]]
       /\ sl_live' = sl_live \cup {<<p, SlWhole>>}
  /\ UNCHANGED <<sl_partial, sl_full, sl_freeing, sl_panic>>

\* kfree of a, up to the read of the kind byte; an unknown kind panics.
Kfree(a) ==
  /\ a \in sl_live /\ Cardinality(sl_freeing) < SlThreads
  /\ sl_live' = sl_live \ {a}
  /\ sl_freeing' = sl_freeing \cup {<<a, sl_head[a[1]].kind>>}
  /\ sl_panic' = (sl_head[a[1]].kind = "none"
                  \/ (sl_head[a[1]].kind = "large" /\ a[2] # SlWhole)
                  \/ (sl_head[a[1]].kind = "slab" /\ sl_head[a[1]].cache = SlNone))
  /\ UNCHANGED <<sl_head, sl_partial, sl_full, sl_pool>>

\* Mutant: the page stays on the full list when its first object is freed.
CacheFreeStaysFull(f) ==
  LET p == f[1][1]
      h == sl_head[p]
      c == h.cache
      empty == h.used = 1
  IN  /\ f \in sl_freeing /\ f[2] = "slab"
      /\ sl_freeing' = sl_freeing \ {f}
      /\ sl_panic' = (f[1][2] \notin h.bitmap)
      /\ sl_head' = [sl_head EXCEPT ![p] =
           IF empty THEN SlBlank ELSE [h EXCEPT !.used = @ - 1, !.bitmap = @ \ {f[1][2]}]]
      /\ sl_partial' = [sl_partial EXCEPT ![c] = IF empty THEN ListRemove(@, p) ELSE @]
      /\ sl_full' = sl_full
      /\ sl_pool' = IF empty THEN sl_pool \cup {p} ELSE sl_pool
      /\ UNCHANGED sl_live

\* kmem_cache_free, called from kfree with the cache of the page: free_in_slab, back to the
\* partial list from the full one, and an empty page goes back to the page allocator.
CacheFree(f) ==
  LET p == f[1][1]
      h == sl_head[p]
      c == h.cache
      wasFull == h.used = SlCapacity[c]
      empty == h.used = 1
      partial == IF wasFull THEN <<p>> \o sl_partial[c] ELSE sl_partial[c]
  IN  /\ f \in sl_freeing /\ f[2] = "slab"
      /\ sl_freeing' = sl_freeing \ {f}
      /\ sl_panic' = (f[1][2] \notin h.bitmap)
      /\ sl_head' = [sl_head EXCEPT ![p] =
           IF empty THEN SlBlank ELSE [h EXCEPT !.used = @ - 1, !.bitmap = @ \ {f[1][2]}]]
      /\ sl_partial' = [sl_partial EXCEPT ![c] = IF empty THEN ListRemove(partial, p) ELSE partial]
      /\ sl_full' = [sl_full EXCEPT ![c] = IF wasFull THEN ListRemove(@, p) ELSE @]
      /\ sl_pool' = IF empty THEN sl_pool \cup {p} ELSE sl_pool
      /\ UNCHANGED sl_live

\* large_free; the header is cleared before the block goes back.
LargeFree(f) ==
  LET p == f[1][1]
  IN  /\ f \in sl_freeing /\ f[2] = "large"
      /\ sl_freeing' = sl_freeing \ {f}
      /\ sl_panic' = (sl_head[p].kind # "large")
      /\ sl_head' = [sl_head EXCEPT ![p] = SlBlank]
      /\ sl_pool' = sl_pool \cup SlBlock(p, sl_head[p].order)
      /\ UNCHANGED <<sl_partial, sl_full, sl_live>>

\* kmalloc picks the class of the size, or a block of pages.
Kmalloc == \/ \E c \in Caches : CacheAlloc(c) \/ CacheGrow(c)
           \/ \E o \in 0..(SlMaxOrder - 1) : LargeAlloc(o)

SlNext == ~sl_panic /\ (\/ Kmalloc
                        \/ \E a \in sl_live : Kfree(a)
                        \/ \E f \in sl_freeing : CacheFree(f) \/ LargeFree(f))

SlSpec == SlInit /\ [][SlNext]_slVars
-------------------------------------------------------------------------------
SlHeld == sl_live \cup {f[1] : f \in sl_freeing}

ListPages(list) == {list[i] : i \in DOMAIN list}

\* The heap is exact while frees overlap: a page's bitmap has the objects that callers hold
\* and no other, its list says whether one is free, and it is on it once; slabs, larger
\* blocks and the page allocator share the pages without overlap, and none is lost (the
\* leak test of slab_selftest). No check in kfree or free_in_slab fires.
HeapExact ==
  LET slabs == {p \in SlPfns : sl_head[p].kind = "slab"}
      large == {p \in SlPfns : sl_head[p].kind = "large"}
      largePages == UNION {SlBlock(p, sl_head[p].order) : p \in large}
  IN  /\ ~sl_panic
      /\ SlHeld = {<<p, SlWhole>> : p \in large} \cup
                  UNION {{<<p, i>> : i \in sl_head[p].bitmap} : p \in slabs}
      /\ \A c \in Caches :
           LET on(full) == {p \in slabs : sl_head[p].cache = c
                              /\ (sl_head[p].used = SlCapacity[c]) = full}
           IN  /\ ListPages(sl_partial[c]) = on(FALSE) /\ Len(sl_partial[c]) = Cardinality(on(FALSE))
               /\ ListPages(sl_full[c]) = on(TRUE) /\ Len(sl_full[c]) = Cardinality(on(TRUE))
      /\ \A p \in slabs : sl_head[p].used = Cardinality(sl_head[p].bitmap) /\ sl_head[p].used > 0
      /\ slabs \cup largePages \cup sl_pool = SlPfns
      /\ Cardinality(slabs) + Cardinality(largePages) + Cardinality(sl_pool) = SlPages
===============================================================================
