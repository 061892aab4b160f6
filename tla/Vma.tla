---------------------------------- MODULE Vma ----------------------------------
(***************************************************************************)
(* The areas of an address space, kernel/mm/vma.c over the tree of         *)
(* RbTree, and the system calls of kernel/mm/mmap.c that change them.      *)
(*                                                                         *)
(* Addresses are page numbers.  An area is named by its first page, which  *)
(* is its key in the tree and never changes while the area is linked.  A   *)
(* call is one step: the process has one thread (nothing locks the tree).  *)
(* Each call may run out of memory at any of its allocations: its input    *)
(* `mem` is how many of them succeed.                                      *)
(* The page table entries of an area are the subject of AddrSpace.         *)
(***************************************************************************)
EXTENDS RbTree, Sequences

CONSTANTS VmTop,     \* USER_TOP: the first page that is not the user's
          VmBase,    \* space->mmap_base, the ceiling of mmap's search
          VmProts,   \* VMA_READ, VMA_WRITE, VMA_EXEC: the protections told apart
          VmFree     \* the protection of a page of no area

ASSUME VmAssumption ==
  /\ VmTop \in Nat /\ VmBase \in 2..VmTop
  /\ RbNodes = 1..(VmTop - 1) /\ VmFree \notin VmProts

VmPages == 1..(VmTop - 1)

VARIABLES vm_space,   \* space->vmas: the tree, and end and flags of the areas in it
          vm_want     \* what the calls so far promise for each page: the reference

vmVars == <<vm_space, vm_want>>

VmEmpty == [tree |-> RbEmpty, end |-> [v \in RbNodes |-> 0], prot |-> [v \in RbNodes |-> VmFree]]

VmInit == vm_space = VmEmpty /\ vm_want = [p \in VmPages |-> VmFree]
-------------------------------------------------------------------------------
\* The descent of vma_insert for [a, b): the parent and the side to link at, or a
\* parent that overlaps.
RECURSIVE FindSlot(_, _, _, _, _, _)
FindSlot(m, a, b, n, p, side) ==
  IF n = RbNull THEN [ok |-> TRUE, parent |-> p, side |-> side]
  ELSE IF b <= n THEN FindSlot(m, a, b, Kid(m.tree, "left", n), n, "left")
  ELSE IF a >= m.end[n] THEN FindSlot(m, a, b, Kid(m.tree, "right", n), n, "right")
  ELSE [ok |-> FALSE, parent |-> n, side |-> side]

\* vma_insert of [a, b): ok is FALSE for -EEXIST.
VmaInsert(m, a, b, prot) ==
  LET At(slot) ==
        [ok |-> slot.ok,
         m |-> IF ~slot.ok THEN m
               ELSE [tree |-> InsertColor(LinkNode(m.tree, a, slot.parent, slot.side), a),
                     end |-> [m.end EXCEPT ![a] = b],
                     prot |-> [m.prot EXCEPT ![a] = prot]]]
  IN  At(FindSlot(m, a, b, m.tree.root, RbNull, "left"))

\* vma_remove, and the kfree of the area.
VmaRemove(m, v) == [tree |-> RbErase(m.tree, v),
                    end |-> [m.end EXCEPT ![v] = 0],
                    prot |-> [m.prot EXCEPT ![v] = VmFree]]

RECURSIVE FindFrom(_, _, _)
FindFrom(m, addr, n) ==
  IF n = RbNull THEN RbNull
  ELSE IF addr < n THEN FindFrom(m, addr, Kid(m.tree, "left", n))
  ELSE IF addr >= m.end[n] THEN FindFrom(m, addr, Kid(m.tree, "right", n))
  ELSE n

\* vma_find: the area addr is in.
VmaFind(m, addr) == FindFrom(m, addr, m.tree.root)

\* vma_split_at: the original is taken out, shrunk and put back, then the upper part. An
\* insertion that fails leaves the space as it was.
VmaSplitAt(m, v, boundary) ==
  LET Both(lower, upper) == IF lower.ok /\ upper.ok THEN upper.m ELSE m
      Shrunk(lower) == Both(lower, VmaInsert(lower.m, boundary, m.end[v], m.prot[v]))
  IN  Shrunk(VmaInsert(VmaRemove(m, v), v, boundary, m.prot[v]))

\* What is left of a call: the space so far, the allocations still to succeed, and whether
\* one has failed.
Going(m, mem) == [m |-> m, mem |-> mem, failed |-> FALSE]

\* The area around addr, if it straddles the boundary, is split there.
SplitIf(c, v, straddles, boundary) ==
  IF c.failed \/ ~straddles THEN c
  ELSE IF c.mem = 0 THEN [c EXCEPT !.failed = TRUE]
  ELSE Going(VmaSplitAt(c.m, v, boundary), c.mem - 1)

\* The first half of vma_remove_range and of sys_mprotect.
SplitLower(c, a) == LET At(v) == SplitIf(c, v, v # RbNull /\ v < a, a)
                    IN  At(VmaFind(c.m, a))
SplitUpper(c, b) == LET At(v) == SplitIf(c, v, v # RbNull /\ c.m.end[v] > b, b)
                    IN  At(VmaFind(c.m, b - 1))
SplitEnds(m, a, b, mem) == SplitUpper(SplitLower(Going(m, mem), a), b)

\* Where the second half of both starts to walk: the area at a, or the first one past it.
RECURSIVE SkipBelow(_, _, _)
SkipBelow(m, v, a) == IF v # RbNull /\ m.end[v] <= a THEN SkipBelow(m, RbNext(m.tree, v), a) ELSE v

WalkStart(m, a) == IF VmaFind(m, a) # RbNull THEN VmaFind(m, a) ELSE SkipBelow(m, RbFirst(m.tree), a)

\* The walk of vma_remove_range from area v; the next area is found before v is erased.
RECURSIVE SweepRemove(_, _, _, _)
SweepRemove(m, v, a, b) ==
  IF v = RbNull \/ v >= b THEN m
  ELSE SweepRemove(IF v >= a /\ m.end[v] <= b THEN VmaRemove(m, v) ELSE m,
                   RbNext(m.tree, v), a, b)

\* The walk of sys_mprotect.
RECURSIVE SweepProtect(_, _, _, _, _)
SweepProtect(m, v, a, b, prot) ==
  IF v = RbNull \/ v >= b THEN m
  ELSE SweepProtect(IF v >= a /\ m.end[v] <= b THEN [m EXCEPT !.prot[v] = prot] ELSE m,
                    RbNext(m.tree, v), a, b, prot)

\* vma_remove_range.
VmaRemoveRange(m, a, b, mem) ==
  LET Sweep(c) == IF c.failed THEN c ELSE [c EXCEPT !.m = SweepRemove(@, WalkStart(@, a), a, b)]
  IN  Sweep(SplitEnds(m, a, b, mem))

\* The walk of vma_find_gap_top_down over the areas from v on. 0 is no gap.
RECURSIVE GapWalk(_, _, _, _, _)
GapWalk(m, v, size, prev_end, best) ==
  LET Better(candidate) == IF best = 0 \/ candidate > best THEN candidate ELSE best
  IN  IF v = RbNull \/ v >= VmBase
        THEN IF prev_end < VmBase /\ VmBase - prev_end >= size THEN Better(VmBase - size) ELSE best
        ELSE GapWalk(m, RbNext(m.tree, v), size, m.end[v],
                     IF v > prev_end /\ v - prev_end >= size THEN Better(v - size) ELSE best)

\* vma_find_gap_top_down; page 0 is not the user's.
VmaFindGapTopDown(m, size) ==
  IF m.tree.root = RbNull THEN IF VmBase >= 1 + size THEN VmBase - size ELSE 0
  ELSE GapWalk(m, RbFirst(m.tree), size, 1, 0)
-------------------------------------------------------------------------------
\* What vmm_map_anonymous does once a range is chosen.
PlaceArea(c, a, b, prot) ==
  LET Inserted(ins) == [Going(ins.m, c.mem - 1) EXCEPT !.failed = ~ins.ok]
  IN  IF c.failed \/ c.mem = 0 THEN [c EXCEPT !.failed = TRUE]
      ELSE Inserted(VmaInsert(c.m, a, b, prot))

\* The protection of every page, as vma_find reports it to the fault handler.
VmView(m) == [p \in VmPages |-> IF VmaFind(m, p) = RbNull THEN VmFree ELSE m.prot[VmaFind(m, p)]]

\* The reference: the pages of a range get a protection.
Painted(a, b, prot) == [p \in VmPages |-> IF p \in a..(b - 1) THEN prot ELSE vm_want[p]]

\* The call ends with the space of c; it promises `want`, unless an allocation failed.
Answer(c, want) == /\ vm_space' = c.m
                   /\ vm_want' = IF c.failed THEN vm_want ELSE want

\* sys_mmap with MAP_FIXED (vmm_map_anonymous): what was there goes first, and stays away
\* if the new area cannot be allocated.
MmapFixed(a, b, prot, mem) ==
  /\ a >= 1
  /\ \E gone \in {VmaRemoveRange(vm_space, a, b, mem)} : \E c \in {PlaceArea(gone, a, b, prot)} :
       /\ vm_space' = c.m
       /\ vm_want' = IF gone.failed THEN vm_want
                     ELSE Painted(a, b, IF c.failed THEN VmFree ELSE prot)

\* The reference for a search: the free ranges below the ceiling.
Gaps(size) == {a \in 1..(VmBase - size) : \A p \in a..(a + size - 1) : vm_want[p] = VmFree}

\* sys_mmap without: the highest gap, or -ENOMEM.
MmapAnywhere(size, prot, mem) ==
  LET a == VmaFindGapTopDown(vm_space, size)
      c == Going(vm_space, mem)
      top == CHOOSE g \in Gaps(size) : \A h \in Gaps(size) : h <= g
  IN  /\ vm_space' = IF a = 0 THEN vm_space ELSE PlaceArea(c, a, a + size, prot).m
      /\ vm_want' = IF Gaps(size) = {} \/ mem = 0 THEN vm_want ELSE Painted(top, top + size, prot)

\* sys_munmap.
MunmapRange(a, b, mem) == Answer(VmaRemoveRange(vm_space, a, b, mem), Painted(a, b, VmFree))

\* sys_mprotect; paging_protect is part of AddrSpace, and does not fail on a mapped page.
MprotectRange(a, b, prot, mem) ==
  LET Sweep(c) == IF c.failed THEN c
                  ELSE [c EXCEPT !.m = SweepProtect(@, WalkStart(@, a), a, b, prot)]
  IN  Answer(Sweep(SplitEnds(vm_space, a, b, mem)),
             [p \in VmPages |-> IF vm_want[p] = VmFree THEN VmFree ELSE Painted(a, b, prot)[p]])

\* vmm_clone_space: the areas from v on are inserted in the new space, each in an
\* allocation of its own; an error destroys the new space.
RECURSIVE CloneAreas(_, _, _)
CloneAreas(m, v, c) ==
  IF c.failed \/ v = RbNull THEN c
  ELSE CloneAreas(m, RbNext(m.tree, v), PlaceArea(c, v, m.end[v], m.prot[v]))

\* fork. The model goes on as the child, or, after a failure, as the parent.
CloneSpace(mem) ==
  LET Cloned(c) == IF c.failed THEN [c EXCEPT !.m = vm_space] ELSE c
  IN  Answer(Cloned(CloneAreas(vm_space, RbFirst(vm_space.tree), Going(VmEmpty, mem))), vm_want)

\* vmm_destroy_space: the first area is erased until there is none.
RECURSIVE DestroyAreas(_)
DestroyAreas(m) == IF RbFirst(m.tree) = RbNull THEN m ELSE DestroyAreas(VmaRemove(m, RbFirst(m.tree)))

\* exec or exit, and a new space.
DestroySpace == Answer(Going(DestroyAreas(vm_space), 0), Painted(1, VmTop, VmFree))

\* The ranges a call may be made with: sys_munmap and sys_mprotect take page 0.
VmRanges == {r \in (0..(VmTop - 1)) \X (1..VmTop) : r[1] < r[2]}

VmNext ==
  \/ \E r \in VmRanges :
       \/ \E mem \in 0..2 : MunmapRange(r[1], r[2], mem)
       \/ \E prot \in VmProts, mem \in 0..3 : \/ MmapFixed(r[1], r[2], prot, mem)
                                              \/ MprotectRange(r[1], r[2], prot, mem)
  \/ \E size \in 1..(VmTop - 1), prot \in VmProts, mem \in 0..1 : MmapAnywhere(size, prot, mem)
  \/ \E mem \in 0..VmTop : CloneSpace(mem)
  \/ DestroySpace

VmSpec == VmInit /\ [][VmNext]_vmVars
-------------------------------------------------------------------------------
\* The tree of areas stays a red-black tree in the order of addresses, whatever is split and
\* removed: rb_next meets every area once, in order, and no two overlap.
TreeValid ==
  LET t == vm_space.tree
  IN  /\ RbValid(t)
      /\ \A v \in Below(t, t.root) :
           /\ v < vm_space.end[v]
           /\ RbNext(t, v) # RbNull => RbNext(t, v) >= vm_space.end[v]
           /\ v # RbFirst(t) => \E u \in Below(t, t.root) : RbNext(t, u) = v

\* Splits, rotations and recolourings never change what a page is: after any sequence of
\* the calls of mmap.c, with memory running out anywhere, the tree is valid, vma_find
\* reports for each page what the calls promise (vma_split_at: "the tree matches the page
\* tables"), and mmap took the highest gap below the ceiling.
CallsActOnPages == TreeValid /\ VmView(vm_space) = vm_want
===============================================================================
