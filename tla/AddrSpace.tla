------------------------------ MODULE AddrSpace ------------------------------
(***************************************************************************)
(* User address spaces: mmap, munmap and mprotect (kernel/mm/mmap.c),      *)
(* copy-on-write and lazy faults (vmm.c, exceptions.c), the copy for fork  *)
(* (clone_space.c), teardown (paging.c) and writes by the kernel (copy.c), *)
(* on page frames with a reference count (pmm.c).                          *)
(*                                                                         *)
(* A page fault runs with interrupts off: it is one step.  System calls    *)
(* are preempted anywhere, so each access to a page table entry or to a    *)
(* reference count is a step of its own.  Areas are given page by page;    *)
(* page tables below the last level, and execute permission, are left out. *)
(* Each process has one thread in the kernel; with Siblings, others of its *)
(* threads run in user mode meanwhile.                                     *)
(***************************************************************************)
EXTENDS Naturals, FiniteSets

CONSTANTS Spaces, InitSpace, NoSpace,
          NVas,       \* pages of a user address space
          Frames,     \* physical pages for user memory
          ZeroPage,   \* mm_zero_page: never counted, never freed
          NoFrame,
          Unmapped,   \* what a page outside every area reads as
          Siblings    \* do processes have other threads

ASSUME SpaceAssumption ==
  /\ InitSpace \in Spaces /\ NoSpace \notin Spaces
  /\ NVas \in Nat \ {0}
  /\ ZeroPage \notin Frames /\ NoFrame \notin Frames /\ ZeroPage # NoFrame
  /\ Unmapped \notin {0, 1}
  /\ Siblings \in BOOLEAN

Vas == 1..NVas
Values == {0, 1}
Prots == {"r", "rw"}

NoPte == [frame |-> NoFrame, w |-> FALSE]
Ptes == [frame : Frames \cup {ZeroPage, NoFrame}, w : BOOLEAN]

VARIABLES life,       \* of a space: none, building (fork), alive, zombie
          area,       \* the areas, page by page
          pte,
          refcount,   \* of the frames; 0 is free
          contents,
          pc,         \* where the process is in a system call
          va,         \* its cursor
          seen,       \* the page table entry it read, or will write
          child,      \* the space it builds or destroys
          panicked

spaceVars == <<life, area, pte>>
frameVars == <<refcount, contents>>
callVars == <<pc, va, seen, child>>
vars == <<spaceVars, frameVars, callVars, panicked>>

TypeOK == /\ life \in [Spaces -> {"none", "building", "alive", "zombie"}]
          /\ area \in [Spaces -> [Vas -> Prots \cup {"none"}]]
          /\ pte \in [Spaces -> [Vas -> Ptes]]
          /\ refcount \in [Frames -> Nat]
          /\ contents \in [Frames -> Values]
          /\ pc \in [Spaces -> {"user", "read", "strip", "map", "get", "destroy",
                                "clear", "protect", "copy"}]
          /\ va \in [Spaces -> 1..(NVas + 1)]
          /\ seen \in [Spaces -> Ptes]
          /\ child \in [Spaces -> Spaces \cup {NoSpace}]
          /\ panicked \in BOOLEAN

\* The first process, before it maps anything.
Init == /\ life = [s \in Spaces |-> IF s = InitSpace THEN "alive" ELSE "none"]
        /\ area = [s \in Spaces |-> [v \in Vas |-> "none"]]
        /\ pte = [s \in Spaces |-> [v \in Vas |-> NoPte]]
        /\ refcount = [f \in Frames |-> 0]
        /\ contents = [f \in Frames |-> 0]
        /\ pc = [s \in Spaces |-> "user"]
        /\ va = [s \in Spaces |-> 1]
        /\ seen = [s \in Spaces |-> NoPte]
        /\ child = [s \in Spaces |-> NoSpace]
        /\ panicked = FALSE

\* The thread that makes the calls is in user mode; some thread of s is.
InUser(s) == life[s] = "alive" /\ pc[s] = "user"
UserRuns(s) == life[s] = "alive" /\ (pc[s] = "user" \/ Siblings)

At(s, p) == life[s] = "alive" /\ pc[s] = p

Present(p) == p.frame # NoFrame

Counted(p) == p.frame \in Frames

\* pmm_get_user_page, which panics on a page nobody holds.
Get(f) == /\ IF refcount[f] = 0 THEN panicked' = TRUE /\ UNCHANGED refcount
             ELSE refcount' = [refcount EXCEPT ![f] = @ + 1] /\ UNCHANGED panicked
          /\ UNCHANGED contents

\* pmm_put_user_page: panics likewise; the last reference zeroes and frees the page.
Put(f) == IF refcount[f] = 0
            THEN panicked' = TRUE /\ UNCHANGED frameVars
            ELSE /\ refcount' = [refcount EXCEPT ![f] = @ - 1]
                 /\ contents' = IF refcount[f] = 1 THEN [contents EXCEPT ![f] = 0] ELSE contents
                 /\ UNCHANGED panicked

\* What paging_unmap and paging_destroy_user_half do with the frame of an entry.
PutEntry(p) == IF Counted(p) THEN Put(p.frame) ELSE UNCHANGED <<frameVars, panicked>>

Goto(s, p) == pc' = [pc EXCEPT ![s] = p]

\* Back to user mode, the locals forgotten.
Return(s) == /\ Goto(s, "user")
             /\ va' = [va EXCEPT ![s] = 1]
             /\ seen' = [seen EXCEPT ![s] = NoPte]
             /\ child' = [child EXCEPT ![s] = NoSpace]
------------------------------------------------------------------------------
\* User code writes through a writable entry.
Write(s, v, x) ==
  /\ UserRuns(s)
  /\ pte[s][v].w
  /\ contents' = [contents EXCEPT ![pte[s][v].frame] = x]
  /\ UNCHANGED <<spaceVars, refcount, callVars, panicked>>

\* Mutant: the fast path does not look at the reference count.
CowReuseShared(s, v) ==
  /\ Counted(pte[s][v])
  /\ pte' = [pte EXCEPT ![s][v].w = TRUE]
  /\ UNCHANGED frameVars

\* vmm_handle_cow_fault, fast path: the only user of the frame gets it back.
CowReuse(s, v) ==
  /\ Counted(pte[s][v]) /\ refcount[pte[s][v].frame] = 1
  /\ pte' = [pte EXCEPT ![s][v].w = TRUE]
  /\ UNCHANGED frameVars

\* vmm_handle_cow_fault, slow path: a private copy, and the old reference dropped.
CowCopy(s, v) ==
  LET old == pte[s][v].frame
  IN  /\ old \in Frames => refcount[old] # 1
      /\ \E f \in Frames :
           /\ refcount[f] = 0
           /\ pte' = [pte EXCEPT ![s][v] = [frame |-> f, w |-> TRUE]]
           /\ contents' = [contents EXCEPT ![f] = IF old = ZeroPage THEN 0 ELSE contents[old]]
           /\ refcount' = [g \in Frames |-> IF g = f THEN 1
                                            ELSE IF g = old THEN refcount[g] - 1
                                            ELSE refcount[g]]

\* exceptions_handle: a write to a present, read-only entry of a writable area.
CowFault(s, v) ==
  /\ UserRuns(s)
  /\ area[s][v] = "rw" /\ Present(pte[s][v]) /\ ~pte[s][v].w
  /\ CowReuse(s, v) \/ CowCopy(s, v)
  /\ UNCHANGED <<life, area, callVars, panicked>>

\* vmm_handle_lazy_fault for a read: the zero page, not counted.
LazyRead(s, v) ==
  /\ UserRuns(s)
  /\ area[s][v] # "none" /\ ~Present(pte[s][v])
  /\ pte' = [pte EXCEPT ![s][v] = [frame |-> ZeroPage, w |-> FALSE]]
  /\ UNCHANGED <<life, area, frameVars, callVars, panicked>>

\* vmm_handle_lazy_fault for a write: a new frame.
LazyWrite(s, v) ==
  /\ UserRuns(s)
  /\ area[s][v] = "rw" /\ ~Present(pte[s][v])
  /\ \E f \in Frames : /\ refcount[f] = 0
                       /\ refcount' = [refcount EXCEPT ![f] = 1]
                       /\ pte' = [pte EXCEPT ![s][v] = [frame |-> f, w |-> TRUE]]
  /\ UNCHANGED <<life, area, contents, callVars, panicked>>

\* sys_exit; or kill_current_user, when a fault has no permission, no frame or no page
\* table (what the handler allocated is then given back).  The space stays until the reap.
Exit(s) ==
  /\ InUser(s)
  /\ s # InitSpace
  /\ life' = [life EXCEPT ![s] = "zombie"]
  /\ UNCHANGED <<area, pte, frameVars, callVars, panicked>>
------------------------------------------------------------------------------
\* vmm_map_anonymous: an area and no entries.
Mmap(s, v, prot) ==
  /\ InUser(s)
  /\ area[s][v] = "none"
  /\ area' = [area EXCEPT ![s][v] = prot]
  /\ UNCHANGED <<life, pte, frameVars, callVars, panicked>>

\* vma_remove_range and paging_unmap: the reference goes first,
Munmap(s, v) ==
  /\ InUser(s)
  /\ area[s][v] # "none"
  /\ PutEntry(pte[s][v])
  /\ Goto(s, "clear")
  /\ va' = [va EXCEPT ![s] = v]
  /\ UNCHANGED <<spaceVars, seen, child>>

\* then the entry and the area.
MunmapClear(s) ==
  /\ At(s, "clear")
  /\ pte' = [pte EXCEPT ![s][va[s]] = NoPte]
  /\ area' = [area EXCEPT ![s][va[s]] = "none"]
  /\ Return(s)
  /\ UNCHANGED <<life, frameVars, panicked>>

\* sys_mprotect: the area's flags, and the entry to write, without PTE_WRITE on a page that
\* is shared or the zero page;
Mprotect(s, v, prot) ==
  /\ InUser(s)
  /\ area[s][v] # "none"
  /\ area' = [area EXCEPT ![s][v] = prot]
  /\ IF Present(pte[s][v])
       THEN /\ seen' = [seen EXCEPT ![s] =
                 [frame |-> pte[s][v].frame,
                  w     |-> prot = "rw" /\ Counted(pte[s][v])
                              /\ refcount[pte[s][v].frame] <= 1]]
            /\ va' = [va EXCEPT ![s] = v]
            /\ Goto(s, "protect")
       ELSE UNCHANGED <<seen, va, pc>>
  /\ UNCHANGED <<life, pte, frameVars, child, panicked>>

\* paging_protect, which keeps the address the entry has now.
MprotectApply(s) ==
  /\ At(s, "protect")
  /\ pte' = [pte EXCEPT ![s][va[s]].w = seen[s].w]
  /\ Return(s)
  /\ UNCHANGED <<life, area, frameVars, panicked>>

\* copy_to_user: user_range_mapped finds a writable entry (else -EFAULT),
CopyToUser(s, v) ==
  /\ InUser(s)
  /\ pte[s][v].w
  /\ Goto(s, "copy")
  /\ va' = [va EXCEPT ![s] = v]
  /\ UNCHANGED <<spaceVars, frameVars, seen, child, panicked>>

\* and the copy happens later; a fault of the kernel panics.
CopyWrite(s, x) ==
  LET p == pte[s][va[s]]
  IN  /\ At(s, "copy")
      /\ IF p.w THEN contents' = [contents EXCEPT ![p.frame] = x] /\ UNCHANGED panicked
                ELSE UNCHANGED contents /\ panicked' = TRUE
      /\ Return(s)
      /\ UNCHANGED <<spaceVars, refcount>>
------------------------------------------------------------------------------
\* process_fork: vmm_clone_space starts with an empty space for the child.
Fork(s, c) ==
  /\ InUser(s)
  /\ life[c] = "none"
  /\ life' = [life EXCEPT ![c] = "building"]
  /\ area' = [area EXCEPT ![c] = area[s]]
  /\ child' = [child EXCEPT ![s] = c]
  /\ Goto(s, "read")
  /\ UNCHANGED <<pte, frameVars, va, seen, panicked>>

\* Any error after that destroys the child's space.
ForkFails(s) == /\ Goto(s, "destroy")
                /\ va' = [va EXCEPT ![s] = 1]
                /\ seen' = [seen EXCEPT ![s] = NoPte]

NextPage(s) == /\ Goto(s, "read")
               /\ va' = [va EXCEPT ![s] = @ + 1]
               /\ seen' = [seen EXCEPT ![s] = NoPte]

\* clone_one_vma, one page: read the parent's entry,
CloneRead(s) ==
  /\ At(s, "read") /\ va[s] \in Vas
  /\ LET p == pte[s][va[s]]
     IN  IF Present(p)
           THEN /\ seen' = [seen EXCEPT ![s] = p]
                /\ Goto(s, IF p.w THEN "strip" ELSE "map")
                /\ UNCHANGED va
           ELSE NextPage(s)
  /\ UNCHANGED <<spaceVars, frameVars, child, panicked>>

\* Mutant: the parent keeps its writable entry.
CloneStripNot(s) ==
  /\ At(s, "strip")
  /\ Goto(s, "map")
  /\ UNCHANGED <<spaceVars, frameVars, va, seen, child, panicked>>

\* make it read-only,
CloneStrip(s) ==
  /\ At(s, "strip")
  /\ pte' = [pte EXCEPT ![s][va[s]].w = FALSE]
  /\ Goto(s, "map")
  /\ UNCHANGED <<life, area, frameVars, va, seen, child, panicked>>

\* give the child the frame read, read-only (paging_map may find no page for a table),
CloneMap(s) ==
  /\ At(s, "map")
  /\ \/ /\ pte' = [pte EXCEPT ![child[s]][va[s]] = [seen[s] EXCEPT !.w = FALSE]]
        /\ Goto(s, "get")
        /\ UNCHANGED <<va, seen>>
     \/ ForkFails(s) /\ UNCHANGED pte
  /\ UNCHANGED <<life, area, frameVars, child, panicked>>

\* and count it.
CloneGet(s) ==
  /\ At(s, "get")
  /\ IF Counted(seen[s]) THEN Get(seen[s].frame) ELSE UNCHANGED <<frameVars, panicked>>
  /\ NextPage(s)
  /\ UNCHANGED <<spaceVars, child>>

\* process_fork after the copy: the child runs, or a later allocation fails.
ForkDone(s) ==
  /\ At(s, "read") /\ va[s] = NVas + 1
  /\ \/ life' = [life EXCEPT ![child[s]] = "alive"] /\ Return(s)
     \/ ForkFails(s) /\ UNCHANGED <<life, child>>
  /\ UNCHANGED <<area, pte, frameVars, panicked>>

\* process_reap of a zombie, by a process in wait4.
Reap(s, c) ==
  /\ InUser(s)
  /\ life[c] = "zombie"
  /\ life' = [life EXCEPT ![c] = "building"]
  /\ child' = [child EXCEPT ![s] = c]
  /\ Goto(s, "destroy")
  /\ UNCHANGED <<area, pte, frameVars, va, seen, panicked>>

\* paging_destroy_user_half, one entry; the entries are not cleared.
DestroyPage(s) ==
  /\ At(s, "destroy") /\ va[s] \in Vas
  /\ PutEntry(pte[child[s]][va[s]])
  /\ va' = [va EXCEPT ![s] = @ + 1]
  /\ UNCHANGED <<spaceVars, pc, seen, child>>

\* The tables, the areas and the space itself are freed.
DestroyDone(s) ==
  /\ At(s, "destroy") /\ va[s] = NVas + 1
  /\ life' = [life EXCEPT ![child[s]] = "none"]
  /\ area' = [area EXCEPT ![child[s]] = [v \in Vas |-> "none"]]
  /\ pte' = [pte EXCEPT ![child[s]] = [v \in Vas |-> NoPte]]
  /\ Return(s)
  /\ UNCHANGED <<frameVars, panicked>>
------------------------------------------------------------------------------
Next == /\ ~panicked
        /\ \E s \in Spaces :
             \/ \E v \in Vas : \/ \E x \in Values : Write(s, v, x)
                              \/ CowFault(s, v) \/ LazyRead(s, v) \/ LazyWrite(s, v)
                              \/ \E prot \in Prots : Mmap(s, v, prot) \/ Mprotect(s, v, prot)
                              \/ Munmap(s, v) \/ CopyToUser(s, v)
             \/ Exit(s) \/ MunmapClear(s) \/ MprotectApply(s)
             \/ \E x \in Values : CopyWrite(s, x)
             \/ \E c \in Spaces : Fork(s, c) \/ Reap(s, c)
             \/ CloneRead(s) \/ CloneStrip(s) \/ CloneMap(s) \/ CloneGet(s)
             \/ ForkDone(s) \/ DestroyPage(s) \/ DestroyDone(s)

Spec == Init /\ [][Next]_vars
------------------------------------------------------------------------------
\* An entry whose reference the page of a call in progress has already given back, or
\* has yet to take.
InTransit(s, v) ==
  \/ pc[s] = "clear" /\ va[s] = v
  \/ \E p \in Spaces : /\ child[p] = s
                      /\ \/ pc[p] = "destroy" /\ v < va[p]
                         \/ pc[p] = "get" /\ v = va[p]

Users(f) == {u \in Spaces \X Vas : pte[u[1]][u[2]].frame = f /\ ~InTransit(u[1], u[2])}

(***************************************************************************)
(* The reference count of a frame is the number of entries that map it, at *)
(* every point of fork, munmap, the copy on write and the teardown: no     *)
(* page is freed while mapped, none is leaked when a fork fails half way   *)
(* (clone_space.c, paging.c, pmm.c).  A frame one process can write is in  *)
(* no other page table: fork, the copy on write and mprotect never let two *)
(* entries share a writable page, nor make the zero page writable (vmm.c,  *)
(* mmap.c).  No sequence of calls reaches a panic of pmm_get_user_page or  *)
(* pmm_put_user_page, nor a fault of the kernel on a page that             *)
(* user_range_mapped found writable (pmm.c, copy.c).  The state has its    *)
(* type.                                                                   *)
(***************************************************************************)
SharingExact ==
  /\ TypeOK
  /\ \A f \in Frames : refcount[f] = Cardinality(Users(f))
  /\ \A s \in Spaces, v \in Vas :
       pte[s][v].w /\ ~InTransit(s, v) =>
         /\ pte[s][v].frame \in Frames
         /\ Users(pte[s][v].frame) = {<<s, v>>}
         /\ life[s] = "alive" /\ pc[s] = "user" => area[s][v] = "rw"
  /\ ~panicked

\* What user code of s reads at v.
Reads(s, v) == IF \/ life[s] # "alive" \/ area[s][v] = "none"
                  \/ pc[s] = "clear" /\ va[s] = v
                 THEN Unmapped
                 ELSE IF Counted(pte[s][v]) THEN contents[pte[s][v].frame] ELSE 0

Abstract == INSTANCE PrivateMemory
              WITH Zero <- 0,
                   mem  <- [s \in Spaces |-> [v \in Vas |-> Reads(s, v)]],
                   live <- {s \in Spaces : life[s] = "alive"}

(***************************************************************************)
(* Processes that share frames behave as if each had a memory of its own:  *)
(* a write is seen by the process that made it and by no other, a fresh    *)
(* mapping reads as zero even when its frame was another's, and a child    *)
(* starts with what its parent has at the return of fork.                  *)
(***************************************************************************)
ImplementsPrivateMemory == Abstract!PMSpec
=============================================================================
