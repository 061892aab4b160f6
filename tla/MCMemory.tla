------------------------------- MODULE MCMemory -------------------------------
(***************************************************************************)
(* The kernel's allocators for model checking: the physical pages, the     *)
(* heap above them and the areas of an address space.  Each uses the one   *)
(* below through its contract only, so a behaviour of this module is one   *)
(* of one of the three, picked at the start.                               *)
(***************************************************************************)
EXTENDS Pmm, Slab, Vma, TLC

CONSTANTS small, big   \* two caches: several objects to a page, and one

VARIABLE part

memoryVars == <<vars, slVars, vmVars, part>>

\* Objects of a page, as slab.c has for 1024 and 2048 bytes and for smaller classes.
HeapCapacity == small :> 2 @@ big :> 1

MemoryInit == Init /\ SlInit /\ VmInit /\ part \in {"pages", "heap", "areas"}

MemoryNext == /\ UNCHANGED part
              /\ \/ part = "pages" /\ Next /\ UNCHANGED <<slVars, vmVars>>
                 \/ part = "heap" /\ SlNext /\ UNCHANGED <<vars, vmVars>>
                 \/ part = "areas" /\ VmNext /\ UNCHANGED <<vars, slVars>>

MemorySpec == MemoryInit /\ [][MemoryNext]_memoryVars
===============================================================================
