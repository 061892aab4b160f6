------------------------------- MODULE MCBlock -------------------------------
(***************************************************************************)
(* The block layer for TLC: the buffer cache, the request paths of the two *)
(* drivers and their bring-up, each on its own.  `part` says which one a   *)
(* behaviour is about; the others stay in their initial state.             *)
(***************************************************************************)
EXTENDS BufCache, VirtioBlk, Ahci, DriverInit, TLC

CONSTANTS zero, one   \* two contents of a sector

VARIABLE part

blockVars == <<part, vars, vbVars, ahVars, diVars>>

\* A read of two sectors, a write, and a transfer that does not fit.
BlockOps == {[kind |-> "read", lba |-> 0, count |-> 2, val |-> zero],
             [kind |-> "write", lba |-> 0, count |-> 1, val |-> one],
             [kind |-> "write", lba |-> 1, count |-> 2, val |-> zero]}

BlockInit == /\ part \in {"cache", "virtio", "ahci", "boot"}
             /\ Init /\ VbInit /\ AhInit /\ DiInit
             /\ part # "virtio" => vb_enabled
             /\ part # "ahci" => ah_enabled

BlockNext ==
  /\ UNCHANGED part
  /\ \/ part = "cache" /\ Next /\ UNCHANGED <<vbVars, ahVars, diVars>>
     \/ part = "virtio" /\ VbNext /\ UNCHANGED <<vars, ahVars, diVars>>
     \/ part = "ahci" /\ AhNext /\ UNCHANGED <<vars, vbVars, diVars>>
     \/ part = "boot" /\ DiNext /\ UNCHANGED <<vars, vbVars, ahVars>>

BlockSpec == BlockInit /\ [][BlockNext]_blockVars

BlockSymmetry == Permutations(Threads)
=============================================================================
