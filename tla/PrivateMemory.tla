---------------------------- MODULE PrivateMemory ----------------------------
(***************************************************************************)
(* What the memory of a process promises: every process has a memory of    *)
(* its own, which only its own steps change; a fresh mapping reads as      *)
(* zero, and a forked child starts with a copy of its parent's.            *)
(*                                                                         *)
(* AddrSpace.tla, which shares page frames and copies them on the first    *)
(* write, is shown to implement it.                                        *)
(***************************************************************************)
CONSTANTS Spaces, Vas, Values, Zero, Unmapped, InitSpace

VARIABLES mem, live

Nothing == [va \in Vas |-> Unmapped]

PMInit == /\ live = {InitSpace}
          /\ mem = [s \in Spaces |-> Nothing]

PMWrite(s, va, v) == /\ s \in live
                     /\ mem[s][va] # Unmapped
                     /\ mem' = [mem EXCEPT ![s][va] = v]
                     /\ UNCHANGED live

PMMap(s, va) == /\ s \in live
                /\ mem[s][va] = Unmapped
                /\ mem' = [mem EXCEPT ![s][va] = Zero]
                /\ UNCHANGED live

PMUnmap(s, va) == /\ s \in live
                  /\ mem[s][va] # Unmapped
                  /\ mem' = [mem EXCEPT ![s][va] = Unmapped]
                  /\ UNCHANGED live

PMFork(s, c) == /\ s \in live /\ c \notin live
                /\ live' = live \cup {c}
                /\ mem' = [mem EXCEPT ![c] = mem[s]]

PMExit(s) == /\ s \in live
             /\ live' = live \ {s}
             /\ mem' = [mem EXCEPT ![s] = Nothing]

PMNext == \E s \in Spaces :
            \/ \E va \in Vas : \/ \E v \in Values : PMWrite(s, va, v)
                               \/ PMMap(s, va)
                               \/ PMUnmap(s, va)
            \/ \E c \in Spaces : PMFork(s, c)
            \/ PMExit(s)

PMSpec == PMInit /\ [][PMNext]_<<mem, live>>
=============================================================================
