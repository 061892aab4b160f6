------------------------------- MODULE FifoLock -------------------------------
(***************************************************************************)
(* What mutex.h promises: one holder at a time, and those who wait enter   *)
(* in the order in which they arrived ("FIFO waiter queue").               *)
(***************************************************************************)
EXTENDS Sequences

CONSTANT Tasks

VARIABLES phase, line

Inside == {t \in Tasks : phase[t] = "in"}

FLInit == /\ phase = [t \in Tasks |-> "out"]
          /\ line = << >>

\* The lock is free and nobody waits for it.
EnterFree(t) == /\ phase[t] = "out"
                /\ Inside = {}
                /\ line = << >>
                /\ phase' = [phase EXCEPT ![t] = "in"]
                /\ UNCHANGED line

Arrive(t) == /\ phase[t] = "out"
             /\ phase' = [phase EXCEPT ![t] = "waiting"]
             /\ line' = Append(line, t)

EnterFirst(t) == /\ phase[t] = "waiting"
                 /\ Inside = {}
                 /\ line # << >>
                 /\ Head(line) = t
                 /\ phase' = [phase EXCEPT ![t] = "in"]
                 /\ line' = Tail(line)

Leave(t) == /\ phase[t] = "in"
            /\ phase' = [phase EXCEPT ![t] = "out"]
            /\ UNCHANGED line

FLNext == \E t \in Tasks : \/ EnterFree(t)
                           \/ Arrive(t)
                           \/ EnterFirst(t)
                           \/ Leave(t)

FLSpec == FLInit /\ [][FLNext]_<<phase, line>>
=============================================================================
