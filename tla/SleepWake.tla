------------------------------ MODULE SleepWake ------------------------------
(***************************************************************************)
(* What the scheduler promises the code that blocks on it.                 *)
(*                                                                         *)
(* A task is READY (it may execute its next step at any time: the tick     *)
(* preempts at every instant with interrupts enabled, so the run queue     *)
(* order hides no interleaving), SLEEPING until somebody wakes it, TIMED   *)
(* (asleep with a deadline), EXPIRED (ready again because its deadline     *)
(* passed: sleep_timed_out is set), or ABSENT (not created, exited).       *)
(* wake_pending counts the wakes posted to a task that was not asleep.     *)
(*                                                                         *)
(* Sched.tla, the model of sched.c, is shown to implement this module.     *)
(* Mutex, Futex, ThreadGroup, ProcTree, VirtioBlk and Ahci are built on    *)
(* its operators.                                                          *)
(***************************************************************************)
EXTENDS Naturals

CONSTANT Tasks

VARIABLES state, wake_pending

swVars == <<state, wake_pending>>

SWStates == {"READY", "SLEEPING", "TIMED", "EXPIRED", "ABSENT"}

SWTypeOK == /\ state \in [Tasks -> SWStates]
            /\ wake_pending \in [Tasks -> Nat]

\* The task can be given the CPU.
Ready(t) == state[t] \in {"READY", "EXPIRED"}

Asleep(t) == state[t] \in {"SLEEPING", "TIMED"}

\* sched_wake: a credit for a task that is not asleep, the CPU for one that is.
Wake(t) == IF Asleep(t)
             THEN /\ state' = [state EXCEPT ![t] = "READY"]
                  /\ UNCHANGED wake_pending
             ELSE /\ wake_pending' = [wake_pending EXCEPT ![t] = @ + 1]
                  /\ UNCHANGED state

\* sched_wake of every task of S within one critical section.
WakeAll(S) ==
  /\ state' = [t \in Tasks |-> IF t \in S /\ Asleep(t) THEN "READY" ELSE state[t]]
  /\ wake_pending' = [t \in Tasks |-> IF t \in S /\ ~Asleep(t) THEN wake_pending[t] + 1
                                                              ELSE wake_pending[t]]

\* The locked section of a sleep (how: "SLEEPING", or "TIMED" when a deadline
\* is set): a credit posted earlier is consumed instead of sleeping.
Sleep(t, how) ==
  /\ Ready(t)
  /\ IF wake_pending[t] > 0
       THEN /\ wake_pending' = [wake_pending EXCEPT ![t] = @ - 1]
            /\ UNCHANGED state
       ELSE /\ state' = [state EXCEPT ![t] = how]
            /\ UNCHANGED wake_pending

\* sched_consume_wake_pending.
ConsumeWakePending(t) ==
  /\ wake_pending[t] > 0
  /\ wake_pending' = [wake_pending EXCEPT ![t] = @ - 1]
  /\ UNCHANGED state

\* The tick finds the deadline of t passed.
Expire(t) == /\ state[t] = "TIMED"
             /\ state' = [state EXCEPT ![t] = "EXPIRED"]
             /\ UNCHANGED wake_pending

\* A sleep that timed out reports it and clears sleep_timed_out.
ReadTimedOut(t) == /\ state[t] = "EXPIRED"
                   /\ state' = [state EXCEPT ![t] = "READY"]
                   /\ UNCHANGED wake_pending

Start(t) == /\ state[t] = "ABSENT"
            /\ state' = [state EXCEPT ![t] = "READY"]
            /\ wake_pending' = [wake_pending EXCEPT ![t] = 0]

Stop(t) == /\ Ready(t)
           /\ state' = [state EXCEPT ![t] = "ABSENT"]
           /\ UNCHANGED wake_pending

SWInit == /\ state \in [Tasks -> {"READY", "ABSENT"}]
          /\ wake_pending = [t \in Tasks |-> 0]

\* One tick may expire several sleepers at once.
ExpireSome ==
  \E S \in SUBSET {t \in Tasks : state[t] = "TIMED"} :
    /\ state' = [t \in Tasks |-> IF t \in S THEN "EXPIRED" ELSE state[t]]
    /\ UNCHANGED wake_pending

SWNext == \/ \E t \in Tasks : \/ Wake(t)
                              \/ Sleep(t, "SLEEPING")
                              \/ Sleep(t, "TIMED")
                              \/ ConsumeWakePending(t)
                              \/ ReadTimedOut(t)
                              \/ Start(t)
                              \/ Stop(t)
          \/ ExpireSome

SWSpec == SWInit /\ [][SWNext]_swVars
=============================================================================
