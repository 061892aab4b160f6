------------------------------- MODULE MCLocks --------------------------------
(***************************************************************************)
(* Progress for model checking: the scheduler (K), which gives every       *)
(* runnable task the CPU, and the sleeping lock, whose fairness is that    *)
(* promise.  A behaviour of this module is one of one of the two, picked   *)
(* at the start.                                                           *)
(***************************************************************************)
EXTENDS Mutex

CONSTANTS CpuTasks, Idle, Boot, MaxTasks, MaxTimeout, MaxCredit   \* those of Sched

VARIABLES current, runq, all_tasks, nr_tasks, cpu_state, cpu_credit,
          sleep_deadline, sleep_timed_out, need_die, cpu_pc, timeout,
          part

K == INSTANCE Sched WITH Tasks <- CpuTasks, state <- cpu_state,
                         wake_pending <- cpu_credit, pc <- cpu_pc

cpuVars == <<current, runq, all_tasks, nr_tasks, cpu_state, cpu_credit,
             sleep_deadline, sleep_timed_out, need_die, cpu_pc, timeout>>
locksVars == <<vars, cpuVars, part>>

ASSUME CpuAssumption == K!SchedAssumption

LocksInit == Init /\ K!Init /\ part \in {"cpu", "mutex"}

LocksNext == /\ UNCHANGED part
             /\ \/ part = "cpu" /\ K!Next /\ UNCHANGED vars
                \/ part = "mutex" /\ Next /\ UNCHANGED cpuVars

Ticks == part = "cpu" /\ K!Tick /\ UNCHANGED <<vars, part>>
Proceeds(t) == part = "mutex" /\ Proceed(t) /\ UNCHANGED <<cpuVars, part>>

\* The timer keeps ticking; every ready task gets the CPU, and a holder unlocks.
LocksSpec == /\ LocksInit /\ [][LocksNext]_locksVars
             /\ WF_locksVars(Ticks)
             /\ \A t \in Tasks : WF_locksVars(Proceeds(t))
-------------------------------------------------------------------------------
\* A runnable task gets the CPU: sched.c's preemption on every tick is round robin.
RoundRobin == K!RoundRobin

\* A sleep with a deadline ends even if nobody wakes the sleeper.
TimedSleepEnds == K!TimedSleepEnds
===============================================================================
