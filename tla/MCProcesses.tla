----------------------------- MODULE MCProcesses ------------------------------
(***************************************************************************)
(* Tasks and processes for model checking: the scheduler (K), and the      *)
(* process tree on the contract SleepWake that the scheduler is shown to   *)
(* keep.  A behaviour of this module is one of one of the two, picked at   *)
(* the start.                                                              *)
(***************************************************************************)
EXTENDS ProcTree, TLC

CONSTANTS CpuTasks, Idle, Boot, MaxTasks, MaxTimeout, MaxCredit   \* those of Sched

VARIABLES current, runq, all_tasks, nr_tasks, cpu_state, cpu_credit,
          sleep_deadline, sleep_timed_out, need_die, cpu_pc, timeout,
          part

K == INSTANCE Sched WITH Tasks <- CpuTasks, state <- cpu_state,
                         wake_pending <- cpu_credit, pc <- cpu_pc

cpuVars == <<current, runq, all_tasks, nr_tasks, cpu_state, cpu_credit,
             sleep_deadline, sleep_timed_out, need_die, cpu_pc, timeout>>

ASSUME CpuAssumption == K!SchedAssumption

ProcessesInit == Init /\ K!Init /\ part \in {"cpu", "tree"}

ProcessesNext == /\ UNCHANGED part
                 /\ \/ part = "cpu" /\ K!Next /\ UNCHANGED vars
                    \/ part = "tree" /\ Next /\ UNCHANGED cpuVars

ProcessesSpec == ProcessesInit /\ [][ProcessesNext]_<<vars, cpuVars, part>>

\* All processes but init are interchangeable.
UserSymmetry == Permutations(Procs \ {InitProc})
-------------------------------------------------------------------------------
\* Exactly the RUNNABLE tasks are on sched.c's run queue, and exactly the tasks that exist
\* on its list of all tasks.
TasksExact == K!TasksExact

\* A zombie never gets the CPU again, and only a reap removes it.
ZombieStaysDown == K!ZombieStaysDown

\* Every step of sched.c is a step of SleepWake or invisible to it.
ImplementsSleepWake == K!ImplementsSleepWake
===============================================================================
