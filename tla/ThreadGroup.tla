----------------------------- MODULE ThreadGroup -----------------------------
(***************************************************************************)
(* The threads of one process, from clone to the zombie that wait4 finds:  *)
(* process_clone_thread, process_thread_exit and process_group_exit        *)
(* (kernel/kernel/clone.c), the return-to-user gate (retire.c), the fatal  *)
(* exception path (exceptions.c) and the interruptible sleeps that a group *)
(* exit has to unwind (sched.c, through SleepWake).                        *)
(*                                                                         *)
(* process_tree_lock and sched_lock disable interrupts, so each section    *)
(* under one of them is a step.  A task that enters ring 3 for the first   *)
(* time passes no gate: "fresh" is user mode with the mark unchecked.      *)
(***************************************************************************)
EXTENDS SleepWake, Sequences, FiniteSets

CONSTANTS Leader,       \* the first task of the process
          NoTask,
          Freed,        \* a struct task that was freed while someone held it
          Codes,        \* exit codes the threads use; 0 is the initial one
          MaxThreads,   \* JNU_MAX_THREADS_PER_GROUP
          Blocking,     \* the kinds of sleep the threads enter
          SiblingFaults \* may a thread fault while it has siblings

ASSUME GroupAssumption ==
  /\ Leader \in Tasks
  /\ NoTask \notin Tasks /\ Freed \notin Tasks
  /\ Codes \subseteq 1..254
  /\ MaxThreads \in Nat \ {0}
  /\ Blocking \subseteq {"SLEEPING", "TIMED"}
  /\ SiblingFaults \in BOOLEAN

VARIABLES tasks,            \* proc->tasks, the newest first
          main_task,
          live_threads,
          pstate,           \* proc->state
          exit_status,
          group_exit_code,
          need_die,         \* TIF_NEED_DIE, per task
          pc,
          status,           \* the argument of process_thread_exit
          child             \* the task pointer process_clone_thread holds

groupVars == <<tasks, main_task, live_threads>>
exitVars == <<pstate, exit_status, group_exit_code>>
taskVars == <<need_die, status, child>>
vars == <<swVars, groupVars, exitVars, taskVars, pc>>

FaultCode == 255   \* (-1) & 0xFF

Points == {"none", "fresh", "user", "sleep", "sleep_ret", "clone_call", "clone", "clone_fail",
           "clone_tid", "group_call", "exit", "detach", "last", "sched_exit", "zombie", "faulted"}

TypeOK == /\ SWTypeOK
          /\ tasks \in Seq(Tasks)
          /\ main_task \in Tasks \cup {NoTask}
          /\ live_threads \in 0..MaxThreads
          /\ pstate \in {"ALIVE", "ZOMBIE"}
          /\ exit_status \in Codes \cup {0, FaultCode}
          /\ group_exit_code \in Codes \cup {0}
          /\ need_die \in [Tasks -> BOOLEAN]
          /\ pc \in [Tasks -> Points]
          /\ status \in [Tasks -> Codes \cup {0}]
          /\ child \in [Tasks -> Tasks \cup {NoTask, Freed}]

Init == /\ state = [t \in Tasks |-> IF t = Leader THEN "READY" ELSE "ABSENT"]
        /\ wake_pending = [t \in Tasks |-> 0]
        /\ tasks = <<Leader>>
        /\ main_task = Leader
        /\ live_threads = 1
        /\ pstate = "ALIVE" /\ exit_status = 0 /\ group_exit_code = 0
        /\ need_die = [t \in Tasks |-> FALSE]
        /\ pc = [t \in Tasks |-> IF t = Leader THEN "fresh" ELSE "none"]
        /\ status = [t \in Tasks |-> 0]
        /\ child = [t \in Tasks |-> NoTask]

At(t, p) == Ready(t) /\ pc[t] = p

Goto(t, p) == pc' = [pc EXCEPT ![t] = p]

\* In ring 3.  A marked task got there only if it passed no gate yet.
UserMode(t) == At(t, "fresh") \/ (At(t, "user") /\ ~need_die[t])
------------------------------------------------------------------------------

\* process_clone_thread counts the thread before it creates it; at the limit it
\* returns -EAGAIN.
CloneReserve(t) ==
  /\ At(t, "clone_call")
  /\ live_threads' = IF live_threads < MaxThreads THEN live_threads + 1 ELSE live_threads
  /\ Goto(t, IF live_threads < MaxThreads THEN "clone" ELSE "user")
  /\ UNCHANGED <<swVars, tasks, main_task, exitVars, taskVars>>

\* sched_create_thread_task: link the new task and make it runnable.
CloneCreate(t, n) ==
  /\ At(t, "clone")
  /\ pc[n] = "none"
  /\ tasks' = <<n>> \o tasks
  /\ child' = [child EXCEPT ![t] = n]
  /\ pc' = [pc EXCEPT ![t] = "clone_tid", ![n] = "fresh"]
  /\ Start(n)
  /\ UNCHANGED <<main_task, live_threads, exitVars, need_die, status>>

\* No memory, or JNU_MAX_TASKS tasks.
CloneNoTask(t) ==
  /\ At(t, "clone")
  /\ Goto(t, "clone_fail")
  /\ UNCHANGED <<swVars, groupVars, exitVars, taskVars>>

CloneFail(t) ==
  /\ At(t, "clone_fail")
  /\ live_threads' = live_threads - 1
  /\ Goto(t, "user")
  /\ UNCHANGED <<swVars, tasks, main_task, exitVars, taskVars>>

\* *tid_out = task->tid: the new thread may have run, exited and been freed.
CloneReadTid(t) ==
  /\ At(t, "clone_tid")
  /\ child' = [child EXCEPT ![t] = NoTask]
  /\ Goto(t, "user")
  /\ UNCHANGED <<swVars, groupVars, exitVars, need_die, status>>
------------------------------------------------------------------------------
Without(t) == SelectSeq(tasks, LAMBDA u : u # t)

\* group_remove_task, and main_task follows.
LeaveGroup(t) ==
  /\ tasks' = Without(t)
  /\ main_task' = IF main_task # t THEN main_task
                  ELSE IF Without(t) = << >> THEN NoTask ELSE Head(Without(t))

\* The locked section of process_thread_exit(s).
ThreadExit(t, s) ==
  /\ live_threads' = live_threads - 1
  /\ status' = [status EXCEPT ![t] = s]
  /\ IF live_threads > 1
       THEN LeaveGroup(t) /\ Goto(t, "detach")
       ELSE UNCHANGED <<tasks, main_task>> /\ Goto(t, "last")
  /\ UNCHANGED <<swVars, exitVars, need_die, child>>

\* sys_exit, and the end of process_group_exit.
Exit(t) == At(t, "exit") /\ ThreadExit(t, status[t])

\* What the scheduler's deferred reap leaves of a TASK_DEAD task.
Free(t) ==
  /\ Stop(t)
  /\ need_die' = [need_die EXCEPT ![t] = FALSE]
  /\ status' = [status EXCEPT ![t] = 0]
  /\ child' = [u \in Tasks |-> IF child[u] = t THEN Freed ELSE child[u]]
  /\ Goto(t, "none")

\* clear_child_tid (its wake is in Futex) and sched_exit_detached.
Detach(t) ==
  /\ At(t, "detach")
  /\ Free(t)
  /\ UNCHANGED <<groupVars, exitVars>>

\* The gate: a marked thread retires with the group's code.  Interrupts are off, so
\* all of process_thread_exit runs at once, up to the file teardown of a last thread.
Retire(t) ==
  /\ (At(t, "fresh") \/ At(t, "user")) /\ need_die[t]
  /\ live_threads' = live_threads - 1
  /\ IF live_threads > 1
       THEN LeaveGroup(t) /\ Free(t)
       ELSE /\ status' = [status EXCEPT ![t] = group_exit_code]
            /\ Goto(t, "last")
            /\ UNCHANGED <<swVars, tasks, main_task, need_die, child>>
  /\ UNCHANGED exitVars

\* process_exit_current: close the files, become a zombie, wake the parent (ProcTree).
ProcessExit(t) ==
  /\ At(t, "last")
  /\ pstate' = "ZOMBIE"
  /\ exit_status' = status[t]
  /\ Goto(t, "sched_exit")
  /\ UNCHANGED <<swVars, groupVars, group_exit_code, taskVars>>

\* sched_exit_current.
SchedExit(t) ==
  /\ At(t, "sched_exit")
  /\ Stop(t)
  /\ Goto(t, "zombie")
  /\ UNCHANGED <<groupVars, exitVars, taskVars>>

\* process_group_exit: record the code, mark the siblings and wake the sleepers.
GroupExit(t) ==
  LET siblings == {u \in Tasks \ {t} : \E i \in 1..Len(tasks) : tasks[i] = u}
  IN  /\ At(t, "group_call")
      /\ group_exit_code' = status[t]
      /\ need_die' = [u \in Tasks |-> need_die[u] \/ u \in siblings]
      /\ WakeAll({u \in siblings : Asleep(u)})
      /\ Goto(t, "exit")
      /\ UNCHANGED <<groupVars, pstate, exit_status, status, child>>

\* kill_current_user, for a fault in ring 3: process_exit_current(-1) and
\* sched_exit_current with interrupts off.
FaultKill(t) ==
  /\ UserMode(t)
  /\ SiblingFaults \/ live_threads = 1
  /\ pstate' = "ZOMBIE"
  /\ exit_status' = FaultCode
  /\ Stop(t)
  /\ Goto(t, "faulted")
  /\ UNCHANGED <<groupVars, group_exit_code, taskVars>>
------------------------------------------------------------------------------
\* A blocking syscall: sched_sleep_timed_interruptible checks for death...
SleepCheck(t) ==
  /\ UserMode(t)
  /\ Goto(t, IF need_die[t] THEN "user" ELSE "sleep")
  /\ UNCHANGED <<swVars, groupVars, exitVars, taskVars>>

\* ... and blocks unless a wake is pending.
SleepLocked(t, how) ==
  /\ At(t, "sleep")
  /\ Sleep(t, how)
  /\ Goto(t, "sleep_ret")
  /\ UNCHANGED <<groupVars, exitVars, taskVars>>

\* Mutant: the blocking syscall goes back to sleep when it is interrupted.
SleepReturnRetries(t) ==
  /\ At(t, "sleep_ret")
  /\ state' = [state EXCEPT ![t] = "READY"]
  /\ Goto(t, IF need_die[t] THEN "sleep" ELSE "user")
  /\ UNCHANGED <<wake_pending, groupVars, exitVars, taskVars>>

\* Whatever the sleep returned, the syscall unwinds to the gate.
SleepReturn(t) ==
  /\ At(t, "sleep_ret")
  /\ state' = [state EXCEPT ![t] = "READY"]
  /\ Goto(t, "user")
  /\ UNCHANGED <<wake_pending, groupVars, exitVars, taskVars>>

\* A sibling's syscall wakes a thread that sleeps, or is about to (futex_wake).
UserWake(t, u) ==
  /\ UserMode(t)
  /\ Asleep(u) \/ (At(u, "sleep") /\ wake_pending[u] = 0)
  /\ Wake(u)
  /\ UNCHANGED <<groupVars, exitVars, taskVars, pc>>

Timeout(t) == Expire(t) /\ UNCHANGED <<groupVars, exitVars, taskVars, pc>>

\* The steps of a thread in the kernel, or at the gate.
Proceed(t) == \/ CloneReserve(t)
              \/ \E n \in Tasks : CloneCreate(t, n)
              \/ CloneNoTask(t)
              \/ CloneFail(t)
              \/ CloneReadTid(t)
              \/ Detach(t)
              \/ Retire(t)
              \/ ProcessExit(t)
              \/ SchedExit(t)
              \/ Exit(t)
              \/ GroupExit(t)
              \/ \E how \in Blocking : SleepLocked(t, how)
              \/ SleepReturn(t)

\* A thread enters sys_clone, sys_exit or sys_exit_group; it may be preempted, and
\* marked, before the call reaches its first lock.
EnterClone(t) ==
  /\ UserMode(t)
  /\ Goto(t, "clone_call")
  /\ UNCHANGED <<swVars, groupVars, exitVars, taskVars>>

EnterExit(t, p, s) ==
  /\ UserMode(t)
  /\ Goto(t, p)
  /\ status' = [status EXCEPT ![t] = s]
  /\ UNCHANGED <<swVars, groupVars, exitVars, need_die, child>>

\* What user code may ask for.
Syscall(t) == \/ EnterClone(t)
              \/ \E p \in {"exit", "group_call"}, s \in Codes : EnterExit(t, p, s)
              \/ FaultKill(t)
              \/ Blocking # {} /\ SleepCheck(t)
              \/ \E u \in Tasks : UserWake(t, u)

Next == \E t \in Tasks : Proceed(t) \/ Syscall(t) \/ Timeout(t)

Spec == Init /\ [][Next]_vars

\* Round robin runs every ready thread; the clock reaches every deadline.
FairSpec == Spec /\ \A t \in Tasks : WF_vars(Proceed(t)) /\ WF_vars(Timeout(t))
------------------------------------------------------------------------------
Linked(t) == \E i \in 1..Len(tasks) : tasks[i] = t


\* exit_group's mark is fatal: a marked thread stops existing, if its sleeps end.
MarkedRetires ==
  \A t \in Tasks : need_die[t] ~> pc[t] \in {"none", "zombie", "faulted"}

\* exit_group terminates the entire thread group.
GroupExitEnds == group_exit_code # 0 ~> pstate = "ZOMBIE"

\* After exit_group the process reports its code, whichever thread is last (a fault
\* has a code of its own).
GroupCodeReported ==
  pstate = "ZOMBIE" /\ group_exit_code # 0 => exit_status \in {group_exit_code, FaultCode}

\* process_clone_thread reads the tid of a thread that still exists.
CloneChildExists == \A t \in Tasks : pc[t] = "clone_tid" => child[t] # Freed
=============================================================================
