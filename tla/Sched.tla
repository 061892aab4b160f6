-------------------------------- MODULE Sched --------------------------------
(***************************************************************************)
(* The round-robin scheduler core, kernel/kernel/sched.c.                  *)
(*                                                                         *)
(* One CPU.  sched_lock disables interrupts, so a locked section is one    *)
(* step; between two steps the tick may preempt the current task.  The     *)
(* steps of the task that has the CPU are the calls it makes on the        *)
(* scheduler; Wake may also come from an interrupt handler.                *)
(* context_switch() happens under sched_lock, and the task that comes in   *)
(* runs sched_finish_switch() before it drops the lock, so a switch and    *)
(* the release of a dead predecessor are one step.  SCHED_QUANTUM_TICKS is *)
(* 1: every tick reschedules.                                              *)
(***************************************************************************)
EXTENDS Naturals, Sequences, FiniteSets

CONSTANTS Tasks,      \* the struct task allocations the model may use
          Idle,       \* idle_task
          Boot,       \* boot_task, one of Tasks: main() never leaves its loop
          MaxTasks,   \* JNU_MAX_TASKS
          MaxTimeout, \* bound: longest timeout, in ticks
          MaxCredit   \* bound: most credits one task collects

\* What is assumed of the constants.
SchedAssumption == /\ Idle \notin Tasks
                   /\ Boot \in Tasks
                   /\ MaxTasks \in Nat
                   /\ MaxTimeout \in Nat
                   /\ MaxCredit \in Nat

VARIABLES current, runq, all_tasks, nr_tasks,
          state, wake_pending,
          sleep_deadline,   \* ticks left until the deadline, 0 for none
          sleep_timed_out,
          need_die,         \* TIF_NEED_DIE
          pc,               \* where in sched_sleep_timed_interruptible
          timeout           \* its local: the deadline it computed

taskVars == <<wake_pending, sleep_deadline, sleep_timed_out, need_die, pc, timeout>>
vars == <<current, runq, all_tasks, nr_tasks, state, taskVars>>

TaskStates == {"FREE", "RUNNABLE", "RUNNING", "SLEEPING", "ZOMBIE", "DEAD"}

TypeOK ==
  /\ current \in Tasks \cup {Idle}
  /\ runq \in Seq(Tasks)
  /\ all_tasks \in SUBSET (Tasks \cup {Idle})
  /\ nr_tasks \in Nat
  /\ state \in [Tasks \cup {Idle} -> TaskStates]
  /\ wake_pending \in [Tasks -> Nat]
  /\ sleep_deadline \in [Tasks -> 0..MaxTimeout]
  /\ sleep_timed_out \in [Tasks -> BOOLEAN]
  /\ need_die \in [Tasks -> BOOLEAN]
  /\ pc \in [Tasks -> {"run", "sleep_lock", "credit_ret", "sleep_ret"}]
  /\ timeout \in [Tasks -> 0..MaxTimeout]

\* sched_init: the boot task runs, the idle task is ready and never queued.
Init ==
  /\ current = Boot
  /\ runq = << >>
  /\ all_tasks = {Boot, Idle}
  /\ nr_tasks = 2
  /\ state = [t \in Tasks \cup {Idle} |->
                IF t = Boot THEN "RUNNING" ELSE IF t = Idle THEN "RUNNABLE" ELSE "FREE"]
  /\ wake_pending = [t \in Tasks |-> 0]
  /\ sleep_deadline = [t \in Tasks |-> 0]
  /\ sleep_timed_out = [t \in Tasks |-> FALSE]
  /\ need_die = [t \in Tasks |-> FALSE]
  /\ pc = [t \in Tasks |-> "run"]
  /\ timeout = [t \in Tasks |-> 0]

\* Mutant: the queue is a stack.
RunqPushFront(q, t) == <<t>> \o q

\* runq_push.
RunqPush(q, t) == Append(q, t)

\* The guard of schedule_locked: the current task goes back to the queue.
Requeue(s) == s[current] = "RUNNING" /\ current # Idle

\* The task states switch_to and sched_finish_switch leave.
SwitchedState(s, next) ==
  [t \in Tasks \cup {Idle} |->
     IF t = next THEN "RUNNING"
     ELSE IF t = current /\ Requeue(s) THEN "RUNNABLE"
     ELSE IF t = current /\ s[t] = "DEAD" THEN "FREE"
     ELSE s[t]]

\* runq_pop, and the idle task when the queue is empty.
NextTask(q) == IF q = << >> THEN Idle ELSE Head(q)

\* sched_finish_switch, after a switch from task states s: a TASK_DEAD predecessor is freed.
FinishSwitch(s) ==
  /\ all_tasks' = IF s[current] = "DEAD" THEN all_tasks \ {current} ELSE all_tasks
  /\ nr_tasks' = IF s[current] = "DEAD" THEN nr_tasks - 1 ELSE nr_tasks

\* schedule_locked from task states s and queue q: requeue the current task if it still
\* runs, and switch to the next.
ScheduleLocked(s, q) ==
  LET q1 == IF Requeue(s) THEN RunqPush(q, current) ELSE q
  IN  /\ current' = NextTask(q1)
      /\ runq' = IF q1 = << >> THEN << >> ELSE Tail(q1)
      /\ state' = SwitchedState(s, NextTask(q1))
      /\ FinishSwitch(s)

\* The task that has the CPU and is at point p of its kernel code.
Runs(t, p) == current = t /\ pc[t] = p

Goto(t, p) == pc' = [pc EXCEPT ![t] = p]
------------------------------------------------------------------------------
\* sched_create_kernel_thread, sched_create_user_task, sched_create_thread_task
\* once their allocations succeeded; at the limit they return -EAGAIN.
Create(t) ==
  /\ \E c \in Tasks : Runs(c, "run")
  /\ state[t] = "FREE"
  /\ nr_tasks < MaxTasks
  /\ state' = [state EXCEPT ![t] = "RUNNABLE"]
  /\ runq' = RunqPush(runq, t)
  /\ all_tasks' = all_tasks \cup {t}
  /\ nr_tasks' = nr_tasks + 1
  /\ wake_pending' = [wake_pending EXCEPT ![t] = 0]
  /\ sleep_deadline' = [sleep_deadline EXCEPT ![t] = 0]
  /\ sleep_timed_out' = [sleep_timed_out EXCEPT ![t] = FALSE]
  /\ need_die' = [need_die EXCEPT ![t] = FALSE]
  /\ Goto(t, "run")
  /\ timeout' = [timeout EXCEPT ![t] = 0]
  /\ UNCHANGED current

\* sched_yield, also from the idle loop.
Yield ==
  /\ current \in Tasks => pc[current] = "run"
  /\ ScheduleLocked(state, runq)
  /\ UNCHANGED taskVars

\* sched_exit_current.
ExitCurrent(t) ==
  /\ Runs(t, "run") /\ t # Boot
  /\ ScheduleLocked([state EXCEPT ![t] = "ZOMBIE"], runq)
  /\ UNCHANGED taskVars

\* sched_exit_detached.
ExitDetached(t) ==
  /\ Runs(t, "run") /\ t # Boot
  /\ ScheduleLocked([state EXCEPT ![t] = "DEAD"], runq)
  /\ UNCHANGED taskVars

\* Mutant: the task is freed and stays on all_tasks.
ReapListed(t) ==
  /\ \E c \in Tasks \ {t} : Runs(c, "run")
  /\ state[t] = "ZOMBIE"
  /\ state' = [state EXCEPT ![t] = "FREE"]
  /\ UNCHANGED <<current, runq, all_tasks, nr_tasks, taskVars>>

\* sched_reap_task, called as its contract says: on a zombie, which is not the
\* current task.
Reap(t) ==
  /\ \E c \in Tasks \ {t} : Runs(c, "run")
  /\ state[t] = "ZOMBIE"
  /\ state' = [state EXCEPT ![t] = "FREE"]
  /\ all_tasks' = all_tasks \ {t}
  /\ nr_tasks' = IF t \in all_tasks THEN nr_tasks - 1 ELSE nr_tasks
  /\ UNCHANGED <<current, runq, taskVars>>

\* sched_sleep_current.
SleepCurrent(t) ==
  /\ Runs(t, "run")
  /\ IF wake_pending[t] > 0
       THEN /\ wake_pending' = [wake_pending EXCEPT ![t] = @ - 1]
            /\ UNCHANGED <<current, runq, all_tasks, nr_tasks, state>>
       ELSE /\ ScheduleLocked([state EXCEPT ![t] = "SLEEPING"], runq)
            /\ UNCHANGED wake_pending
  /\ UNCHANGED <<sleep_deadline, sleep_timed_out, need_die, pc, timeout>>

\* sched_sleep_timed_interruptible(us) before it takes the lock: a task already
\* marked returns -EINTR at once; d = 0 stands for no timeout.
SleepCheck(t, d) ==
  /\ Runs(t, "run")
  /\ ~need_die[t]
  /\ Goto(t, "sleep_lock")
  /\ timeout' = [timeout EXCEPT ![t] = d]
  /\ UNCHANGED <<current, runq, all_tasks, nr_tasks, state, wake_pending,
                 sleep_deadline, sleep_timed_out, need_die>>

\* Its locked section.
SleepLocked(t) ==
  /\ Runs(t, "sleep_lock")
  /\ IF wake_pending[t] > 0
       THEN /\ wake_pending' = [wake_pending EXCEPT ![t] = @ - 1]
            /\ Goto(t, "credit_ret")
            /\ UNCHANGED <<current, runq, all_tasks, nr_tasks, state,
                           sleep_deadline, sleep_timed_out>>
       ELSE /\ sleep_timed_out' = [sleep_timed_out EXCEPT ![t] = FALSE]
            /\ sleep_deadline' = [sleep_deadline EXCEPT ![t] = timeout[t]]
            /\ Goto(t, "sleep_ret")
            /\ ScheduleLocked([state EXCEPT ![t] = "SLEEPING"], runq)
            /\ UNCHANGED wake_pending
  /\ timeout' = [timeout EXCEPT ![t] = 0]
  /\ UNCHANGED need_die

\* Its return after consuming a credit: 0, or -EINTR.
CreditReturn(t) ==
  /\ Runs(t, "credit_ret")
  /\ Goto(t, "run")
  /\ UNCHANGED <<current, runq, all_tasks, nr_tasks, state, wake_pending,
                 sleep_deadline, sleep_timed_out, need_die, timeout>>

\* Its return after sleeping: -EINTR leaves sleep_timed_out alone, -ETIMEDOUT
\* clears it.
SleepReturn(t) ==
  /\ Runs(t, "sleep_ret")
  /\ Goto(t, "run")
  /\ sleep_deadline' = [sleep_deadline EXCEPT ![t] = 0]
  /\ sleep_timed_out' = [sleep_timed_out EXCEPT ![t] = @ /\ need_die[t]]
  /\ UNCHANGED <<current, runq, all_tasks, nr_tasks, state, wake_pending,
                 need_die, timeout>>

\* sched_consume_wake_pending(self).
ConsumeWakePending(t) ==
  /\ Runs(t, "run")
  /\ wake_pending[t] > 0
  /\ wake_pending' = [wake_pending EXCEPT ![t] = @ - 1]
  /\ UNCHANGED <<current, runq, all_tasks, nr_tasks, state,
                 sleep_deadline, sleep_timed_out, need_die, pc, timeout>>

\* Mutant: the credit is not taken back from a task that was asleep.
DoWakeKeepsCredit(t) ==
  /\ wake_pending' = [wake_pending EXCEPT ![t] = @ + 1]
  /\ IF state[t] = "SLEEPING"
       THEN /\ sleep_timed_out' = [sleep_timed_out EXCEPT ![t] = FALSE]
            /\ sleep_deadline' = [sleep_deadline EXCEPT ![t] = 0]
            /\ state' = [state EXCEPT ![t] = "RUNNABLE"]
            /\ runq' = RunqPush(runq, t)
       ELSE UNCHANGED <<state, runq, sleep_deadline, sleep_timed_out>>

\* Mutant: whatever does not run is made runnable.
DoWakeExited(t) ==
  IF state[t] \notin {"RUNNING", "RUNNABLE"}
    THEN /\ sleep_timed_out' = [sleep_timed_out EXCEPT ![t] = FALSE]
         /\ sleep_deadline' = [sleep_deadline EXCEPT ![t] = 0]
         /\ state' = [state EXCEPT ![t] = "RUNNABLE"]
         /\ runq' = RunqPush(runq, t)
         /\ UNCHANGED wake_pending
    ELSE /\ wake_pending' = [wake_pending EXCEPT ![t] = @ + 1]
         /\ UNCHANGED <<state, runq, sleep_deadline, sleep_timed_out>>

\* The body of sched_wake.
DoWake(t) ==
  IF state[t] = "SLEEPING"
    THEN /\ sleep_timed_out' = [sleep_timed_out EXCEPT ![t] = FALSE]
         /\ sleep_deadline' = [sleep_deadline EXCEPT ![t] = 0]
         /\ state' = [state EXCEPT ![t] = "RUNNABLE"]
         /\ runq' = RunqPush(runq, t)
         /\ UNCHANGED wake_pending
    ELSE /\ wake_pending' = [wake_pending EXCEPT ![t] = @ + 1]
         /\ UNCHANGED <<state, runq, sleep_deadline, sleep_timed_out>>

\* sched_wake, from the current task or from an interrupt handler.
Wake(t) ==
  /\ state[t] # "FREE"
  /\ state[t] = "SLEEPING" \/ wake_pending[t] < MaxCredit
  /\ DoWake(t)
  /\ UNCHANGED <<current, all_tasks, nr_tasks, need_die, pc, timeout>>

\* What process_group_exit does to one sibling: the flag, and a wake only for a
\* task it sees asleep.  The boot task has no siblings.
KillTask(t) ==
  /\ t # Boot
  /\ \E c \in Tasks \ {t, Boot} : Runs(c, "run")
  /\ state[t] \in {"RUNNABLE", "SLEEPING"}
  /\ need_die' = [need_die EXCEPT ![t] = TRUE]
  /\ IF state[t] = "SLEEPING"
       THEN DoWake(t)
       ELSE UNCHANGED <<state, runq, wake_pending, sleep_deadline, sleep_timed_out>>
  /\ UNCHANGED <<current, all_tasks, nr_tasks, pc, timeout>>

\* Mutant: the comparison with the deadline is off by one.
ExpiredOffByOne == {t \in Tasks : state[t] = "SLEEPING" /\ sleep_deadline[t] > 1}

\* The sleepers whose deadline this tick reaches.
Expired == {t \in Tasks : state[t] = "SLEEPING" /\ sleep_deadline[t] = 1}

\* The orders in which the walk over all_tasks may meet the tasks of S.
Orders(S) ==
  UNION {{q \in [1..n -> S] : /\ \A t \in S : \E i \in 1..n : q[i] = t
                              /\ \A i, j \in 1..n : q[i] = q[j] => i = j}
         : n \in 0..MaxTasks}

\* sched_tick: sched_expire_timed_sleepers, then preemption.
Tick ==
  /\ sleep_timed_out' = [t \in Tasks |-> sleep_timed_out[t] \/ t \in Expired]
  /\ sleep_deadline' = [t \in Tasks |->
                          IF sleep_deadline[t] > 0 THEN sleep_deadline[t] - 1 ELSE 0]
  /\ \E order \in Orders(Expired) :
       ScheduleLocked([t \in Tasks \cup {Idle} |->
                         IF t \in Expired THEN "RUNNABLE" ELSE state[t]],
                      runq \o order)
  /\ UNCHANGED <<wake_pending, need_die, pc, timeout>>

TaskStep(t) ==
  \/ ExitCurrent(t)
  \/ ExitDetached(t)
  \/ SleepCurrent(t)
  \/ \E d \in 0..MaxTimeout : SleepCheck(t, d)
  \/ SleepLocked(t)
  \/ CreditReturn(t)
  \/ SleepReturn(t)
  \/ ConsumeWakePending(t)

Next == \/ \E t \in Tasks : \/ TaskStep(t)
                            \/ Create(t)
                            \/ Reap(t)
                            \/ Wake(t)
                            \/ KillTask(t)
        \/ Yield
        \/ Tick

Spec == Init /\ [][Next]_vars

\* The timer keeps ticking: lapic_timer.c calls sched_tick on every interrupt.
FairSpec == Spec /\ WF_vars(Tick)
------------------------------------------------------------------------------
Queued(t) == \E i \in 1..Len(runq) : runq[i] = t

\* The state is well-typed.  Exactly the RUNNABLE tasks are on the run queue, each once,
\* and the only task besides idle in state RUNNING is the one that has the CPU: no call
\* sequence drops a runnable task or queues one twice (runq_push would then cut the list).
\* all_tasks lists exactly the tasks that exist, nr_tasks counts them within JNU_MAX_TASKS,
\* and a TASK_DEAD task is gone after the switch away from it: no exit or reap leaks a
\* task or frees one still listed.
TasksExact ==
  /\ TypeOK
  /\ \A t \in Tasks : Queued(t) <=> state[t] = "RUNNABLE"
  /\ \A i, j \in 1..Len(runq) : runq[i] = runq[j] => i = j
  /\ state[current] = "RUNNING"
  /\ \A t \in Tasks : state[t] = "RUNNING" => t = current
  /\ all_tasks = {t \in Tasks \cup {Idle} : state[t] # "FREE"}
  /\ nr_tasks = Cardinality(all_tasks)
  /\ nr_tasks <= MaxTasks
  /\ \A t \in Tasks : state[t] # "DEAD"

\* A zombie never gets the CPU again, and only a reap removes it.
ZombieStaysDown ==
  [][\A t \in Tasks : state[t] = "ZOMBIE" => state'[t] \in {"ZOMBIE", "FREE"}]_vars

\* A runnable task gets the CPU: preemption on every tick is round robin.
RoundRobin == \A t \in Tasks : state[t] = "RUNNABLE" ~> current = t

\* A sleep with a deadline ends even if nobody wakes the sleeper.
TimedSleepEnds ==
  \A t \in Tasks : (state[t] = "SLEEPING" /\ sleep_deadline[t] > 0) ~> state[t] # "SLEEPING"

\* sched.h on sched_sleep_interruptible: returns "-EINTR if a pending-death flag
\* (TIF_NEED_DIE) is set on the caller ... so a group-exit can unwind them": a
\* marked task is not left in an interruptible sleep that has no deadline.
MarkedSleeperUnwinds ==
  \A t \in Tasks : /\ state[t] = "SLEEPING"
                   /\ pc[t] = "sleep_ret"
                   /\ sleep_deadline[t] = 0
                   => ~need_die[t]

\* The contract the blocking code relies on, in terms of this module's state.
absState ==
  [t \in Tasks |->
     IF state[t] \in {"RUNNABLE", "RUNNING"}
       THEN IF sleep_timed_out[t] THEN "EXPIRED" ELSE "READY"
     ELSE IF state[t] = "SLEEPING"
       THEN IF sleep_deadline[t] > 0 THEN "TIMED" ELSE "SLEEPING"
     ELSE "ABSENT"]

SW == INSTANCE SleepWake WITH state <- absState

\* Every step of the scheduler is a step of SleepWake or invisible to it: what
\* mutex.c, futex.c and process.c are checked against is what sched.c provides.
ImplementsSleepWake == SW!SWSpec
=============================================================================
