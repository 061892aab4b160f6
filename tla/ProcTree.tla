------------------------------ MODULE ProcTree ------------------------------
(***************************************************************************)
(* The process tree: process_fork (kernel/kernel/fork.c), and              *)
(* process_exit_current, process_wait and process_reap                     *)
(* (kernel/user/process.c), on the scheduler's sleep and wake (SleepWake). *)
(* Each process has one thread, its main_task, named after it; the threads *)
(* of a group are the subject of ThreadGroup.                              *)
(*                                                                         *)
(* process_tree_lock disables interrupts: a section under it, with the     *)
(* sched_wake inside, is one step.  Everything else is preemptible.        *)
(***************************************************************************)
EXTENDS SleepWake, Sequences, FiniteSets

CONSTANTS InitProc,   \* the process main.c registers; it does not exit
          NoProc,
          AnyChild,   \* the pid argument -1
          MaxForks    \* bound: forks of a behaviour

Procs == Tasks

ASSUME TreeAssumption ==
  /\ InitProc \in Procs
  /\ NoProc \notin Procs
  /\ AnyChild \notin Procs
  /\ MaxForks \in Nat

VARIABLES pstate,     \* proc->state, "NONE" while the struct does not exist
          parent,
          children,   \* first_child and next_sibling, from the first
          pc,
          arg,        \* the pid process_wait looks for, the child fork builds or wait reaps
          forks,
          early       \* history: a task was reaped before sched_exit_current

treeVars == <<pstate, parent, children, pc, arg, forks, early>>
vars == <<swVars, treeVars>>

Waiting == {"scan", "sleep", "woken"}

TypeOK == /\ SWTypeOK
          /\ pstate \in [Procs -> {"NONE", "ALIVE", "ZOMBIE"}]
          /\ parent \in [Procs -> Procs \cup {NoProc}]
          /\ children \in [Procs -> Seq(Procs)]
          /\ pc \in [Procs -> Waiting \cup {"none", "user", "create", "unsplice", "reap",
                                            "exit", "wake_init", "sched_exit", "zombie"}]
          /\ arg \in [Procs -> Procs \cup {NoProc, AnyChild}]
          /\ forks \in 0..MaxForks
          /\ early \in BOOLEAN

Init == /\ state = [p \in Procs |-> IF p = InitProc THEN "READY" ELSE "ABSENT"]
        /\ wake_pending = [p \in Procs |-> 0]
        /\ pstate = [p \in Procs |-> IF p = InitProc THEN "ALIVE" ELSE "NONE"]
        /\ parent = [p \in Procs |-> NoProc]
        /\ children = [p \in Procs |-> << >>]
        /\ pc = [p \in Procs |-> IF p = InitProc THEN "user" ELSE "none"]
        /\ arg = [p \in Procs |-> NoProc]
        /\ forks = 0
        /\ early = FALSE

At(p, l) == Ready(p) /\ pc[p] = l

Goto(p, l) == pc' = [pc EXCEPT ![p] = l]

SetArg(p, a) == arg' = [arg EXCEPT ![p] = a]

Remove(s, c) == SelectSeq(s, LAMBDA x : x # c)

IsChild(c, p) == \E i \in 1..Len(children[p]) : children[p][i] = c
------------------------------------------------------------------------------
\* process_fork, up to the splice: the child is linked before it can run.
Fork(p, c) ==
  /\ At(p, "user") /\ forks < MaxForks
  /\ pstate[c] = "NONE" /\ pc[c] = "none"
  /\ forks' = forks + 1
  /\ pstate' = [pstate EXCEPT ![c] = "ALIVE"]
  /\ parent' = [parent EXCEPT ![c] = p]
  /\ children' = [children EXCEPT ![p] = <<c>> \o @]
  /\ SetArg(p, c)
  /\ Goto(p, "create")
  /\ UNCHANGED <<swVars, early>>

\* sched_create_user_task makes the child runnable.
ForkCreate(p) ==
  /\ At(p, "create")
  /\ Start(arg[p])
  /\ pc' = [pc EXCEPT ![p] = "user", ![arg[p]] = "user"]
  /\ SetArg(p, NoProc)
  /\ UNCHANGED <<pstate, parent, children, forks, early>>

\* It fails: no memory, or JNU_MAX_TASKS tasks.
ForkFail(p) ==
  /\ At(p, "create")
  /\ Goto(p, "unsplice")
  /\ UNCHANGED <<swVars, pstate, parent, children, arg, forks, early>>

\* fail_unsplice: unlink the child, and free it.
ForkUnsplice(p) ==
  /\ At(p, "unsplice")
  /\ children' = [children EXCEPT ![p] = Remove(@, arg[p])]
  /\ parent' = [parent EXCEPT ![arg[p]] = NoProc]
  /\ pstate' = [pstate EXCEPT ![arg[p]] = "NONE"]
  /\ SetArg(p, NoProc)
  /\ Goto(p, "user")
  /\ UNCHANGED <<swVars, forks, early>>
------------------------------------------------------------------------------
\* sys_exit of the only thread, up to the file teardown.
Exit(p) ==
  /\ At(p, "user") /\ p # InitProc
  /\ Goto(p, "exit")
  /\ UNCHANGED <<swVars, pstate, parent, children, arg, forks, early>>

\* Mutant: the children keep their parent pointer.
ReparentListOnly(p) ==
  /\ children' = [children EXCEPT ![p] = << >>, ![InitProc] = children[p] \o @]
  /\ UNCHANGED parent

\* Reparent every child to init, in front of its own.
Reparent(p) ==
  /\ children' = [children EXCEPT ![p] = << >>, ![InitProc] = children[p] \o @]
  /\ parent' = [c \in Procs |-> IF IsChild(c, p) THEN InitProc ELSE parent[c]]

\* Mutant: the parent is woken before the child is marked, in a section of its own
\* (the mark then wakes nobody).
ProcessExitNoWake(p) ==
  /\ At(p, "exit")
  /\ Reparent(p)
  /\ pstate' = [pstate EXCEPT ![p] = "ZOMBIE"]
  /\ Goto(p, IF \E c \in Procs : IsChild(c, p) /\ pstate[c] = "ZOMBIE"
               THEN "wake_init" ELSE "sched_exit")
  /\ UNCHANGED <<swVars, arg, forks, early>>

\* The locked section of process_exit_current: reparent, become a zombie, wake the
\* parent.  Zombies among the children are news for init.
ProcessExit(p) ==
  /\ At(p, "exit")
  /\ Reparent(p)
  /\ pstate' = [pstate EXCEPT ![p] = "ZOMBIE"]
  /\ Wake(parent[p])
  /\ Goto(p, IF \E c \in Procs : IsChild(c, p) /\ pstate[c] = "ZOMBIE"
               THEN "wake_init" ELSE "sched_exit")
  /\ UNCHANGED <<arg, forks, early>>

\* Wake init, after the lock is dropped.
WakeInit(p) ==
  /\ At(p, "wake_init")
  /\ Wake(InitProc)
  /\ Goto(p, "sched_exit")
  /\ UNCHANGED <<pstate, parent, children, arg, forks, early>>

\* sched_exit_current.  A task whose process was reaped already is gone after it.
SchedExit(p) ==
  /\ At(p, "sched_exit")
  /\ Stop(p)
  /\ Goto(p, IF pstate[p] = "ZOMBIE" THEN "zombie" ELSE "none")
  /\ UNCHANGED <<pstate, parent, children, arg, forks, early>>
------------------------------------------------------------------------------
\* process_wait is called.
Wait(p, a) ==
  /\ At(p, "user")
  /\ SetArg(p, a)
  /\ Goto(p, "scan")
  /\ UNCHANGED <<swVars, pstate, parent, children, forks, early>>

\* find_child: the child with that pid, and the first one for -1.
FindChild(p, a) ==
  IF a = AnyChild THEN IF children[p] = << >> THEN NoProc ELSE Head(children[p])
                  ELSE IF IsChild(a, p) THEN a ELSE NoProc

\* unlink_child.
Unlink(p, c) ==
  /\ children' = [children EXCEPT ![p] = Remove(@, c)]
  /\ parent' = [parent EXCEPT ![c] = NoProc]

\* The locked section of the loop: no such child, -ECHILD; a zombie, unlink it and
\* reap; a live one, sleep.
WaitScan(p) ==
  LET c == FindChild(p, arg[p])
  IN  /\ At(p, "scan")
      /\ IF c = NoProc
           THEN SetArg(p, NoProc) /\ Goto(p, "user") /\ UNCHANGED <<children, parent>>
           ELSE IF pstate[c] = "ZOMBIE"
             THEN SetArg(p, c) /\ Goto(p, "reap") /\ Unlink(p, c)
             ELSE Goto(p, "sleep") /\ UNCHANGED <<arg, children, parent>>
      /\ UNCHANGED <<swVars, pstate, forks, early>>

\* sched_sleep_interruptible (nobody marks a single thread).
WaitSleep(p) ==
  /\ At(p, "sleep")
  /\ Sleep(p, "SLEEPING")
  /\ Goto(p, "woken")
  /\ UNCHANGED <<pstate, parent, children, arg, forks, early>>

WaitWoken(p) ==
  /\ At(p, "woken")
  /\ Goto(p, "scan")
  /\ UNCHANGED <<swVars, pstate, parent, children, arg, forks, early>>

\* process_reap frees the process and its task.  A task that has not reached
\* sched_exit_current yet is freed while it is still runnable: it may go on in freed
\* memory, or never run again.
Reap(p) ==
  LET c == arg[p]
  IN  /\ At(p, "reap")
      /\ pstate' = [pstate EXCEPT ![c] = "NONE"]
      /\ SetArg(p, NoProc)
      /\ \/ /\ pc' = [pc EXCEPT ![p] = "user", ![c] = "none"]
            /\ state' = [state EXCEPT ![c] = "ABSENT"]
            /\ UNCHANGED wake_pending
         \/ /\ pc[c] \in {"wake_init", "sched_exit"}
            /\ Goto(p, "user")
            /\ UNCHANGED swVars
      /\ early' = (early \/ pc[c] # "zombie")
      /\ UNCHANGED <<parent, children, forks>>

Proceed(p) == \/ ForkCreate(p)
              \/ ForkFail(p)
              \/ ForkUnsplice(p)
              \/ ProcessExit(p)
              \/ WakeInit(p)
              \/ SchedExit(p)
              \/ WaitScan(p)
              \/ WaitSleep(p)
              \/ WaitWoken(p)
              \/ Reap(p)

Next == \E p \in Procs : \/ Proceed(p)
                         \/ \E c \in Procs : Fork(p, c)
                         \/ Exit(p)
                         \/ \E a \in (Procs \ {p}) \cup {AnyChild} : Wait(p, a)

Spec == Init /\ [][Next]_vars

\* Round robin runs every ready task.
FairSpec == Spec /\ \A p \in Procs : WF_vars(Proceed(p))
------------------------------------------------------------------------------
\* No process is left with a parent that is gone, and every live or zombie process
\* except init has one, unless a wait is reaping it or its fork failed.
NoOrphan ==
  \A c \in Procs : /\ parent[c] # NoProc => pstate[c] # "NONE" /\ pstate[parent[c]] = "ALIVE"
                   /\ pstate[c] # "NONE" /\ parent[c] = NoProc =>
                        c = InitProc \/ \E p \in Procs : pc[p] = "reap" /\ arg[p] = c

\* The state is well-typed.  The two directions of the tree agree, and no process is in a
\* list twice: a parent pointer and a list entry come and go together, across fork, its
\* failure, exit with children and wait; and reparenting leaves no dangling pointer and
\* loses no zombie (NoOrphan).
TreeExact ==
  /\ TypeOK
  /\ \A p \in Procs : /\ \A c \in Procs : IsChild(c, p) <=> parent[c] = p
                      /\ \A i, j \in 1..Len(children[p]) :
                           children[p][i] = children[p][j] => i = j
  /\ NoOrphan

\* A parent never sleeps in wait4(pid) past the death of that child.  While init sleeps in
\* wait4(-1), the child it looks at is not a zombie, unless the exiting parent it inherited
\* that child from is about to wake it (a parent that was reaped too early may be freed
\* with that wake unsent).
WaiterSeesZombie ==
  /\ \A p \in Procs : Asleep(p) /\ arg[p] \in Procs => pstate[arg[p]] # "ZOMBIE"
  /\ ~early /\ Asleep(InitProc) /\ arg[InitProc] = AnyChild /\ children[InitProc] # << >> =>
       \/ pstate[Head(children[InitProc])] # "ZOMBIE"
       \/ \E p \in Procs : pc[p] = "wake_init"

\* A wait for a child that has become a zombie returns.
WaitPidReturns ==
  \A p, c \in Procs :
    pc[p] \in Waiting /\ arg[p] = c /\ parent[c] = p /\ pstate[c] = "ZOMBIE" ~>
      pc[p] \notin Waiting

\* A wait for any child returns when a child is a zombie.
WaitAnyReturns ==
  \A p \in Procs : pc[p] \in Waiting /\ arg[p] = AnyChild
                     /\ (\E c \in Procs : IsChild(c, p) /\ pstate[c] = "ZOMBIE")
                   ~> pc[p] \notin Waiting

\* process_reap frees only tasks that have left the CPU for good.
ReapsOnlyZombies == \A p \in Procs : pc[p] = "reap" => pc[arg[p]] = "zombie"
=============================================================================
