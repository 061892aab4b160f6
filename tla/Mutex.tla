-------------------------------- MODULE Mutex --------------------------------
(***************************************************************************)
(* The sleeping lock, kernel/lib/mutex.c, on the scheduler's sleep and     *)
(* wake (SleepWake).  m->guard disables interrupts, so each guarded        *)
(* section is one step and the tick may switch tasks between any two.      *)
(*                                                                         *)
(* The waiter node lives on the waiter's kernel stack: when mutex_lock     *)
(* returns, a pointer to it that an unlocker still holds is Dangling.      *)
(***************************************************************************)
EXTENDS SleepWake, Sequences

CONSTANTS NoTask,     \* the NULL owner
          Dangling,   \* a pointer to a stack frame that is gone
          MaxStray    \* bound: wakes that other subsystems post

ASSUME MutexAssumption == /\ NoTask \notin Tasks
                          /\ Dangling \notin Tasks
                          /\ NoTask # Dangling
                          /\ MaxStray \in Nat

VARIABLES owner, waiters,
          pc,      \* where each task is in mutex_lock / mutex_unlock
          next,    \* mutex_unlock's local: whose node it holds a pointer to
          stray    \* wakes posted by other subsystems so far

vars == <<state, wake_pending, owner, waiters, pc, next, stray>>

TypeOK == /\ state \in [Tasks -> {"READY", "SLEEPING"}]
          /\ wake_pending \in [Tasks -> Nat]
          /\ owner \in Tasks \cup {NoTask}
          /\ waiters \in Seq(Tasks)
          /\ pc \in [Tasks -> {"out", "sleep", "check", "held", "wake", "panic"}]
          /\ next \in [Tasks -> Tasks \cup {NoTask, Dangling}]
          /\ stray \in 0..MaxStray

\* mutex_init.
Init == /\ state = [t \in Tasks |-> "READY"]
        /\ wake_pending = [t \in Tasks |-> 0]
        /\ owner = NoTask
        /\ waiters = << >>
        /\ pc = [t \in Tasks |-> "out"]
        /\ next = [t \in Tasks |-> NoTask]
        /\ stray = 0

At(t, p) == Ready(t) /\ pc[t] = p

Goto(t, p) == pc' = [pc EXCEPT ![t] = p]
------------------------------------------------------------------------------
\* mutex_lock up to the first release of the guard.
Lock(t) ==
  /\ At(t, "out")
  /\ Goto(t, IF owner = t THEN "panic" ELSE IF owner = NoTask THEN "held" ELSE "sleep")
  /\ owner' = IF owner = NoTask THEN t ELSE owner
  /\ waiters' = IF owner \in {t, NoTask} THEN waiters ELSE Append(waiters, t)
  /\ UNCHANGED <<swVars, next, stray>>

\* Mutant: the loop looks at the owner before it sleeps.
LockSleepEager(t) ==
  /\ At(t, "sleep")
  /\ IF owner = t THEN UNCHANGED swVars ELSE Sleep(t, "SLEEPING")
  /\ Goto(t, "check")
  /\ UNCHANGED <<owner, waiters, next, stray>>

\* The sched_sleep_current of mutex_lock's loop.
LockSleep(t) ==
  /\ At(t, "sleep")
  /\ Sleep(t, "SLEEPING")
  /\ Goto(t, "check")
  /\ UNCHANGED <<owner, waiters, next, stray>>

\* Mutant: any wake is taken for the handoff.
LockCheckTrusting(t) ==
  /\ At(t, "check")
  /\ Goto(t, "held")
  /\ UNCHANGED <<swVars, owner, waiters, next, stray>>

\* The re-check under the guard; the owner returns and its node is gone.
LockCheck(t) ==
  /\ At(t, "check")
  /\ IF owner = t
       THEN /\ Goto(t, "held")
            /\ next' = [u \in Tasks |-> IF next[u] = t THEN Dangling ELSE next[u]]
       ELSE /\ Goto(t, "sleep")
            /\ UNCHANGED next
  /\ UNCHANGED <<swVars, owner, waiters, stray>>

\* Mutant: the lock is released and the woken waiter must take it.
UnlockNoHandoff(t) ==
  /\ At(t, "held")
  /\ owner' = NoTask
  /\ waiters' = IF waiters = << >> THEN << >> ELSE Tail(waiters)
  /\ next' = [next EXCEPT ![t] = IF waiters = << >> THEN NoTask ELSE Head(waiters)]
  /\ Goto(t, IF waiters = << >> THEN "out" ELSE "wake")
  /\ UNCHANGED <<swVars, stray>>

\* Mutant: the last waiter to arrive is served first.
UnlockLifo(t) ==
  /\ At(t, "held")
  /\ IF waiters = << >>
       THEN /\ owner' = NoTask
            /\ Goto(t, "out")
            /\ UNCHANGED <<waiters, next>>
       ELSE /\ owner' = waiters[Len(waiters)]
            /\ waiters' = SubSeq(waiters, 1, Len(waiters) - 1)
            /\ next' = [next EXCEPT ![t] = owner']
            /\ Goto(t, "wake")
  /\ UNCHANGED <<swVars, stray>>

\* mutex_unlock up to the release of the guard: ownership goes to the head
\* waiter before it is woken.
Unlock(t) ==
  /\ At(t, "held")
  /\ IF owner # t
       THEN /\ Goto(t, "panic")
            /\ UNCHANGED <<owner, waiters, next>>
       ELSE IF waiters = << >>
       THEN /\ owner' = NoTask
            /\ Goto(t, "out")
            /\ UNCHANGED <<waiters, next>>
       ELSE /\ owner' = Head(waiters)
            /\ waiters' = Tail(waiters)
            /\ next' = [next EXCEPT ![t] = Head(waiters)]
            /\ Goto(t, "wake")
  /\ UNCHANGED <<swVars, stray>>

\* mutex_unlock after it released the guard: sched_wake(next->task).  Through a
\* dangling node the word read may name any task, or none.
UnlockWake(t) ==
  /\ At(t, "wake")
  /\ \/ next[t] \in Tasks /\ Wake(next[t])
     \/ next[t] = Dangling /\ \E u \in Tasks : Wake(u)
     \/ next[t] = Dangling /\ UNCHANGED swVars
  /\ next' = [next EXCEPT ![t] = NoTask]
  /\ Goto(t, "out")
  /\ UNCHANGED <<owner, waiters, stray>>

\* mutex_trylock on a free mutex; on a held one it returns -EBUSY.
TryLock(t) ==
  /\ At(t, "out")
  /\ owner = NoTask
  /\ owner' = t
  /\ Goto(t, "held")
  /\ UNCHANGED <<swVars, waiters, next, stray>>

\* A wake of another subsystem that reaches a task at any point, for instance
\* process_exit_current waking parent->main_task.
StrayWake(t) ==
  /\ stray < MaxStray
  /\ stray' = stray + 1
  /\ Wake(t)
  /\ UNCHANGED <<owner, waiters, pc, next>>

\* The steps a task makes by itself once it has called lock or unlock.
Proceed(t) == LockSleep(t) \/ LockCheck(t) \/ Unlock(t) \/ UnlockWake(t)

Next == \E t \in Tasks : Lock(t) \/ TryLock(t) \/ Proceed(t) \/ StrayWake(t)

Spec == Init /\ [][Next]_vars

\* Round robin gives every ready task the CPU; a holder unlocks, since mutex.h
\* forbids holding the lock across an indefinite sleep.
FairSpec == Spec /\ \A t \in Tasks : WF_vars(Proceed(t))
------------------------------------------------------------------------------
\* Two tasks never hold the mutex, and the holder is the recorded owner, whatever
\* other subsystems wake the waiters.
MutualExclusion == \A t \in Tasks : pc[t] = "held" => owner = t

\* Callers that unlock what they lock, once, reach neither panic: ownership
\* handed over early is never taken for a recursive lock or a foreign unlock.
NoPanic == \A t \in Tasks : pc[t] # "panic"

\* The wake of a handoff is never lost: a waiter that owns the mutex and sleeps
\* has an unlocker about to wake it.
HandoffWakes ==
  \A t \in Tasks : owner = t /\ Asleep(t) =>
    \E u \in Tasks : pc[u] = "wake" /\ next[u] = t

\* Without wakes from outside, the credit of a handoff is posted only to the new
\* owner on its way to sleep: none is left over to disturb a later sleep.
NoLeftoverCredit ==
  stray = 0 => \A t \in Tasks : wake_pending[t] > 0 =>
                 owner = t /\ pc[t] = "sleep" /\ wake_pending[t] = 1

\* mutex.c says the unlock path wakes the waiter "while holding the guard", and
\* that the node is "valid for the entire duration of the sleep": the unlocker
\* reads a live node.
NodeAlive == \A u \in Tasks : next[u] # Dangling

\* A waiter gets the mutex.
WaiterEnters == \A t \in Tasks : pc[t] = "sleep" ~> pc[t] = "held"

Waiting(t) == pc[t] \in {"sleep", "check"}

FL == INSTANCE FifoLock WITH
        phase <- [t \in Tasks |-> IF pc[t] = "held" THEN "in"
                                  ELSE IF Waiting(t) THEN "waiting" ELSE "out"],
        line <- IF owner \in Tasks /\ Waiting(owner) THEN <<owner>> \o waiters
                ELSE waiters

\* The mutex is a FIFO lock: a task that was handed the mutex and has not woken
\* yet is the first in line, and nobody overtakes it.
ImplementsFifoLock == FL!FLSpec
=============================================================================
