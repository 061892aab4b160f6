----------------------------- MODULE MutexProofs -----------------------------
(***************************************************************************)
(* Mutual exclusion, absence of panics, the handoff's wake, and that Mutex  *)
(* implements FifoLock, for any set of tasks and any number of wakes from   *)
(* other subsystems.                                                        *)
(***************************************************************************)
EXTENDS Mutex, TLAPS

InLine(t) == \E i \in 1..Len(waiters) : waiters[i] = t

\* The queue holds waiting tasks, none twice, and never the owner.
QueueInv ==
  /\ \A i \in 1..Len(waiters) : Waiting(waiters[i]) /\ waiters[i] # owner
  /\ \A i, j \in 1..Len(waiters) : waiters[i] = waiters[j] => i = j

\* Who owns, who waits: a waiter is in line or has been handed the mutex.
OwnerInv ==
  /\ owner = NoTask => waiters = << >>
  /\ \A t \in Tasks : pc[t] = "held" => owner = t
  /\ \A t \in Tasks : owner = t => pc[t] = "held" \/ Waiting(t)
  /\ \A t \in Tasks : Waiting(t) => owner = t \/ InLine(t)
  /\ \A t \in Tasks : pc[t] # "panic"

PendingWake(t) == \E u \in Tasks : pc[u] = "wake" /\ next[u] = t

\* A new owner that sleeps, or will sleep, has its wake still coming.
HandoffInv ==
  \A t \in Tasks :
    /\ Asleep(t) => pc[t] = "check"
    /\ owner = t /\ Asleep(t) => PendingWake(t)
    /\ owner = t /\ pc[t] = "sleep" /\ wake_pending[t] = 0 => PendingWake(t)

IInv == TypeOK /\ QueueInv /\ OwnerInv /\ HandoffInv
------------------------------------------------------------------------------
\* What appending a new element does to a queue.
LEMMA AppendQueue ==
  ASSUME NEW S, NEW q \in Seq(S), NEW e \in S
  PROVE  /\ Append(q, e) \in Seq(S)
         /\ Len(Append(q, e)) = Len(q) + 1
         /\ \A i \in 1..Len(q) : Append(q, e)[i] = q[i]
         /\ Append(q, e)[Len(q) + 1] = e
  OBVIOUS

\* What serving the head does to a queue.
LEMMA TailQueue ==
  ASSUME NEW S, NEW q \in Seq(S), q # << >>
  PROVE  /\ Len(q) \in Nat /\ Len(q) >= 1
         /\ Head(q) = q[1] /\ Head(q) \in S
         /\ Tail(q) \in Seq(S)
         /\ Len(Tail(q)) = Len(q) - 1
         /\ \A i \in 1..Len(Tail(q)) : Tail(q)[i] = q[i + 1]
  OBVIOUS

\* mutex_init establishes the inductive invariant.
LEMMA InitInv == Init => IInv
  BY MutexAssumption DEF Init, IInv, TypeOK, QueueInv, OwnerInv, HandoffInv,
     Waiting, InLine, Asleep, PendingWake

\* The two scheduler variables, as Mutex uses them.
SWType == /\ state \in [Tasks -> {"READY", "SLEEPING"}]
          /\ wake_pending \in [Tasks -> Nat]

\* sched_wake keeps their types.
LEMMA WakeType == ASSUME NEW t \in Tasks, SWType, Wake(t) PROVE SWType'
<1>1. state' \in [Tasks -> {"READY", "SLEEPING"}]
  BY DEF SWType, Wake, Asleep
<1>2. wake_pending' \in [Tasks -> Nat]
  BY DEF SWType, Wake, Asleep
<1> QED BY <1>1, <1>2 DEF SWType

\* So does sched_sleep_current.
LEMMA SleepType == ASSUME NEW t \in Tasks, SWType, Sleep(t, "SLEEPING") PROVE SWType'
<1>1. state' \in [Tasks -> {"READY", "SLEEPING"}]
  BY DEF SWType, Sleep
<1>2. wake_pending' \in [Tasks -> Nat]
  <2>1. CASE wake_pending[t] > 0
    <3>1. wake_pending[t] - 1 \in Nat
      BY <2>1 DEF SWType
    <3> QED BY <2>1, <3>1 DEF SWType, Sleep
  <2>2. CASE ~(wake_pending[t] > 0)
    BY <2>2 DEF SWType, Sleep
  <2> QED BY <2>1, <2>2
<1> QED BY <1>1, <1>2 DEF SWType

\* The type invariant is preserved by every step.
LEMMA TypeStep == ASSUME TypeOK, [Next]_vars PROVE TypeOK'
<1> USE MutexAssumption
<1>s. SWType BY DEF TypeOK, SWType
<1>0. CASE UNCHANGED vars
  BY <1>0 DEF TypeOK, vars
<1>1. ASSUME NEW t \in Tasks, Lock(t) PROVE TypeOK'
  BY <1>1, AppendQueue DEF TypeOK, Lock, Goto, swVars
<1>2. ASSUME NEW t \in Tasks, TryLock(t) PROVE TypeOK'
  BY <1>2 DEF TypeOK, TryLock, Goto, swVars
<1>3. ASSUME NEW t \in Tasks, LockSleep(t) PROVE TypeOK'
  <2>1. SWType' BY <1>3, <1>s, SleepType DEF LockSleep
  <2> QED BY <1>3, <2>1 DEF TypeOK, SWType, LockSleep, Goto
<1>4. ASSUME NEW t \in Tasks, LockCheck(t) PROVE TypeOK'
  BY <1>4 DEF TypeOK, LockCheck, Goto, swVars
<1>5. ASSUME NEW t \in Tasks, Unlock(t) PROVE TypeOK'
  <2>1. CASE owner = t /\ waiters # << >>
    <3>1. Head(waiters) \in Tasks /\ Tail(waiters) \in Seq(Tasks)
      BY <2>1, TailQueue DEF TypeOK
    <3>2. /\ owner' = Head(waiters) /\ waiters' = Tail(waiters)
          /\ next' = [next EXCEPT ![t] = Head(waiters)]
          /\ pc' = [pc EXCEPT ![t] = "wake"]
          /\ UNCHANGED <<state, wake_pending, stray>>
      BY <1>5, <2>1 DEF Unlock, Goto, swVars
    <3> QED BY <3>1, <3>2 DEF TypeOK
  <2>2. CASE ~(owner = t /\ waiters # << >>)
    BY <1>5, <2>2 DEF TypeOK, Unlock, Goto, swVars
  <2> QED BY <2>1, <2>2
<1>6. ASSUME NEW t \in Tasks, UnlockWake(t) PROVE TypeOK'
  <2>1. SWType'
    BY <1>6, <1>s, WakeType DEF UnlockWake, swVars, SWType
  <2> QED BY <1>6, <2>1 DEF TypeOK, SWType, UnlockWake, Goto
<1>7. ASSUME NEW t \in Tasks, StrayWake(t) PROVE TypeOK'
  <2>1. SWType' BY <1>7, <1>s, WakeType DEF StrayWake
  <2>2. stray' \in 0..MaxStray BY <1>7 DEF TypeOK, StrayWake
  <2> QED BY <1>7, <2>1, <2>2 DEF TypeOK, SWType, StrayWake
<1>8. QED
  BY <1>0, <1>1, <1>2, <1>3, <1>4, <1>5, <1>6, <1>7 DEF Next, Proceed

\* What Unlock does when somebody waits: the head of the queue becomes the owner.
LEMMA HandoffStep ==
  ASSUME IInv, NEW t \in Tasks, Unlock(t), waiters # << >>
  PROVE  /\ owner = t
         /\ owner' = waiters[1] /\ owner' \in Tasks
         /\ Len(waiters) \in Nat /\ Len(waiters) >= 1
         /\ Len(waiters') = Len(waiters) - 1
         /\ \A i \in 1..Len(waiters') : waiters'[i] = waiters[i + 1]
         /\ next' = [next EXCEPT ![t] = owner']
         /\ pc' = [pc EXCEPT ![t] = "wake"]
         /\ UNCHANGED <<state, wake_pending>>
<1>1. owner = t
  BY DEF IInv, OwnerInv, Unlock, At
<1>2. waiters \in Seq(Tasks)
  BY DEF IInv, TypeOK
<1>3. owner' = Head(waiters) /\ waiters' = Tail(waiters)
  BY <1>1 DEF Unlock
<1>4. /\ next' = [next EXCEPT ![t] = owner']
      /\ pc' = [pc EXCEPT ![t] = "wake"]
      /\ UNCHANGED <<state, wake_pending>>
  BY <1>1 DEF Unlock, Goto, swVars
<1> QED BY <1>1, <1>2, <1>3, <1>4, TailQueue

\* What Unlock does when nobody waits.
LEMMA ReleaseStep ==
  ASSUME IInv, NEW t \in Tasks, Unlock(t), waiters = << >>
  PROVE  /\ owner = t /\ owner' = NoTask
         /\ pc' = [pc EXCEPT ![t] = "out"]
         /\ UNCHANGED <<state, wake_pending, waiters, next>>
  BY DEF IInv, OwnerInv, Unlock, At, Goto, swVars

\* What Lock does: a task outside neither owns the mutex nor waits for it, so
\* the recursive-acquire panic is out of reach.
LEMMA LockStep ==
  ASSUME IInv, NEW t \in Tasks, Lock(t)
  PROVE  /\ owner # t /\ pc[t] = "out"
         /\ UNCHANGED <<state, wake_pending, next>>
         /\ \/ /\ owner = NoTask /\ owner' = t /\ waiters' = waiters
               /\ pc' = [pc EXCEPT ![t] = "held"]
            \/ /\ owner # NoTask /\ owner' = owner
               /\ waiters' = Append(waiters, t)
               /\ pc' = [pc EXCEPT ![t] = "sleep"]
<1>1. owner # t /\ pc[t] = "out"
  BY DEF IInv, OwnerInv, Lock, At, Waiting
<1> QED BY <1>1 DEF Lock, Goto, swVars

\* The queue part of the invariant is preserved.
LEMMA QueueStep == ASSUME IInv, [Next]_vars PROVE QueueInv'
<1> USE DEF IInv
<1>0. CASE UNCHANGED vars
  BY <1>0 DEF QueueInv, Waiting, vars
<1>1. ASSUME NEW t \in Tasks, Lock(t) PROVE QueueInv'
  <2>1. waiters \in Seq(Tasks) BY DEF TypeOK
  <2>2. \A i \in 1..Len(waiters) : waiters[i] # t
    BY <1>1, LockStep DEF QueueInv, Waiting
  <2>3. CASE waiters' = waiters
    BY <1>1, <2>1, <2>2, <2>3, LockStep DEF QueueInv, Waiting, OwnerInv, TypeOK
  <2>4. CASE waiters' = Append(waiters, t) /\ owner' = owner /\ pc' = [pc EXCEPT ![t] = "sleep"]
    <3>1. /\ Len(waiters') = Len(waiters) + 1
          /\ \A i \in 1..Len(waiters) : waiters'[i] = waiters[i]
          /\ waiters'[Len(waiters) + 1] = t
      BY <2>1, <2>4, AppendQueue
    <3>2. Len(waiters) \in Nat BY <2>1
    <3>3. \A i \in 1..Len(waiters') : i \in 1..Len(waiters) \/ i = Len(waiters) + 1
      BY <3>1, <3>2
    <3>4. owner # t BY <1>1, LockStep
    <3>5. \A u \in Tasks : Waiting(u) => Waiting(u)'
      BY <2>4 DEF Waiting, TypeOK
    <3>6. Waiting(t)' BY <2>4 DEF Waiting, TypeOK
    <3>7. \A i \in 1..Len(waiters) : waiters[i] \in Tasks BY <2>1
    <3>8. \A i \in 1..Len(waiters') : pc'[waiters'[i]] \in {"sleep", "check"} /\ waiters'[i] # owner'
      BY <2>4, <3>1, <3>3, <3>4, <3>5, <3>6, <3>7 DEF QueueInv, Waiting
    <3>9. \A i, j \in 1..Len(waiters') : waiters'[i] = waiters'[j] => i = j
      BY <2>2, <3>1, <3>2, <3>3 DEF QueueInv
    <3> QED BY <3>8, <3>9 DEF QueueInv, Waiting
  <2> QED BY <1>1, <2>3, <2>4, LockStep
<1>2. ASSUME NEW t \in Tasks, TryLock(t) PROVE QueueInv'
  BY <1>2 DEF TryLock, QueueInv, OwnerInv, Goto, Waiting, TypeOK
<1>3. ASSUME NEW t \in Tasks, LockSleep(t) PROVE QueueInv'
  BY <1>3 DEF LockSleep, QueueInv, Goto, Waiting, TypeOK
<1>4. ASSUME NEW t \in Tasks, LockCheck(t) PROVE QueueInv'
  BY <1>4 DEF LockCheck, QueueInv, Goto, Waiting, TypeOK
<1>5. ASSUME NEW t \in Tasks, Unlock(t) PROVE QueueInv'
  <2>1. CASE waiters = << >>
    BY <1>5, <2>1, ReleaseStep DEF QueueInv, Waiting
  <2>2. CASE waiters # << >>
    <3>1. \A i \in 1..Len(waiters') : i + 1 \in 1..Len(waiters) /\ i + 1 # 1
      BY <1>5, <2>2, HandoffStep
    <3>2. 1 \in 1..Len(waiters) BY <1>5, <2>2, HandoffStep
    <3>3. \A i \in 1..Len(waiters') : waiters'[i] # owner'
      BY <1>5, <2>2, <3>1, <3>2, HandoffStep DEF QueueInv
    <3>4. \A i \in 1..Len(waiters') : pc'[waiters'[i]] \in {"sleep", "check"}
      <4> SUFFICES ASSUME NEW i \in 1..Len(waiters') PROVE pc'[waiters'[i]] \in {"sleep", "check"}
        BY DEF Waiting
      <4>1. waiters'[i] = waiters[i + 1] /\ pc' = [pc EXCEPT ![t] = "wake"]
        BY <1>5, <2>2, HandoffStep
      <4>2. waiters[i + 1] \in Tasks BY <3>1 DEF TypeOK
      <4>3. pc[waiters[i + 1]] \in {"sleep", "check"} BY <3>1 DEF QueueInv, Waiting
      <4>4. pc[t] = "held" BY <1>5 DEF Unlock, At
      <4> QED BY <4>1, <4>2, <4>3, <4>4 DEF Waiting, TypeOK
    <3>5. \A i, j \in 1..Len(waiters') : waiters'[i] = waiters'[j] => i = j
      BY <1>5, <2>2, <3>1, HandoffStep DEF QueueInv
    <3> QED BY <3>3, <3>4, <3>5 DEF QueueInv, Waiting
  <2> QED BY <2>1, <2>2
<1>6. ASSUME NEW t \in Tasks, UnlockWake(t) PROVE QueueInv'
  BY <1>6 DEF UnlockWake, At, QueueInv, Goto, Waiting, TypeOK
<1>7. ASSUME NEW t \in Tasks, StrayWake(t) PROVE QueueInv'
  BY <1>7 DEF StrayWake, QueueInv, Waiting
<1>8. QED
  BY <1>0, <1>1, <1>2, <1>3, <1>4, <1>5, <1>6, <1>7 DEF Next, Proceed

\* The ownership part of the invariant is preserved.
LEMMA OwnerStep == ASSUME IInv, [Next]_vars PROVE OwnerInv'
<1> USE DEF IInv
<1>0. CASE UNCHANGED vars
  BY <1>0 DEF OwnerInv, InLine, Waiting, vars
<1>1. ASSUME NEW t \in Tasks, Lock(t) PROVE OwnerInv'
  <2>1. waiters \in Seq(Tasks) BY DEF TypeOK
  <2>2. CASE owner = NoTask
    BY <1>1, <2>2, LockStep, MutexAssumption DEF OwnerInv, InLine, Waiting, TypeOK
  <2>3. CASE owner # NoTask
    <3>1. /\ Len(waiters) \in Nat
          /\ Len(waiters') = Len(waiters) + 1
          /\ \A i \in 1..Len(waiters) : waiters'[i] = waiters[i]
          /\ waiters'[Len(waiters) + 1] = t
      BY <1>1, <2>1, <2>3, LockStep, AppendQueue
    <3>2. InLine(t)' BY <3>1 DEF InLine
    <3>3. \A u \in Tasks : InLine(u) => InLine(u)'
      BY <3>1 DEF InLine
    <3>4. owner' = owner /\ owner # t /\ pc' = [pc EXCEPT ![t] = "sleep"]
      BY <1>1, <2>3, LockStep
    <3> QED BY <2>3, <3>2, <3>3, <3>4 DEF OwnerInv, Waiting, TypeOK
  <2> QED BY <2>2, <2>3
<1>2. ASSUME NEW t \in Tasks, TryLock(t) PROVE OwnerInv'
  BY <1>2, MutexAssumption DEF TryLock, At, OwnerInv, InLine, Goto, Waiting, TypeOK
<1>3. ASSUME NEW t \in Tasks, LockSleep(t) PROVE OwnerInv'
  BY <1>3 DEF LockSleep, At, OwnerInv, InLine, Goto, Waiting, TypeOK
<1>4. ASSUME NEW t \in Tasks, LockCheck(t) PROVE OwnerInv'
  BY <1>4 DEF LockCheck, At, OwnerInv, InLine, Goto, Waiting, TypeOK
<1>5. ASSUME NEW t \in Tasks, Unlock(t) PROVE OwnerInv'
  <2>1. CASE waiters = << >>
    BY <1>5, <2>1, ReleaseStep, MutexAssumption DEF OwnerInv, InLine, Waiting, TypeOK
  <2>2. CASE waiters # << >>
    <3>1. pc[t] = "held" /\ owner = t /\ pc' = [pc EXCEPT ![t] = "wake"]
      BY <1>5, <2>2, HandoffStep DEF Unlock, At
    <3>2. /\ owner' = waiters[1] /\ owner' \in Tasks
          /\ Len(waiters) \in Nat /\ Len(waiters) >= 1
          /\ Len(waiters') = Len(waiters) - 1
          /\ \A i \in 1..Len(waiters') : waiters'[i] = waiters[i + 1]
      BY <1>5, <2>2, HandoffStep
    <3>3. Waiting(owner') BY <3>2 DEF QueueInv
    <3>4. owner' # t BY <3>1, <3>3 DEF Waiting
    <3>5. \A u \in Tasks : InLine(u) => u = owner' \/ InLine(u)'
      <4> SUFFICES ASSUME NEW i \in 1..Len(waiters), waiters[i] # owner'
                   PROVE  \E j \in 1..Len(waiters') : waiters'[j] = waiters[i]
        BY DEF InLine
      <4>1. i # 1 /\ i - 1 \in 1..Len(waiters') BY <3>2
      <4>2. waiters'[i - 1] = waiters[(i - 1) + 1] BY <3>2, <4>1
      <4>3. (i - 1) + 1 = i OBVIOUS
      <4> QED BY <4>1, <4>2, <4>3
    <3>6. \A u \in Tasks : Waiting(u)' => Waiting(u)
      BY <3>1 DEF Waiting, TypeOK
    <3>7. \A u \in Tasks : Waiting(u)' => owner' = u \/ InLine(u)'
      BY <3>1, <3>5, <3>6 DEF OwnerInv, Waiting
    <3>8. pc'[owner'] \in {"sleep", "check"}
      BY <3>1, <3>2, <3>3, <3>4 DEF Waiting, TypeOK
    <3>9. \A u \in Tasks : pc'[u] # "held" /\ pc'[u] # "panic"
      BY <3>1 DEF OwnerInv, TypeOK
    <3> QED BY <3>2, <3>7, <3>8, <3>9, MutexAssumption DEF OwnerInv, Waiting
  <2> QED BY <2>1, <2>2
<1>6. ASSUME NEW t \in Tasks, UnlockWake(t) PROVE OwnerInv'
  BY <1>6 DEF UnlockWake, At, OwnerInv, InLine, Goto, Waiting, TypeOK
<1>7. ASSUME NEW t \in Tasks, StrayWake(t) PROVE OwnerInv'
  BY <1>7 DEF StrayWake, OwnerInv, InLine, Waiting
<1>8. QED
  BY <1>0, <1>1, <1>2, <1>3, <1>4, <1>5, <1>6, <1>7 DEF Next, Proceed

\* What a wake does: its target is awake or has a credit, nobody falls asleep
\* and nobody else's credit changes.
LEMMA WakeEffect ==
  ASSUME SWType, NEW t \in Tasks, Wake(t)
  PROVE  /\ ~Asleep(t)'
         /\ Asleep(t) \/ wake_pending'[t] > 0
         /\ \A u \in Tasks : Asleep(u)' => Asleep(u)
         /\ \A u \in Tasks : wake_pending'[u] >= wake_pending[u]
<1>1. CASE Asleep(t)
  BY <1>1 DEF Wake, Asleep, SWType
<1>2. CASE ~Asleep(t)
  BY <1>2 DEF Wake, Asleep, SWType
<1> QED BY <1>1, <1>2

\* A step that only posts wakes keeps the handoff part of the invariant.
LEMMA HandoffKept ==
  ASSUME IInv, NEW t \in Tasks, Wake(t), UNCHANGED <<owner, pc, next>>
  PROVE  HandoffInv'
<1>1. SWType /\ SWType'
  BY WakeType DEF IInv, TypeOK, SWType
<1>2. /\ \A u \in Tasks : Asleep(u)' => Asleep(u)
      /\ \A u \in Tasks : wake_pending'[u] = 0 => wake_pending[u] = 0
  BY <1>1, WakeEffect DEF SWType
<1> QED BY <1>2 DEF IInv, HandoffInv, PendingWake

\* The handoff part of the invariant is preserved.
LEMMA WakeStep == ASSUME IInv, [Next]_vars PROVE HandoffInv'
<1> USE DEF IInv
<1>s. SWType BY DEF TypeOK, SWType
<1>0. CASE UNCHANGED vars
  BY <1>0 DEF HandoffInv, PendingWake, Asleep, vars
<1>1. ASSUME NEW t \in Tasks, Lock(t) PROVE HandoffInv'
  BY <1>1, LockStep, MutexAssumption DEF HandoffInv, PendingWake, Asleep, TypeOK
<1>2. ASSUME NEW t \in Tasks, TryLock(t) PROVE HandoffInv'
  BY <1>2 DEF TryLock, At, HandoffInv, PendingWake, Asleep, Goto, swVars, TypeOK
<1>3. ASSUME NEW t \in Tasks, LockSleep(t) PROVE HandoffInv'
  <2>1. pc[t] = "sleep" /\ pc' = [pc EXCEPT ![t] = "check"] /\ UNCHANGED <<owner, next>>
    BY <1>3 DEF LockSleep, At, Goto
  <2>2. \A u \in Tasks : PendingWake(u) => PendingWake(u)'
    BY <2>1 DEF PendingWake, TypeOK
  <2>3. CASE wake_pending[t] > 0
    <3>1. state' = state /\ wake_pending' = [wake_pending EXCEPT ![t] = @ - 1]
      BY <1>3, <2>3 DEF LockSleep, Sleep
    <3> QED BY <2>1, <2>2, <3>1 DEF HandoffInv, Asleep, TypeOK
  <2>4. CASE ~(wake_pending[t] > 0)
    <3>1. wake_pending[t] = 0 BY <2>4 DEF TypeOK
    <3>2. wake_pending' = wake_pending /\ state' = [state EXCEPT ![t] = "SLEEPING"]
      BY <1>3, <2>4 DEF LockSleep, Sleep
    <3> QED BY <2>1, <2>2, <3>1, <3>2 DEF HandoffInv, Asleep, TypeOK
  <2> QED BY <2>3, <2>4
<1>4. ASSUME NEW t \in Tasks, LockCheck(t) PROVE HandoffInv'
  <2>1. /\ pc[t] = "check" /\ ~Asleep(t)
        /\ UNCHANGED <<state, wake_pending, owner>>
    BY <1>4 DEF LockCheck, At, Ready, Asleep, swVars
  <2>2. CASE owner = t
    BY <1>4, <2>1, <2>2 DEF LockCheck, Goto, HandoffInv, Asleep, TypeOK
  <2>3. CASE owner # t
    BY <1>4, <2>1, <2>3 DEF LockCheck, Goto, HandoffInv, PendingWake, Asleep, TypeOK
  <2> QED BY <2>2, <2>3
<1>5. ASSUME NEW t \in Tasks, Unlock(t) PROVE HandoffInv'
  <2>1. pc[t] = "held" BY <1>5 DEF Unlock, At
  <2>2. CASE waiters = << >>
    BY <1>5, <2>1, <2>2, ReleaseStep, MutexAssumption DEF HandoffInv, Asleep, TypeOK
  <2>3. CASE waiters # << >>
    <3>1. /\ owner' \in Tasks /\ next' = [next EXCEPT ![t] = owner']
          /\ pc' = [pc EXCEPT ![t] = "wake"] /\ UNCHANGED <<state, wake_pending>>
      BY <1>5, <2>3, HandoffStep
    <3>2. \A u \in Tasks : owner' = u => PendingWake(u)'
      BY <3>1 DEF PendingWake, TypeOK
    <3> QED BY <2>1, <3>1, <3>2 DEF HandoffInv, Asleep, TypeOK
  <2> QED BY <2>2, <2>3
<1>6. ASSUME NEW t \in Tasks, UnlockWake(t) PROVE HandoffInv'
  <2>1. /\ pc[t] = "wake" /\ pc' = [pc EXCEPT ![t] = "out"]
        /\ next' = [next EXCEPT ![t] = NoTask] /\ owner' = owner
    BY <1>6 DEF UnlockWake, At, Goto
  <2>2. \A u \in Tasks : PendingWake(u) /\ u # next[t] => PendingWake(u)'
    BY <2>1 DEF PendingWake, TypeOK
  <2>3. \A u \in Tasks : ~Asleep(t) /\ pc'[t] = "out" /\ (pc'[u] = pc[u] \/ u = t)
    BY <2>1 DEF HandoffInv, TypeOK
  <2>4. CASE next[t] \in Tasks /\ Wake(next[t])
    <3>0. PICK v \in Tasks : v = next[t] /\ Wake(v) BY <2>4
    <3>1. /\ ~Asleep(v)'
          /\ Asleep(v) \/ wake_pending'[v] > 0
          /\ \A u \in Tasks : Asleep(u)' => Asleep(u)
          /\ \A u \in Tasks : wake_pending'[u] >= wake_pending[u]
      BY <3>0, <1>s, WakeEffect
    <3>2. SWType' BY <3>0, <1>s, WakeType
    <3>3. \A u \in Tasks : wake_pending'[u] = 0 => wake_pending[u] = 0
      BY <1>s, <3>1, <3>2 DEF SWType
    <3>4. pc[v] = "sleep" => wake_pending'[v] # 0
      BY <3>1, <3>2 DEF HandoffInv, SWType
    <3> QED BY <2>1, <2>2, <2>3, <3>0, <3>1, <3>3, <3>4 DEF HandoffInv
  <2>5. CASE next[t] = Dangling
    <3>1. /\ \A u \in Tasks : Asleep(u)' => Asleep(u)
          /\ \A u \in Tasks : wake_pending'[u] = 0 => wake_pending[u] = 0
      <4>1. CASE UNCHANGED swVars
        BY <4>1 DEF swVars, Asleep
      <4>2. CASE \E v \in Tasks : Wake(v)
        <5>1. PICK v \in Tasks : Wake(v) BY <4>2
        <5>2. SWType' BY <5>1, <1>s, WakeType
        <5> QED BY <5>1, <5>2, <1>s, WakeEffect DEF SWType
      <4> QED BY <1>6, <2>5, <4>1, <4>2, MutexAssumption DEF UnlockWake
    <3>2. \A u \in Tasks : u # next[t] BY <2>5, MutexAssumption
    <3> QED BY <2>1, <2>2, <2>3, <3>1, <3>2 DEF HandoffInv
  <2> QED BY <1>6, <2>4, <2>5 DEF UnlockWake
<1>7. ASSUME NEW t \in Tasks, StrayWake(t) PROVE HandoffInv'
  BY <1>7, HandoffKept DEF StrayWake
<1>8. QED
  BY <1>0, <1>1, <1>2, <1>3, <1>4, <1>5, <1>6, <1>7 DEF Next, Proceed
------------------------------------------------------------------------------
\* Every step of mutex_lock, mutex_trylock, mutex_unlock or a foreign wake keeps it.
LEMMA InvStep == IInv /\ [Next]_vars => IInv'
  BY TypeStep, QueueStep, OwnerStep, WakeStep DEF IInv

\* The inductive invariant holds in every reachable state.
THEOREM Invariance == Spec => []IInv
  BY InitInv, InvStep, PTL DEF Spec

\* Type correctness of the mutex, for every set of tasks.
THEOREM TypeCorrect == Spec => []TypeOK
<1>1. IInv => TypeOK BY DEF IInv
<1> QED BY Invariance, <1>1, PTL

\* At most one task holds the mutex, and it is the recorded owner.
THEOREM Exclusion == Spec => []MutualExclusion
<1>1. IInv => MutualExclusion BY DEF IInv, OwnerInv, MutualExclusion
<1> QED BY Invariance, <1>1, PTL

\* Neither panic of mutex_lock and mutex_unlock is reachable for callers that
\* unlock what they locked.
THEOREM PanicFree == Spec => []NoPanic
<1>1. IInv => NoPanic BY DEF IInv, OwnerInv, NoPanic
<1> QED BY Invariance, <1>1, PTL

\* The wake of a handoff is never lost: mutex_unlock may be preempted between
\* giving the mutex away and waking the new owner, and wakes from elsewhere may
\* reach it in between.
THEOREM HandoffNotLost == Spec => []HandoffWakes
<1>1. IInv => HandoffWakes
  BY DEF IInv, HandoffInv, HandoffWakes, PendingWake
<1> QED BY Invariance, <1>1, PTL
------------------------------------------------------------------------------
(***************************************************************************)
(* Mutex implements FifoLock: each step maps to a step of the abstract     *)
(* lock or to none.                                                        *)
(***************************************************************************)
Phase == [t \in Tasks |-> IF pc[t] = "held" THEN "in"
                          ELSE IF Waiting(t) THEN "waiting" ELSE "out"]

Line == IF owner \in Tasks /\ Waiting(owner) THEN <<owner>> \o waiters ELSE waiters

\* The line grows at its end only.
LEMMA LineAppend ==
  ASSUME NEW S, NEW q \in Seq(S), NEW e \in S, NEW o \in S
  PROVE  <<o>> \o Append(q, e) = Append(<<o>> \o q, e)
  OBVIOUS

\* The head of the line is in front of the rest.
LEMMA LineHead ==
  ASSUME NEW S, NEW q \in Seq(S), NEW o \in S
  PROVE  /\ <<o>> \o q # << >>
         /\ Head(<<o>> \o q) = o
         /\ Tail(<<o>> \o q) = q
  OBVIOUS

\* A handoff leaves the line as it is: its head moves from the queue to the owner.
LEMMA LineSplit ==
  ASSUME NEW S, NEW q \in Seq(S), q # << >>
  PROVE  <<Head(q)>> \o Tail(q) = q
  OBVIOUS

\* A lock or trylock of a free mutex finds nobody inside and nobody in line.
LEMMA FreeMeansEmpty ==
  ASSUME IInv, owner = NoTask
  PROVE  Line = << >> /\ {t \in Tasks : Phase[t] = "in"} = {}
  BY MutexAssumption DEF IInv, OwnerInv, Line, Phase

\* Taking a free mutex, by mutex_lock or mutex_trylock, is EnterFree.
LEMMA TakeFree ==
  ASSUME IInv, NEW t \in Tasks, At(t, "out"), owner = NoTask, owner' = t,
         Goto(t, "held"), waiters' = waiters
  PROVE  FL!EnterFree(t)
<1>1. Line = << >> /\ {u \in Tasks : Phase[u] = "in"} = {}
  BY FreeMeansEmpty
<1>2. pc' = [pc EXCEPT ![t] = "held"] /\ pc \in [Tasks -> {"out", "sleep", "check", "held", "wake", "panic"}]
  BY DEF IInv, TypeOK, Goto
<1>3. Phase[t] = "out"
  BY DEF Phase, Waiting, At
<1>4. Phase' = [Phase EXCEPT ![t] = "in"]
  BY <1>2 DEF Phase, Waiting
<1>5. Line' = Line
  BY <1>1, <1>2, MutexAssumption DEF Line, Waiting
<1> QED BY <1>1, <1>3, <1>4, <1>5 DEF FL!EnterFree, FL!Inside, Phase, Line

PcType == pc \in [Tasks -> {"out", "sleep", "check", "held", "wake", "panic"}]

\* mutex_lock of a held mutex is Arrive.
LEMMA LockArrives ==
  ASSUME IInv, NEW t \in Tasks, Lock(t), owner # NoTask
  PROVE  FL!Arrive(t)
<1>1. PcType /\ owner \in Tasks /\ waiters \in Seq(Tasks) /\ pc[t] = "out"
  BY DEF IInv, TypeOK, PcType, Lock, At
<1>2. owner # t
  BY <1>1 DEF IInv, OwnerInv, Waiting
<1>3. pc' = [pc EXCEPT ![t] = "sleep"] /\ owner' = owner /\ waiters' = Append(waiters, t)
  BY <1>2 DEF Lock, Goto
<1>4. Phase[t] = "out"
  BY <1>1 DEF Phase, Waiting
<1>5. Phase' = [Phase EXCEPT ![t] = "waiting"]
  BY <1>1, <1>3 DEF Phase, Waiting, PcType
<1>6. Waiting(owner)' <=> Waiting(owner)
  BY <1>1, <1>2, <1>3 DEF Waiting, PcType
<1>7. Line' = Append(Line, t)
  BY <1>1, <1>3, <1>6, LineAppend DEF Line
<1> QED BY <1>4, <1>5, <1>7 DEF FL!Arrive, Phase, Line

\* The return of mutex_lock to a task that was handed the mutex is EnterFirst.
LEMMA CheckEnters ==
  ASSUME IInv, NEW t \in Tasks, LockCheck(t), owner = t
  PROVE  FL!EnterFirst(t)
<1>1. PcType /\ waiters \in Seq(Tasks) /\ pc[t] = "check"
  BY DEF IInv, TypeOK, PcType, LockCheck, At
<1>2. pc' = [pc EXCEPT ![t] = "held"] /\ owner' = owner /\ waiters' = waiters
  BY DEF LockCheck, Goto
<1>3. Phase[t] = "waiting"
  BY <1>1 DEF Phase, Waiting
<1>4. {u \in Tasks : Phase[u] = "in"} = {}
  BY <1>1 DEF Phase, IInv, OwnerInv
<1>5. Line = <<t>> \o waiters
  BY <1>1 DEF Line, Waiting
<1>6. Line # << >> /\ Head(Line) = t /\ Tail(Line) = waiters
  BY <1>1, <1>5, LineHead
<1>7. Phase' = [Phase EXCEPT ![t] = "in"]
  BY <1>1, <1>2 DEF Phase, Waiting, PcType
<1>8. Line' = waiters
  BY <1>1, <1>2 DEF Line, Waiting, PcType
<1> QED BY <1>3, <1>4, <1>6, <1>7, <1>8 DEF FL!EnterFirst, FL!Inside, Phase, Line

\* mutex_unlock is Leave: whoever is handed the mutex stays the first in line.
LEMMA UnlockLeaves ==
  ASSUME IInv, NEW t \in Tasks, Unlock(t)
  PROVE  FL!Leave(t)
<1>1. PcType /\ waiters \in Seq(Tasks) /\ pc[t] = "held" /\ owner = t
  BY DEF IInv, OwnerInv, TypeOK, PcType, Unlock, At
<1>2. Line = waiters
  BY <1>1 DEF Line, Waiting
<1>3. Phase[t] = "in"
  BY <1>1 DEF Phase
<1>4. CASE waiters = << >>
  <2>1. pc' = [pc EXCEPT ![t] = "out"] /\ owner' = NoTask /\ waiters' = waiters
    BY <1>1, <1>4 DEF Unlock, Goto
  <2>2. Phase' = [Phase EXCEPT ![t] = "out"]
    BY <1>1, <2>1 DEF Phase, Waiting, PcType
  <2>3. Line' = Line
    BY <1>2, <2>1, MutexAssumption DEF Line
  <2> QED BY <1>3, <2>2, <2>3 DEF FL!Leave, Phase, Line
<1>5. CASE waiters # << >>
  <2>1. /\ pc' = [pc EXCEPT ![t] = "wake"]
        /\ owner' = Head(waiters) /\ waiters' = Tail(waiters)
    BY <1>1, <1>5 DEF Unlock, Goto
  <2>2. Phase' = [Phase EXCEPT ![t] = "out"]
    BY <1>1, <2>1 DEF Phase, Waiting, PcType
  <2>3. Head(waiters) = waiters[1] /\ Head(waiters) \in Tasks /\ 1 \in 1..Len(waiters)
    BY <1>1, <1>5, TailQueue
  <2>4. Waiting(Head(waiters)) /\ Head(waiters) # t
    BY <1>1, <2>3 DEF IInv, QueueInv
  <2>5. Waiting(owner)'
    BY <1>1, <2>1, <2>3, <2>4 DEF Waiting, PcType
  <2>6. Line' = <<Head(waiters)>> \o Tail(waiters)
    BY <2>1, <2>3, <2>5 DEF Line
  <2>7. Line' = Line
    BY <1>1, <1>2, <1>5, <2>6, LineSplit
  <2> QED BY <1>3, <2>2, <2>7 DEF FL!Leave, Phase, Line
<1> QED BY <1>4, <1>5

\* A step that only moves a task within mutex_lock, or from mutex_unlock's wake to its
\* return, changes neither who is inside nor the line.
LEMMA MoveStutters ==
  ASSUME IInv, NEW t \in Tasks, NEW p, NEW q, pc[t] = p, Goto(t, q),
         \/ p \in {"sleep", "check"} /\ q \in {"sleep", "check"}
         \/ p = "wake" /\ q = "out",
         owner' = owner, waiters' = waiters
  PROVE  Phase' = Phase /\ Line' = Line
<1>1. PcType /\ pc' = [pc EXCEPT ![t] = q]
  BY DEF IInv, TypeOK, PcType, Goto
<1>2. \A u \in Tasks : (pc'[u] = "held" <=> pc[u] = "held") /\ (Waiting(u)' <=> Waiting(u))
  BY <1>1 DEF Waiting, PcType
<1>3. Phase' = Phase
  BY <1>2 DEF Phase
<1>4. Line' = Line
  BY <1>2 DEF Line
<1> QED BY <1>3, <1>4

\* Every step of the mutex is a step of the FIFO lock, or leaves it unchanged.
LEMMA FifoStep ==
  ASSUME IInv, [Next]_vars
  PROVE  (\E t \in Tasks : FL!EnterFree(t) \/ FL!Arrive(t) \/ FL!EnterFirst(t) \/ FL!Leave(t))
         \/ (Phase' = Phase /\ Line' = Line)
<1> DEFINE Goal == \/ \E t \in Tasks : FL!EnterFree(t) \/ FL!Arrive(t)
                                        \/ FL!EnterFirst(t) \/ FL!Leave(t)
                   \/ Phase' = Phase /\ Line' = Line
<1> HIDE DEF Goal
<1>0. ASSUME UNCHANGED vars PROVE Goal
  <2>1. pc' = pc /\ owner' = owner /\ waiters' = waiters
    BY <1>0 DEF vars
  <2>2. Phase' = Phase /\ Line' = Line
    BY <2>1 DEF Phase, Line, Waiting
  <2> QED BY <2>2 DEF Goal
<1>1. ASSUME NEW t \in Tasks, Lock(t) PROVE Goal
  <2>1. CASE owner = NoTask
    <3>1. At(t, "out") /\ owner' = t /\ Goto(t, "held") /\ waiters' = waiters
      BY <1>1, <2>1, MutexAssumption DEF Lock
    <3> QED BY <2>1, <3>1, TakeFree DEF Goal
  <2>2. CASE owner # NoTask
    BY <1>1, <2>2, LockArrives DEF Goal
  <2> QED BY <2>1, <2>2
<1>2. ASSUME NEW t \in Tasks, TryLock(t) PROVE Goal
  BY <1>2, TakeFree DEF TryLock, Goal
<1>3. ASSUME NEW t \in Tasks, LockSleep(t) PROVE Goal
  <2>1. Phase' = Phase /\ Line' = Line
    BY <1>3, MoveStutters DEF LockSleep, At
  <2> QED BY <2>1 DEF Goal
<1>4. ASSUME NEW t \in Tasks, LockCheck(t) PROVE Goal
  <2>1. CASE owner = t
    BY <1>4, <2>1, CheckEnters DEF Goal
  <2>2. CASE owner # t
    <3>1. Phase' = Phase /\ Line' = Line
      BY <1>4, <2>2, MoveStutters DEF LockCheck, At
    <3> QED BY <3>1 DEF Goal
  <2> QED BY <2>1, <2>2
<1>5. ASSUME NEW t \in Tasks, Unlock(t) PROVE Goal
  BY <1>5, UnlockLeaves DEF Goal
<1>6. ASSUME NEW t \in Tasks, UnlockWake(t) PROVE Goal
  <2>1. Phase' = Phase /\ Line' = Line
    BY <1>6, MoveStutters DEF UnlockWake, At
  <2> QED BY <2>1 DEF Goal
<1>7. ASSUME NEW t \in Tasks, StrayWake(t) PROVE Goal
  <2>1. pc' = pc /\ owner' = owner /\ waiters' = waiters
    BY <1>7 DEF StrayWake
  <2>2. Phase' = Phase /\ Line' = Line
    BY <2>1 DEF Phase, Line, Waiting
  <2> QED BY <2>2 DEF Goal
<1>8. Goal
  BY <1>0, <1>1, <1>2, <1>3, <1>4, <1>5, <1>6, <1>7 DEF Next, Proceed
<1> QED BY <1>8 DEF Goal

\* The mutex of mutex.c implements the FIFO lock that mutex.h promises, for every set of tasks
\* and any number of wakes from other subsystems: nobody overtakes a waiter, not even between
\* the handoff and the moment the new owner runs.
THEOREM Refinement == Spec => ImplementsFifoLock
<1>1. Init => FL!FLInit
  BY MutexAssumption DEF Init, FL!FLInit, Waiting
<1>2. IInv /\ [Next]_vars => [FL!FLNext]_<<Phase, Line>>
  BY FifoStep DEF FL!FLNext
<1>3. IInv /\ [Next]_vars => [FL!FLNext]_<<
        [t \in Tasks |-> IF pc[t] = "held" THEN "in"
                         ELSE IF Waiting(t) THEN "waiting" ELSE "out"],
        IF owner \in Tasks /\ Waiting(owner) THEN <<owner>> \o waiters ELSE waiters>>
  BY <1>2 DEF Phase, Line
<1> QED BY <1>1, <1>3, Invariance, PTL DEF Spec, ImplementsFifoLock, FL!FLSpec
=============================================================================
