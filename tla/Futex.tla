-------------------------------- MODULE Futex --------------------------------
(***************************************************************************)
(* futex_wait, futex_wake and futex_requeue, kernel/kernel/futex.c, on the *)
(* scheduler's sleep and wake (SleepWake), for the threads of one process  *)
(* whose futex words share one bucket (a hash collision: the walk of       *)
(* futex_wake has to tell the words apart).                                *)
(*                                                                         *)
(* b->guard disables interrupts, so each guarded section, with the value   *)
(* compare and the sched_wake calls inside it, is one step.  The threads   *)
(* use a word as a gate: 0 closed, 1 open; who opens it wakes all waiters. *)
(***************************************************************************)
EXTENDS SleepWake, Sequences, FiniteSets

CONSTANTS Words,      \* user addresses of futex words
          NoWord,     \* the task holds no address
          Counts,     \* the counts futex_wake is called with
          MaxStray    \* bound: wakes that other subsystems post

ASSUME FutexAssumption == Counts \subseteq Nat /\ MaxStray \in Nat

VARIABLES word,       \* the futex words in user memory
          bucket,     \* b->head: the enqueued waiters, newest first
          uaddr,      \* w.uaddr, per task
          woken,      \* w.woken
          timed,      \* timeout_us # 0
          ret,        \* the value futex_wait returns
          need_die,   \* TIF_NEED_DIE
          pc, stray

ftVars == <<word, bucket, uaddr, woken, timed, ret, need_die, pc, stray>>
vars == <<swVars, ftVars>>

\* The points inside futex_wait, after the waiter is enqueued.
WaitPoints == {"loop", "consume", "sleep_check", "sleep", "credit_ret", "sleep_ret", "cleanup"}

TypeOK == /\ SWTypeOK
          /\ word \in [Words -> {0, 1}]
          /\ bucket \in Seq(Tasks)
          /\ uaddr \in [Tasks -> Words \cup {NoWord}]
          /\ woken \in [Tasks -> BOOLEAN]
          /\ timed \in [Tasks -> BOOLEAN]
          /\ ret \in [Tasks -> {"0", "EINTR", "ETIMEDOUT", "none"}]
          /\ need_die \in [Tasks -> BOOLEAN]
          /\ pc \in [Tasks -> WaitPoints \cup {"user", "open", "return", "dead"}]
          /\ stray \in 0..MaxStray

Init == /\ state = [t \in Tasks |-> "READY"]
        /\ wake_pending = [t \in Tasks |-> 0]
        /\ word = [w \in Words |-> 0]
        /\ bucket = << >>
        /\ uaddr = [t \in Tasks |-> NoWord]
        /\ woken = [t \in Tasks |-> FALSE]
        /\ timed = [t \in Tasks |-> FALSE]
        /\ ret = [t \in Tasks |-> "none"]
        /\ need_die = [t \in Tasks |-> FALSE]
        /\ pc = [t \in Tasks |-> "user"]
        /\ stray = 0

At(t, p) == Ready(t) /\ pc[t] = p

Goto(t, p) == pc' = [pc EXCEPT ![t] = p]

Return(t, r) == ret' = [ret EXCEPT ![t] = r]

InWait(t) == pc[t] \in WaitPoints
------------------------------------------------------------------------------
\* Mutant: the value is not compared once the waiter is enqueued.
WaitEnterBlind(t, w, d) ==
  /\ At(t, "user")
  /\ bucket' = <<t>> \o bucket
  /\ uaddr' = [uaddr EXCEPT ![t] = w]
  /\ timed' = [timed EXCEPT ![t] = d]
  /\ Goto(t, "loop")
  /\ UNCHANGED <<swVars, word, woken, ret, need_die, stray>>

\* futex_wait(w, 0, d): enqueue and compare under the guard.  On another value
\* the node is taken out again and -EAGAIN returned: nothing changes.
WaitEnter(t, w, d) ==
  /\ At(t, "user")
  /\ word[w] = 0
  /\ bucket' = <<t>> \o bucket
  /\ uaddr' = [uaddr EXCEPT ![t] = w]
  /\ timed' = [timed EXCEPT ![t] = d]
  /\ Goto(t, "loop")
  /\ UNCHANGED <<swVars, word, woken, ret, need_die, stray>>

\* The head of the loop: look at w.woken under the guard; a timed wait whose time
\* is up gives up before it sleeps.
WaitLoop(t) ==
  /\ At(t, "loop")
  /\ \/ /\ woken[t]
        /\ Goto(t, "consume")
        /\ UNCHANGED ret
     \/ /\ ~woken[t]
        /\ Goto(t, "sleep_check")
        /\ UNCHANGED ret
     \/ /\ ~woken[t] /\ timed[t]
        /\ Return(t, "ETIMEDOUT")
        /\ Goto(t, "cleanup")
  /\ UNCHANGED <<swVars, word, bucket, uaddr, woken, timed, need_die, stray>>

\* sched_consume_wake_pending(self), which does nothing without a credit.
ConsumeIfAny(t) ==
  /\ wake_pending' = [wake_pending EXCEPT ![t] = IF @ > 0 THEN @ - 1 ELSE 0]
  /\ UNCHANGED state

WaitConsume(t) ==
  /\ At(t, "consume")
  /\ ConsumeIfAny(t)
  /\ Return(t, "0")
  /\ Goto(t, "cleanup")
  /\ UNCHANGED <<word, bucket, uaddr, woken, timed, need_die, stray>>

\* sched_sleep_timed_interruptible: the first signal_pending.
WaitSleepCheck(t) ==
  /\ At(t, "sleep_check")
  /\ Goto(t, IF need_die[t] THEN "cleanup" ELSE "sleep")
  /\ Return(t, IF need_die[t] THEN "EINTR" ELSE "none")
  /\ UNCHANGED <<swVars, word, bucket, uaddr, woken, timed, need_die, stray>>

\* Its locked section.
WaitSleep(t) ==
  /\ At(t, "sleep")
  /\ Goto(t, IF wake_pending[t] > 0 THEN "credit_ret" ELSE "sleep_ret")
  /\ Sleep(t, IF timed[t] THEN "TIMED" ELSE "SLEEPING")
  /\ UNCHANGED <<word, bucket, uaddr, woken, timed, ret, need_die, stray>>

\* Its return after a credit.
WaitCreditReturn(t) ==
  /\ At(t, "credit_ret")
  /\ Goto(t, IF need_die[t] THEN "cleanup" ELSE "loop")
  /\ Return(t, IF need_die[t] THEN "EINTR" ELSE "none")
  /\ UNCHANGED <<swVars, word, bucket, uaddr, woken, timed, need_die, stray>>

\* Its return after sleeping: death first, then the timeout, else a wake.
WaitSleepReturn(t) ==
  /\ At(t, "sleep_ret")
  /\ Goto(t, IF need_die[t] \/ state[t] = "EXPIRED" THEN "cleanup" ELSE "loop")
  /\ Return(t, IF need_die[t] THEN "EINTR"
               ELSE IF state[t] = "EXPIRED" THEN "ETIMEDOUT" ELSE "none")
  /\ state' = [state EXCEPT ![t] = IF need_die[t] THEN @ ELSE "READY"]
  /\ UNCHANGED <<wake_pending, word, bucket, uaddr, woken, timed, need_die, stray>>

\* Mutant: what the sleep returned stands, a wake that raced with it is ignored.
WaitCleanupGivesUp(t) ==
  /\ At(t, "cleanup")
  /\ bucket' = SelectSeq(bucket, LAMBDA u : u # t)
  /\ Goto(t, "return")
  /\ UNCHANGED <<swVars, word, uaddr, woken, timed, ret, need_die, stray>>

\* Mutant: a wait that timed out leaves its node in the bucket.
WaitCleanupLeaves(t) ==
  /\ At(t, "cleanup")
  /\ IF woken[t] THEN Return(t, "0") /\ ConsumeIfAny(t) ELSE UNCHANGED <<ret, swVars>>
  /\ Goto(t, "return")
  /\ UNCHANGED <<word, bucket, uaddr, woken, timed, need_die, stray>>

\* The unified cleanup under the guard.
WaitCleanup(t) ==
  /\ At(t, "cleanup")
  /\ IF woken[t]
       THEN /\ Return(t, "0")
            /\ ConsumeIfAny(t)
            /\ UNCHANGED bucket
       ELSE /\ bucket' = SelectSeq(bucket, LAMBDA u : u # t)
            /\ UNCHANGED <<ret, swVars>>
  /\ Goto(t, "return")
  /\ UNCHANGED <<word, uaddr, woken, timed, need_die, stray>>

\* futex_wait returns; the frame of the waiter is gone.
WaitReturn(t) ==
  /\ At(t, "return")
  /\ uaddr' = [uaddr EXCEPT ![t] = NoWord]
  /\ woken' = [woken EXCEPT ![t] = FALSE]
  /\ timed' = [timed EXCEPT ![t] = FALSE]
  /\ Return(t, "none")
  /\ Goto(t, "user")
  /\ UNCHANGED <<swVars, word, bucket, need_die, stray>>
------------------------------------------------------------------------------
\* The first n waiters of word w, in bucket order.
Picked(w, n) ==
  {bucket[i] : i \in {j \in 1..Len(bucket) :
     /\ uaddr[bucket[j]] = w
     /\ Cardinality({k \in 1..(j - 1) : uaddr[bucket[k]] = w}) < n}}

\* Mutant: the waiter is marked and taken out, and not woken.
FutexWakeSilent(w, n) ==
  LET S == Picked(w, n)
  IN  /\ bucket' = SelectSeq(bucket, LAMBDA u : u \notin S)
      /\ woken' = [t \in Tasks |-> woken[t] \/ t \in S]
      /\ UNCHANGED swVars

\* futex_wake(w, n): unlink, mark and wake up to n waiters of w.
FutexWake(w, n) ==
  LET S == Picked(w, n)
  IN  /\ bucket' = SelectSeq(bucket, LAMBDA u : u \notin S)
      /\ woken' = [t \in Tasks |-> woken[t] \/ t \in S]
      /\ WakeAll(S)

\* A thread calls futex_wake (or futex_requeue, which wakes the sum of its two
\* counts; or exits, which wakes one waiter of clear_child_tid).
CallWake(t, w, n) ==
  /\ At(t, "user")
  /\ FutexWake(w, n)
  /\ UNCHANGED <<word, uaddr, timed, ret, need_die, pc, stray>>

\* User code opens the gate w; the call that wakes all waiters comes later.
StoreOpen(t, w) ==
  /\ At(t, "user") /\ ~need_die[t]
  /\ word' = [word EXCEPT ![w] = 1]
  /\ uaddr' = [uaddr EXCEPT ![t] = w]
  /\ Goto(t, "open")
  /\ UNCHANGED <<swVars, bucket, woken, timed, ret, need_die, stray>>

OpenWake(t) ==
  /\ At(t, "open")
  /\ FutexWake(uaddr[t], Cardinality(Tasks))
  /\ uaddr' = [uaddr EXCEPT ![t] = NoWord]
  /\ Goto(t, "user")
  /\ UNCHANGED <<word, timed, ret, need_die, stray>>

\* User code closes a gate.
StoreClose(t, w) ==
  /\ At(t, "user") /\ ~need_die[t]
  /\ word[w] = 1
  /\ word' = [word EXCEPT ![w] = 0]
  /\ UNCHANGED <<swVars, bucket, uaddr, woken, timed, ret, need_die, pc, stray>>

\* process_group_exit marks t and wakes it if it sees it asleep.
Kill(t) ==
  /\ ~need_die[t] /\ pc[t] # "dead"
  /\ need_die' = [need_die EXCEPT ![t] = TRUE]
  /\ IF Asleep(t) THEN Wake(t) ELSE UNCHANGED swVars
  /\ UNCHANGED <<word, bucket, uaddr, woken, timed, ret, pc, stray>>

\* The return-to-user gate retires a marked thread; one that entered a system call
\* before it was marked ("user" and "open" include the way in) still performs it.
Retire(t) ==
  /\ (At(t, "user") \/ At(t, "open")) /\ need_die[t]
  /\ uaddr' = [uaddr EXCEPT ![t] = NoWord]
  /\ Goto(t, "dead")
  /\ Stop(t)
  /\ UNCHANGED <<word, bucket, woken, timed, ret, need_die, stray>>

\* A wake of another subsystem, such as process_exit_current's to a parent.
StrayWake(t) ==
  /\ stray < MaxStray /\ pc[t] # "dead"
  /\ stray' = stray + 1
  /\ Wake(t)
  /\ UNCHANGED <<word, bucket, uaddr, woken, timed, ret, need_die, pc>>

\* The tick reaches the deadline of a timed sleeper.
Timeout(t) == Expire(t) /\ UNCHANGED ftVars

\* The steps a thread makes by itself once it is in the kernel.
Proceed(t) == \/ WaitLoop(t)
              \/ WaitConsume(t)
              \/ WaitSleepCheck(t)
              \/ WaitSleep(t)
              \/ WaitCreditReturn(t)
              \/ WaitSleepReturn(t)
              \/ WaitCleanup(t)
              \/ WaitReturn(t)
              \/ OpenWake(t)
              \/ Retire(t)

Next == \E t \in Tasks :
          \/ Proceed(t)
          \/ Timeout(t)
          \/ Kill(t)
          \/ StrayWake(t)
          \/ \E w \in Words : \/ \E d \in BOOLEAN : WaitEnter(t, w, d)
                              \/ \E n \in Counts : CallWake(t, w, n)
                              \/ StoreOpen(t, w)
                              \/ StoreClose(t, w)

Spec == Init /\ [][Next]_vars

\* Round robin runs every ready thread; the clock reaches every deadline.
FairSpec == Spec /\ \A t \in Tasks : WF_vars(Proceed(t)) /\ WF_vars(Timeout(t))
------------------------------------------------------------------------------
\* The state is well-typed.  The bucket holds the node of exactly the threads that are
\* inside futex_wait and not woken, once each: a node on a kernel stack never outlives its
\* frame there, whether the wait ends by wake, timeout or death.  Nor does futex_wait leave
\* a credit behind: without wakes from elsewhere, a credit belongs to a wait that is still
\* in progress and was woken.
NothingLeftBehind ==
  /\ TypeOK
  /\ \A t \in Tasks : (\E i \in 1..Len(bucket) : bucket[i] = t) <=> InWait(t) /\ ~woken[t]
  /\ \A i, j \in 1..Len(bucket) : bucket[i] = bucket[j] => i = j
  /\ stray = 0 => \A t \in Tasks : wake_pending[t] > 0 =>
                    InWait(t) /\ woken[t] /\ wake_pending[t] = 1

\* A wake charged to a waiter is reported to it, even when its timeout or death came
\* first, futex_wait reports a wake only if there was one, and no thread sleeps on a wake
\* it already received: the one that fires between the check of w.woken and the sleep is
\* caught by the credit.
WakeHonoured ==
  \A t \in Tasks : /\ pc[t] = "return" => (ret[t] = "0" <=> woken[t])
                   /\ Asleep(t) => ~woken[t]

\* The wait and the store cannot miss each other: unless the process is being torn
\* down, a waiter left at an open gate is about to be woken by who opened it.
NoStaleWaiter ==
  (\A u \in Tasks : ~need_die[u]) => \A t \in Tasks : InWait(t) /\ ~woken[t] /\ word[uaddr[t]] = 1 =>
    \E u \in Tasks : pc[u] = "open" /\ uaddr[u] = uaddr[t]

\* A woken waiter returns, and so does one with a timeout that nobody wakes.
WaitReturns == \A t \in Tasks : InWait(t) /\ (woken[t] \/ timed[t]) ~> ~InWait(t)
=============================================================================
