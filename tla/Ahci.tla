-------------------------------- MODULE Ahci --------------------------------
(***************************************************************************)
(* The transfer path of the AHCI driver, drivers/ahci.c: one port, its     *)
(* single command slot and its shared bounce page.                         *)
(*                                                                         *)
(* A transfer claims the port with `busy` and moves its range in chunks of *)
(* one bounce page (a unit of data here is a chunk).  Unlike virtio_blk.c  *)
(* the driver polls with interrupts on, and it does not condemn a port     *)
(* whose command outlived the poll budget: ah_late records that it gave up *)
(* on a command the HBA still works on.                                    *)
(***************************************************************************)
EXTENDS Naturals, FiniteSets

CONSTANTS AhThreads,
          AhSectors,    \* p->sectors, in chunks
          AhValues,
          AhNone,       \* no thread, no command
          AhOps,        \* the transfers to look at: [kind, lba, count, val]
          AhIrqModes    \* the values of ahci_irq_enabled to look at

ASSUME AhAssumption == /\ AhSectors \in Nat \ {0}
                       /\ AhIrqModes \subseteq BOOLEAN
                       /\ AhNone \notin AhThreads \cup AhValues

VARIABLES ah_disk,
          ah_bounce,              \* the bounce page
          ah_cmd,                 \* the command table of slot 0: [kind, sec]
          ah_ci,                  \* PxCI bit 0
          ah_tfes, ah_err,        \* PxIS.TFES, PxTFD.ERR
          ah_active,              \* the command the HBA has fetched (PxTFD.BSY), or AhNone
          ah_halted,              \* the HBA stopped after a task file error
          ah_moved,               \* the data of the last command was moved
          ah_irq, ah_enabled,
          ah_lock, ah_busy, ah_waiter,
          ah_pc, ah_op, ah_i, ah_out,
          ah_late,                \* history: the driver gave up on a command in flight
          ah_state, ah_credit     \* the scheduler's side of the threads

ahHba == <<ah_disk, ah_active, ah_halted>>
ahRegs == <<ah_ci, ah_tfes, ah_err>>
ahCall == <<ah_op, ah_i, ah_out>>
ahTask == <<ah_state, ah_credit>>
ahVars == <<ahHba, ahRegs, ah_bounce, ah_cmd, ah_moved, ah_irq, ah_enabled, ah_lock, ah_busy,
            ah_waiter, ah_pc, ahCall, ah_late, ahTask>>

AhS == INSTANCE SleepWake WITH Tasks <- AhThreads, state <- ah_state, wake_pending <- ah_credit

AhZero == CHOOSE v \in AhValues : TRUE

AhInit ==
  /\ ah_disk = [s \in 0..AhSectors - 1 |-> AhZero]
  /\ ah_bounce = AhZero
  /\ ah_cmd = [kind |-> "read", sec |-> 0]
  /\ ah_ci = FALSE /\ ah_tfes = FALSE /\ ah_err = FALSE
  /\ ah_active = AhNone /\ ah_halted = FALSE /\ ah_moved = FALSE
  /\ ah_irq = FALSE /\ ah_enabled \in AhIrqModes
  /\ ah_lock = AhNone /\ ah_busy = FALSE /\ ah_waiter = AhNone
  /\ ah_pc = [t \in AhThreads |-> "idle"]
  /\ ah_op = [t \in AhThreads |-> AhNone]
  /\ ah_i = [t \in AhThreads |-> 0]
  /\ ah_out = [t \in AhThreads |-> "error"]
  /\ ah_late = FALSE
  /\ ah_state = [t \in AhThreads |-> "READY"]
  /\ ah_credit = [t \in AhThreads |-> 0]

\* Interrupts are on, and a pending one is taken before the next instruction.
AhOpen == ah_lock = AhNone /\ ~ah_irq

AhAt(t, p) == ah_pc[t] = p /\ AhOpen

AhGoto(t, p) == ah_pc' = [ah_pc EXCEPT ![t] = p]

AhError(t) == ah_out' = [ah_out EXCEPT ![t] = "error"]

AhSector(t) == ah_op[t].lba + ah_i[t]
------------------------------------------------------------------------------
AhCall(t, op) ==
  /\ AhAt(t, "idle")
  /\ ah_op' = [ah_op EXCEPT ![t] = op]
  /\ ah_i' = [ah_i EXCEPT ![t] = 0]
  /\ AhGoto(t, "claim")
  /\ UNCHANGED <<ahHba, ahRegs, ah_bounce, ah_cmd, ah_moved, ah_irq, ah_enabled, ah_lock, ah_busy,
                 ah_waiter, ah_out, ah_late, ahTask>>

\* ahci_transfer claims the port.  (While it is busy: unlock, yield, try again.)
AhClaim(t) ==
  /\ AhAt(t, "claim")
  /\ ~ah_busy
  /\ ah_busy' = TRUE
  /\ AhGoto(t, "chunk")
  /\ UNCHANGED <<ahHba, ahRegs, ah_bounce, ah_cmd, ah_moved, ah_irq, ah_enabled, ah_lock,
                 ah_waiter, ahCall, ah_late, ahTask>>

AhReturn(t) ==
  /\ ah_op' = [ah_op EXCEPT ![t] = AhNone]
  /\ ah_i' = [ah_i EXCEPT ![t] = 0]
  /\ AhError(t)
  /\ AhGoto(t, "idle")

\* The budget of yields is spent: -EBUSY.
AhClaimFails(t) ==
  /\ AhAt(t, "claim")
  /\ ah_busy
  /\ AhReturn(t)
  /\ UNCHANGED <<ahHba, ahRegs, ah_bounce, ah_cmd, ah_moved, ah_irq, ah_enabled, ah_lock, ah_busy,
                 ah_waiter, ah_late, ahTask>>

\* The next chunk: out of range, or the bounce page is filled for a write, ahci_setup builds the
\* command, and ahci_issue clears PxIS.
AhChunk(t) ==
  /\ AhAt(t, "chunk")
  /\ IF AhSector(t) >= AhSectors
       THEN /\ AhError(t)
            /\ AhGoto(t, "release")
            /\ UNCHANGED <<ah_bounce, ah_cmd, ah_tfes, ah_moved>>
       ELSE /\ ah_bounce' = IF ah_op[t].kind = "write" THEN ah_op[t].val ELSE ah_bounce
            /\ ah_cmd' = [kind |-> ah_op[t].kind, sec |-> AhSector(t)]
            /\ ah_tfes' = FALSE
            /\ ah_moved' = FALSE
            /\ AhGoto(t, "ready")
            /\ UNCHANGED ah_out
  /\ UNCHANGED <<ahHba, ah_ci, ah_err, ah_irq, ah_enabled, ah_lock, ah_busy, ah_waiter, ah_op, ah_i,
                 ah_late, ahTask>>

\* ahci_wait_ready, then the first locked section of ahci_issue.
AhIssue(t) ==
  /\ AhAt(t, "ready")
  /\ ah_active = AhNone
  /\ ah_waiter' = IF ah_enabled THEN t ELSE ah_waiter
  /\ ah_ci' = TRUE
  /\ ah_lock' = t
  /\ AhGoto(t, "wait")
  /\ UNCHANGED <<ahHba, ah_tfes, ah_err, ah_bounce, ah_cmd, ah_moved, ah_irq, ah_enabled, ah_busy,
                 ahCall, ah_late, ahTask>>

AhNotReady(t) ==
  /\ AhAt(t, "ready")
  /\ ah_active # AhNone
  /\ AhError(t)
  /\ AhGoto(t, "release")
  /\ UNCHANGED <<ahHba, ahRegs, ah_bounce, ah_cmd, ah_moved, ah_irq, ah_enabled, ah_lock, ah_busy,
                 ah_waiter, ah_op, ah_i, ah_late, ahTask>>

\* The wait loop with the lock: sleep while the slot is issued and has no error.
AhWait(t) ==
  /\ ah_pc[t] = "wait" /\ ah_lock = t
  /\ ah_lock' = AhNone
  /\ IF ah_enabled /\ ah_ci /\ ~ah_tfes
       THEN AhGoto(t, "sleep") /\ UNCHANGED ah_waiter
       ELSE AhGoto(t, "poll") /\ ah_waiter' = AhNone
  /\ UNCHANGED <<ahHba, ahRegs, ah_bounce, ah_cmd, ah_moved, ah_irq, ah_enabled, ah_busy, ahCall,
                 ah_late, ahTask>>

\* sched_sleep_timed_interruptible; a thread that exit_group has marked does not sleep.
AhSleep(t) ==
  /\ AhAt(t, "sleep")
  /\ \/ AhS!Sleep(t, "TIMED")
     \/ ah_credit[t] = 0 /\ UNCHANGED ahTask
  /\ AhGoto(t, "relock")
  /\ UNCHANGED <<ahHba, ahRegs, ah_bounce, ah_cmd, ah_moved, ah_irq, ah_enabled, ah_lock, ah_busy,
                 ah_waiter, ahCall, ah_late>>

\* The deadline passes, or exit_group wakes the thread.
AhExpire(t) ==
  /\ AhOpen
  /\ AhS!Expire(t)
  /\ UNCHANGED <<ahHba, ahRegs, ah_bounce, ah_cmd, ah_moved, ah_irq, ah_enabled, ah_lock, ah_busy,
                 ah_waiter, ah_pc, ahCall, ah_late>>

\* Awake: look again, or, when AHCI_IRQ_WAIT_BUDGET is spent, drop through to the poll.
AhRelock(t) ==
  /\ AhAt(t, "relock") /\ AhS!Ready(t)
  /\ ah_state' = [ah_state EXCEPT ![t] = "READY"]
  /\ \/ /\ ah_lock' = t
        /\ AhGoto(t, "wait")
        /\ UNCHANGED ah_waiter
     \/ /\ ah_waiter' = AhNone
        /\ AhGoto(t, "poll")
        /\ UNCHANGED ah_lock
  /\ UNCHANGED <<ahHba, ahRegs, ah_bounce, ah_cmd, ah_moved, ah_irq, ah_enabled, ah_busy, ahCall,
                 ah_late, ah_credit>>

\* A command of the port may still be executed.
AhInFlight == ah_active # AhNone \/ (ah_ci /\ ~ah_halted)

\* The poll ends badly: a task file error, the slot clear with an error, or the budget spent.
AhPollFails(t) ==
  /\ AhAt(t, "poll")
  /\ ah_tfes \/ ah_ci \/ ah_err
  /\ ah_late' = (ah_late \/ AhInFlight)
  /\ AhError(t)
  /\ AhGoto(t, "release")
  /\ UNCHANGED <<ahHba, ahRegs, ah_bounce, ah_cmd, ah_moved, ah_irq, ah_enabled, ah_lock, ah_busy,
                 ah_waiter, ah_op, ah_i, ahTask>>

\* Mutant: the poll looks at the slot and not at the error bit.
AhPollTrusting(t) ==
  /\ AhAt(t, "poll")
  /\ ~ah_tfes /\ ~ah_ci
  /\ ah_out' = [ah_out EXCEPT ![t] = IF ah_op[t].kind = "read" THEN ah_bounce ELSE "wrote"]
  /\ ah_i' = [ah_i EXCEPT ![t] = @ + 1]
  /\ AhGoto(t, IF ah_i[t] + 1 < ah_op[t].count THEN "chunk" ELSE "release")
  /\ UNCHANGED <<ahHba, ahRegs, ah_bounce, ah_cmd, ah_moved, ah_irq, ah_enabled, ah_lock, ah_busy,
                 ah_waiter, ah_op, ah_late, ahTask>>

\* The slot is clear and there is no error: a read copies the bounce page to its caller.
AhPollDone(t) ==
  /\ AhAt(t, "poll")
  /\ ~ah_tfes /\ ~ah_ci /\ ~ah_err
  /\ ah_out' = [ah_out EXCEPT ![t] = IF ah_op[t].kind = "read" THEN ah_bounce ELSE "wrote"]
  /\ ah_i' = [ah_i EXCEPT ![t] = @ + 1]
  /\ AhGoto(t, IF ah_i[t] + 1 < ah_op[t].count THEN "chunk" ELSE "release")
  /\ UNCHANGED <<ahHba, ahRegs, ah_bounce, ah_cmd, ah_moved, ah_irq, ah_enabled, ah_lock, ah_busy,
                 ah_waiter, ah_op, ah_late, ahTask>>

\* The end of ahci_transfer.
AhRelease(t) ==
  /\ AhAt(t, "release")
  /\ ah_busy' = FALSE
  /\ AhReturn(t)
  /\ UNCHANGED <<ahHba, ahRegs, ah_bounce, ah_cmd, ah_moved, ah_irq, ah_enabled, ah_lock, ah_waiter,
                 ah_late, ahTask>>
------------------------------------------------------------------------------
\* ahci_irq: PxIS is cleared, its error bit included, and the waiter woken.
AhIrq ==
  /\ ah_irq /\ ah_lock = AhNone
  /\ ah_irq' = FALSE
  /\ ah_tfes' = FALSE
  /\ IF ah_waiter # AhNone THEN AhS!Wake(ah_waiter) ELSE UNCHANGED ahTask
  /\ UNCHANGED <<ahHba, ah_ci, ah_err, ah_bounce, ah_cmd, ah_moved, ah_enabled, ah_lock, ah_busy,
                 ah_waiter, ah_pc, ahCall, ah_late>>

\* The HBA fetches the command of an issued slot.
AhFetch ==
  /\ ah_ci /\ ah_active = AhNone /\ ~ah_halted
  /\ ah_active' = ah_cmd
  /\ UNCHANGED <<ah_disk, ah_halted, ahRegs, ah_bounce, ah_cmd, ah_moved, ah_irq, ah_enabled, ah_lock,
                 ah_busy, ah_waiter, ah_pc, ahCall, ah_late, ahTask>>

\* It moves the data (or, with an error, may not), and clears the slot; or it stops with a task
\* file error and leaves the slot issued.  The interrupt may be missing or misrouted.
AhExecute(moved, err, halt, signalled) ==
  /\ ah_active # AhNone
  /\ err \/ (moved /\ ~halt)
  /\ ah_bounce' = IF moved /\ ah_active.kind = "read" THEN ah_disk[ah_active.sec] ELSE ah_bounce
  /\ ah_disk' = IF moved /\ ah_active.kind = "write"
                  THEN [ah_disk EXCEPT ![ah_active.sec] = ah_bounce] ELSE ah_disk
  /\ ah_moved' = moved
  /\ ah_err' = err
  /\ ah_tfes' = halt
  /\ ah_halted' = halt
  /\ ah_ci' = halt
  /\ ah_active' = AhNone
  /\ ah_irq' = (ah_irq \/ (ah_enabled /\ signalled))
  /\ UNCHANGED <<ah_cmd, ah_enabled, ah_lock, ah_busy, ah_waiter, ah_pc, ahCall, ah_late, ahTask>>

AhNext == \/ \E t \in AhThreads : \/ \E op \in AhOps : AhCall(t, op)
                                  \/ AhClaim(t) \/ AhClaimFails(t) \/ AhChunk(t)
                                  \/ AhIssue(t) \/ AhNotReady(t) \/ AhWait(t) \/ AhSleep(t)
                                  \/ AhExpire(t) \/ AhRelock(t)
                                  \/ AhPollFails(t) \/ AhPollDone(t) \/ AhRelease(t)
          \/ AhIrq
          \/ AhFetch
          \/ \E moved, err, halt, signalled \in BOOLEAN : AhExecute(moved, err, halt, signalled)

AhSpec == AhInit /\ [][AhNext]_ahVars
------------------------------------------------------------------------------
\* The command of t, as the abstract device sees it.
AhAsked(t) ==
  IF ah_pc[t] \in {"wait", "sleep", "relock", "poll"}
    THEN [kind |-> ah_op[t].kind, sec |-> AhSector(t), done |-> ah_moved,
          val |-> CASE ah_op[t].kind = "write" -> ah_op[t].val
                    [] ah_op[t].kind = "read" /\ ah_moved -> ah_bounce
                    [] ah_op[t].kind = "read" /\ ~ah_moved -> AhZero]
    ELSE AhNone

AhB == INSTANCE BlockDevice
         WITH BdThreads <- AhThreads, Sectors <- 0..AhSectors - 1, Values <- AhValues,
              NoReq <- AhNone, media <- ah_disk, answer <- ah_out, loose <- {},
              asked <- [t \in AhThreads |-> AhAsked(t)]

\* As long as every command ends within the budgets, ahci_transfer keeps the contract of a block
\* device, with no write that lands late: the claim on the port keeps two threads out of the
\* slot and the bounce page, and the handler that clears PxIS hides no error from the poll.
AhciImplementsBlockDevice == AhB!BdInit /\ [][AhB!BdNext \/ ah_late']_AhB!bdVars

\* One command is in flight at a time: a command is built only when the HBA has none.
AhOneInFlight == \A t \in AhThreads : ah_pc[t] = "ready" => ~AhInFlight
=============================================================================
