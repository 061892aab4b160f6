------------------------------ MODULE VirtioBlk ------------------------------
(***************************************************************************)
(* The request path of the virtio block driver, drivers/virtio_blk.c.      *)
(*                                                                         *)
(* Several threads read and write sectors through one virtqueue of which   *)
(* only descriptor chain 0 is used.  A thread holds d->lock with           *)
(* interrupts off while it publishes a request and while it polls, gives   *)
(* it up to yield or to sleep with a deadline, and the device works on its *)
(* own: it completes the request, well or badly, early, late or never, and *)
(* raises an interrupt.  A thread that gives up on the device latches it   *)
(* dead and leaks its DMA page.                                            *)
(***************************************************************************)
EXTENDS Naturals, FiniteSets

CONSTANTS VbThreads,
          VbSectors,    \* d->capacity
          VbPages,      \* the DMA pages pmm_alloc_dma may hand out
          VbValues,
          VbNone,       \* no thread, no page, no request
          VbOps,        \* the calls to look at: [kind, lba, count, val]
          VbIrqModes,   \* the values of d->irq_enabled to look at
          VbIdx         \* the modulus of the 16-bit ring indices

ASSUME VbAssumption == /\ VbSectors \in Nat \ {0}
                       /\ VbIdx \in Nat /\ VbIdx > 1
                       /\ VbIrqModes \subseteq BOOLEAN
                       /\ VbNone \notin VbThreads \cup VbPages \cup VbValues
                       /\ \A op \in VbOps : op.kind \in {"read", "write"}

VARIABLES vb_disk,      \* the medium
          vb_mem,       \* what the DMA pages hold
          vb_free,      \* the pages pmm has
          vb_dev,       \* the chain the device works on: [kind, sec, page], or VbNone
          vb_used,      \* vq->used_hdr->idx
          vb_last,      \* vq->last_used_idx
          vb_elem,      \* the used element and meta->status
          vb_irq,       \* an interrupt is pending
          vb_enabled,   \* d->irq_enabled
          vb_lock,      \* who holds d->lock (VbNone: nobody)
          vb_busy, vb_dead, vb_waiter,
          vb_pc,
          vb_op,        \* the call: [kind, lba, count, val]
          vb_i,         \* the sector of the call it is at
          vb_page,      \* its bounce page
          vb_out,       \* what the last request gave: the buffer, "wrote", or "error": nothing
          vb_state, vb_credit   \* the scheduler's side of the threads

vbDevice == <<vb_disk, vb_mem, vb_dev, vb_used, vb_elem, vb_irq>>
vbDriver == <<vb_last, vb_enabled, vb_lock, vb_busy, vb_dead, vb_waiter>>
vbCall == <<vb_op, vb_i, vb_page, vb_free, vb_out>>
vbTask == <<vb_state, vb_credit>>
vbVars == <<vbDevice, vbDriver, vb_pc, vbCall, vbTask>>

VbS == INSTANCE SleepWake WITH Tasks <- VbThreads, state <- vb_state, wake_pending <- vb_credit

\* No used element anybody will look at.
VbNoElem == [status |-> "none", applied |-> FALSE]

\* What a DMA page holds when it comes from pmm, which zeroes what is freed.
VbZero == CHOOSE v \in VbValues : TRUE

VbInit ==
  /\ vb_disk = [s \in 0..VbSectors - 1 |-> VbZero]
  /\ vb_mem = [p \in VbPages |-> VbZero]
  /\ vb_free = VbPages
  /\ vb_dev = VbNone
  /\ vb_used = 0 /\ vb_last = 0
  /\ vb_elem = VbNoElem
  /\ vb_irq = FALSE
  /\ vb_enabled \in VbIrqModes
  /\ vb_lock = VbNone /\ vb_busy = FALSE /\ vb_dead = FALSE /\ vb_waiter = VbNone
  /\ vb_pc = [t \in VbThreads |-> "idle"]
  /\ vb_op = [t \in VbThreads |-> VbNone]
  /\ vb_i = [t \in VbThreads |-> 0]
  /\ vb_page = [t \in VbThreads |-> VbNone]
  /\ vb_out = [t \in VbThreads |-> "error"]
  /\ vb_state = [t \in VbThreads |-> "READY"]
  /\ vb_credit = [t \in VbThreads |-> 0]

\* A thread is between two locked sections: interrupts are on, and a pending one is taken
\* before the next instruction.
VbOpen == vb_lock = VbNone /\ ~vb_irq

VbGoto(t, p) == vb_pc' = [vb_pc EXCEPT ![t] = p]

VbError(t) == vb_out' = [vb_out EXCEPT ![t] = "error"]

------------------------------------------------------------------------------
\* virtio_bdev_read and virtio_bdev_write up to the first request: the device is dead, the
\* range does not fit or there is no DMA page, or the call gets its bounce page.
VbCall(t, op) ==
  /\ vb_pc[t] = "idle" /\ VbOpen
  /\ IF vb_dead \/ op.lba + op.count > VbSectors \/ vb_free = {}
       THEN /\ VbError(t)
            /\ UNCHANGED <<vb_pc, vb_op, vb_i, vb_page, vb_free>>
       ELSE /\ LET p == CHOOSE p \in vb_free : TRUE
               IN /\ vb_page' = [vb_page EXCEPT ![t] = p]
                  /\ vb_free' = vb_free \ {p}
            /\ vb_op' = [vb_op EXCEPT ![t] = op]
            /\ vb_i' = [vb_i EXCEPT ![t] = 0]
            /\ VbGoto(t, "claim")
            /\ UNCHANGED vb_out
  /\ UNCHANGED <<vbDevice, vbDriver, vbTask>>

\* The flush comes after the last sector of a write.
VbKind(t) == IF vb_i[t] = vb_op[t].count THEN "flush" ELSE vb_op[t].kind

\* Mutant: the requests of two threads overlap.
VbPublishBusy(t) ==
  /\ vb_pc[t] = "claim" /\ VbOpen
  /\ ~vb_dead
  /\ vb_busy' = TRUE
  /\ vb_mem' = IF VbKind(t) = "write" THEN [vb_mem EXCEPT ![vb_page[t]] = vb_op[t].val] ELSE vb_mem
  /\ vb_dev' = [kind |-> VbKind(t), sec |-> vb_op[t].lba + vb_i[t], page |-> vb_page[t]]
  /\ vb_waiter' = IF vb_enabled THEN t ELSE vb_waiter
  /\ vb_lock' = t
  /\ VbGoto(t, "wait")
  /\ UNCHANGED <<vb_disk, vb_used, vb_elem, vb_irq, vb_last, vb_enabled, vb_dead, vbCall, vbTask>>

\* The first section of virtio_blk_submit: the device is free, the request is published and
\* the device notified.  (While another thread is busy: unlock, yield, try again.)
VbPublish(t) ==
  /\ vb_pc[t] = "claim" /\ VbOpen
  /\ ~vb_busy /\ ~vb_dead
  /\ vb_busy' = TRUE
  /\ vb_mem' = IF VbKind(t) = "write" THEN [vb_mem EXCEPT ![vb_page[t]] = vb_op[t].val] ELSE vb_mem
  /\ vb_dev' = [kind |-> VbKind(t), sec |-> vb_op[t].lba + vb_i[t], page |-> vb_page[t]]
  /\ vb_waiter' = IF vb_enabled THEN t ELSE vb_waiter
  /\ vb_lock' = t
  /\ VbGoto(t, "wait")
  /\ UNCHANGED <<vb_disk, vb_used, vb_elem, vb_irq, vb_last, vb_enabled, vb_dead, vbCall, vbTask>>

\* -ENODEV, or -EBUSY when the budget of yields is spent.
VbTurnedAway(t) ==
  /\ vb_pc[t] = "claim" /\ VbOpen
  /\ vb_dead \/ vb_busy
  /\ VbError(t)
  /\ VbGoto(t, "end")
  /\ UNCHANGED <<vbDevice, vbDriver, vb_op, vb_i, vb_page, vb_free, vbTask>>

\* Not used yet: sleep without the lock; otherwise poll with it.
VbWait(t) ==
  /\ vb_pc[t] = "wait" /\ vb_lock = t
  /\ IF vb_enabled /\ vb_used = vb_last
       THEN /\ vb_lock' = VbNone
            /\ VbGoto(t, "sleep")
            /\ UNCHANGED vb_waiter
       ELSE /\ vb_waiter' = VbNone
            /\ VbGoto(t, "poll")
            /\ UNCHANGED vb_lock
  /\ UNCHANGED <<vbDevice, vb_last, vb_enabled, vb_busy, vb_dead, vbCall, vbTask>>

\* sched_sleep_timed_interruptible; a thread that exit_group has marked does not sleep.
VbSleep(t) ==
  /\ vb_pc[t] = "sleep" /\ VbOpen
  /\ \/ VbS!Sleep(t, "TIMED")
     \/ vb_credit[t] = 0 /\ UNCHANGED vbTask
  /\ VbGoto(t, "relock")
  /\ UNCHANGED <<vbDevice, vbDriver, vbCall>>

\* The deadline passes, or exit_group wakes the thread.
VbExpire(t) ==
  /\ VbOpen
  /\ VbS!Expire(t)
  /\ UNCHANGED <<vbDevice, vbDriver, vb_pc, vbCall>>

\* Awake again, for whatever reason: the wait loop runs once, what is left is the poll.
VbRelock(t) ==
  /\ vb_pc[t] = "relock" /\ VbOpen /\ VbS!Ready(t)
  /\ vb_lock' = t
  /\ vb_waiter' = VbNone
  /\ vb_state' = [vb_state EXCEPT ![t] = "READY"]
  /\ VbGoto(t, "poll")
  /\ UNCHANGED <<vbDevice, vb_last, vb_enabled, vb_busy, vb_dead, vbCall, vb_credit>>

\* out: of virtio_blk_submit for the thread that owns busy.
VbRelease == /\ vb_busy' = FALSE
             /\ vb_waiter' = VbNone
             /\ vb_lock' = VbNone
             /\ vb_elem' = VbNoElem

\* Mutant: a request that timed out does not condemn the device.
VbGiveUpAlive(t) ==
  /\ vb_pc[t] = "poll" /\ vb_lock = t
  /\ \/ vb_used = vb_last
     \/ vb_elem.status \in {"badid", "short"}
  /\ VbRelease
  /\ VbError(t)
  /\ VbGoto(t, "end")
  /\ UNCHANGED <<vb_disk, vb_mem, vb_dev, vb_used, vb_irq, vb_last, vb_enabled, vb_dead, vb_op, vb_i, vb_page, vb_free, vbTask>>

\* The poll budget is spent, the used element names another chain, or a read was filled short:
\* virtio_mark_dead.
VbGiveUp(t) ==
  /\ vb_pc[t] = "poll" /\ vb_lock = t
  /\ \/ vb_used = vb_last
     \/ vb_elem.status \in {"badid", "short"}
  /\ vb_dead' = TRUE
  /\ VbRelease
  /\ VbError(t)
  /\ VbGoto(t, "end")
  /\ UNCHANGED <<vb_disk, vb_mem, vb_dev, vb_used, vb_irq, vb_last, vb_enabled, vb_op, vb_i, vb_page, vb_free, vbTask>>

\* Where the call goes after a request that succeeded (the sector count already raised).
VbAfter(t, i) == IF vb_op[t].kind = "write" /\ i < vb_op[t].count THEN "claim" ELSE "end"

\* The request was used: its status decides.
VbFinish(t) ==
  /\ vb_pc[t] = "poll" /\ vb_lock = t
  /\ vb_used # vb_last
  /\ vb_elem.status \in {"ok", "ioerr"}
  /\ vb_last' = (vb_last + 1) % VbIdx
  /\ VbRelease
  /\ CASE vb_elem.status = "ioerr" -> VbError(t) /\ VbGoto(t, "end") /\ UNCHANGED vb_i
       [] vb_elem.status # "ioerr" /\ VbKind(t) = "read" ->
            VbGoto(t, "copy") /\ UNCHANGED <<vb_i, vb_out>>
       [] vb_elem.status # "ioerr" /\ VbKind(t) = "write" ->
            /\ vb_out' = [vb_out EXCEPT ![t] = "wrote"]
            /\ vb_i' = [vb_i EXCEPT ![t] = @ + 1]
            /\ VbGoto(t, VbAfter(t, vb_i[t] + 1))
       [] vb_elem.status # "ioerr" /\ VbKind(t) = "flush" ->
            VbGoto(t, "end") /\ UNCHANGED <<vb_i, vb_out>>
  /\ UNCHANGED <<vb_disk, vb_mem, vb_dev, vb_used, vb_irq, vb_enabled, vb_dead, vb_op, vb_page, vb_free, vbTask>>

\* virtio_bdev_read copies the bounce page to the caller and goes on to the next sector.
VbCopy(t) ==
  /\ vb_pc[t] = "copy" /\ VbOpen
  /\ vb_out' = [vb_out EXCEPT ![t] = vb_mem[vb_page[t]]]
  /\ vb_i' = [vb_i EXCEPT ![t] = @ + 1]
  /\ VbGoto(t, IF vb_i[t] + 1 < vb_op[t].count THEN "claim" ELSE "end")
  /\ UNCHANGED <<vbDevice, vbDriver, vb_op, vb_page, vb_free, vbTask>>

\* out: of the two calls (the result is the caller's from here on): the bounce page is freed unless the device died, and a write whose
\* sectors all succeeded is flushed; a second visit, after the flush, has no page.
VbEnd(t) ==
  /\ vb_pc[t] = "end" /\ VbOpen
  /\ vb_free' = IF vb_dead \/ vb_page[t] = VbNone THEN vb_free ELSE vb_free \cup {vb_page[t]}
  /\ vb_mem' = [p \in VbPages |-> IF p \in vb_free' THEN VbZero ELSE vb_mem[p]]
  /\ vb_page' = [vb_page EXCEPT ![t] = VbNone]
  /\ IF vb_page[t] # VbNone /\ vb_op[t].kind = "write" /\ vb_out[t] = "wrote"
       THEN VbGoto(t, "claim") /\ UNCHANGED <<vb_op, vb_i, vb_out>>
       ELSE /\ VbGoto(t, "idle")
            /\ vb_op' = [vb_op EXCEPT ![t] = VbNone]
            /\ vb_i' = [vb_i EXCEPT ![t] = 0]
            /\ VbError(t)
  /\ UNCHANGED <<vb_disk, vb_dev, vb_used, vb_elem, vb_irq, vbDriver, vbTask>>

------------------------------------------------------------------------------
\* virtio_blk_irq.
VbIrq ==
  /\ vb_irq /\ vb_lock = VbNone
  /\ vb_irq' = FALSE
  /\ IF vb_waiter # VbNone THEN VbS!Wake(vb_waiter) ELSE UNCHANGED <<vb_state, vb_credit>>
  /\ UNCHANGED <<vb_disk, vb_mem, vb_dev, vb_used, vb_elem, vbDriver, vb_pc, vbCall>>

\* The device ends the request.  Unless the status is "ok" the data may not have moved, and the
\* message-signalled interrupt may be missing or misrouted.
VbComplete(status, applied, signalled) ==
  /\ vb_dev # VbNone
  /\ status = "ok" => applied
  /\ status = "short" => vb_dev.kind = "read" /\ ~applied
  /\ vb_mem' = IF applied /\ vb_dev.kind = "read"
                 THEN [vb_mem EXCEPT ![vb_dev.page] = vb_disk[vb_dev.sec]] ELSE vb_mem
  /\ vb_disk' = IF applied /\ vb_dev.kind = "write"
                  THEN [vb_disk EXCEPT ![vb_dev.sec] = vb_mem[vb_dev.page]] ELSE vb_disk
  /\ vb_elem' = IF vb_dead THEN VbNoElem ELSE [status |-> status, applied |-> applied]
  /\ vb_used' = (vb_used + 1) % VbIdx
  /\ vb_irq' = (vb_irq \/ (vb_enabled /\ signalled))
  /\ vb_dev' = VbNone
  /\ UNCHANGED <<vbDriver, vb_pc, vbCall, vbTask>>

VbThread(t) == \/ VbPublish(t) \/ VbTurnedAway(t) \/ VbWait(t) \/ VbSleep(t)
               \/ VbRelock(t) \/ VbGiveUp(t) \/ VbFinish(t) \/ VbCopy(t) \/ VbEnd(t)

VbNext == \/ \E t \in VbThreads : \/ VbThread(t)
                                  \/ \E op \in VbOps : VbCall(t, op)
                                  \/ VbExpire(t)
          \/ VbIrq
          \/ \E status \in {"ok", "ioerr", "badid", "short"}, applied, signalled \in BOOLEAN :
               VbComplete(status, applied, signalled)

VbSpec == VbInit /\ [][VbNext]_vbVars
------------------------------------------------------------------------------
VbBusyOwner(t) == vb_pc[t] \in {"wait", "sleep", "relock", "poll"}

\* The page the device may still write to or read from is with its driver: it is the bounce
\* page of the thread that waits, or was leaked because the device is dead; the allocator never
\* has it.  And at most one thread is inside the single descriptor chain.
VbDmaOwned ==
  /\ vb_dev # VbNone /\ vb_dev.page # VbNone =>
       /\ vb_dev.page \notin vb_free
       /\ vb_dead \/ \E t \in VbThreads : VbBusyOwner(t) /\ vb_page[t] = vb_dev.page
       /\ vb_dead => \A t \in VbThreads : ~VbBusyOwner(t)
  /\ Cardinality({t \in VbThreads : VbBusyOwner(t)}) = (IF vb_busy THEN 1 ELSE 0)

\* The request of t, as the abstract device sees it.
VbAsked(t) ==
  IF vb_pc[t] \in {"wait", "sleep", "relock", "poll", "copy"} /\ VbKind(t) # "flush"
    THEN LET done == vb_pc[t] = "copy" \/ (vb_used # vb_last /\ vb_elem.applied)
         IN [kind |-> VbKind(t), sec |-> vb_op[t].lba + vb_i[t], done |-> done,
             val |-> CASE VbKind(t) = "write" -> vb_op[t].val
                       [] VbKind(t) = "read" /\ done -> vb_mem[vb_page[t]]
                       [] VbKind(t) = "read" /\ ~done -> VbZero]
    ELSE VbNone

VbLoose == IF vb_dead /\ vb_dev # VbNone /\ vb_dev.kind = "write"
             THEN {[sec |-> vb_dev.sec, val |-> vb_mem[vb_dev.page]]} ELSE {}

VbB == INSTANCE BlockDevice
         WITH BdThreads <- VbThreads, Sectors <- 0..VbSectors - 1, Values <- VbValues,
              NoReq <- VbNone, media <- vb_disk, answer <- vb_out, loose <- VbLoose,
              asked <- [t \in VbThreads |-> VbAsked(t)]

\* virtio_bdev_read and virtio_bdev_write keep the contract of a block device, whatever the
\* device answers and whenever: no request gets the data of another one, and only a failed
\* write reaches the medium late.
VirtioImplementsBlockDevice == VbB!BdSpec
=============================================================================
