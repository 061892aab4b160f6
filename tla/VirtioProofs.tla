----------------------------- MODULE VirtioProofs -----------------------------
(***************************************************************************)
(* The DMA page of the virtio driver is never handed out while the device  *)
(* may use it, for any number of threads, sectors, pages and calls.        *)
(***************************************************************************)
EXTENDS VirtioBlk, FiniteSetTheorems, TLAPS

VbPcs == {"idle", "claim", "wait", "sleep", "relock", "poll", "copy", "end"}

\* The types the argument needs.
VbTypes == /\ vb_pc \in [VbThreads -> VbPcs]
           /\ vb_page \in [VbThreads -> VbPages \cup {VbNone}]
           /\ vb_op \in [VbThreads -> VbOps \cup {VbNone}]
           /\ vb_free \subseteq VbPages
           /\ \A t \in VbThreads : vb_pc[t] # "idle" => vb_op[t] \in VbOps

\* busy says whether a thread is inside the descriptor chain, and there is one at most; once
\* the device is dead there is none.
OneOwner == /\ vb_busy \in BOOLEAN
            /\ \A t \in VbThreads : VbBusyOwner(t) => vb_busy /\ ~vb_dead
            /\ \A t, u \in VbThreads : VbBusyOwner(t) /\ VbBusyOwner(u) => t = u
            /\ vb_busy => \E t \in VbThreads : VbBusyOwner(t)

\* Bounce pages are in use, and no two threads have the same.
PagesApart ==
  /\ \A t \in VbThreads : vb_page[t] \notin vb_free
  /\ \A t, u \in VbThreads : vb_page[t] = vb_page[u] /\ vb_page[t] # VbNone => t = u

\* While the device is alive the ring is never ahead by more than the one request, a chain in
\* the device is that of the owner, and an idle chain has nothing in the device.
ChainOwned ==
  ~vb_dead =>
    /\ vb_dev # VbNone => /\ vb_busy /\ vb_used = vb_last
                          /\ \A t \in VbThreads : VbBusyOwner(t) => vb_page[t] = vb_dev.page
    /\ vb_used # vb_last => vb_busy /\ vb_used = (vb_last + 1) % VbIdx

\* The allocator does not have the page, alive or dead.
PageKept == vb_dev # VbNone => vb_dev.page \notin vb_free

VbInv == VbTypes /\ OneOwner /\ PagesApart /\ ChainOwned /\ PageKept
-------------------------------------------------------------------------------
\* The variables the invariant is about.
vbCore == <<vb_pc, vb_page, vb_op, vb_free, vb_busy, vb_dead, vb_dev, vb_used, vb_last>>

\* virtio_blk.c starts with an idle chain and every page with the allocator.
LEMMA VbInitInv == VbInit => VbInv
<1> SUFFICES ASSUME VbInit PROVE VbInv
  OBVIOUS
<1>1. VbTypes
  BY DEF VbInit, VbTypes, VbPcs
<1>2. \A t \in VbThreads : ~VbBusyOwner(t)
  BY DEF VbInit, VbBusyOwner
<1>3. OneOwner
  BY <1>2 DEF VbInit, OneOwner
<1>4. PagesApart
  BY VbAssumption DEF VbInit, PagesApart
<1>5. ChainOwned /\ PageKept
  BY DEF VbInit, ChainOwned, PageKept
<1> QED BY <1>1, <1>3, <1>4, <1>5 DEF VbInv

\* Steps of the scheduler, of the interrupt and of the clock leave the invariant alone.
LEMMA VbStutter == ASSUME VbInv, UNCHANGED vbCore PROVE VbInv'
  BY DEF VbInv, vbCore, VbTypes, OneOwner, PagesApart, ChainOwned, PageKept, VbBusyOwner

\* A move of one thread between two places on the same side of the descriptor chain.
LEMMA VbMoveKeeps ==
  ASSUME VbInv, NEW t \in VbThreads, NEW p \in VbPcs \ {"idle"}, VbGoto(t, p),
         vb_pc[t] # "idle",
         VbBusyOwner(t) <=> p \in {"wait", "sleep", "relock", "poll"},
         UNCHANGED <<vb_page, vb_op, vb_free, vb_busy, vb_dead, vb_dev, vb_used, vb_last>>
  PROVE  VbInv'
<1>1. vb_pc' = [vb_pc EXCEPT ![t] = p] /\ vb_pc \in [VbThreads -> VbPcs]
  BY DEF VbInv, VbTypes, VbGoto
<1>2. \A u \in VbThreads : VbBusyOwner(u)' <=> VbBusyOwner(u)
  BY <1>1 DEF VbBusyOwner
<1>3. VbTypes'
  BY <1>1 DEF VbInv, VbTypes
<1>4. OneOwner' /\ PagesApart' /\ ChainOwned' /\ PageKept'
  BY <1>2 DEF VbInv, OneOwner, PagesApart, ChainOwned, PageKept
<1> QED BY <1>3, <1>4 DEF VbInv

\* virtio_bdev_read and virtio_bdev_write take their bounce page from the allocator.
LEMMA VbCallKeeps ==
  ASSUME VbInv, NEW t \in VbThreads, NEW op \in VbOps, VbCall(t, op) PROVE VbInv'
<1>1. CASE vb_dead \/ op.lba + op.count > VbSectors \/ vb_free = {}
  <2>1. UNCHANGED vbCore
    BY <1>1 DEF VbCall, vbCore, vbDevice, vbDriver
  <2> QED BY <2>1, VbStutter
<1>2. CASE ~(vb_dead \/ op.lba + op.count > VbSectors \/ vb_free = {})
  <2> DEFINE p == CHOOSE q \in vb_free : TRUE
  <2>1. p \in vb_free /\ p \in VbPages
    BY <1>2 DEF VbInv, VbTypes
  <2>2. /\ vb_page' = [vb_page EXCEPT ![t] = p]
        /\ vb_free' = vb_free \ {p}
        /\ vb_op' = [vb_op EXCEPT ![t] = op]
        /\ vb_pc' = [vb_pc EXCEPT ![t] = "claim"]
        /\ UNCHANGED <<vb_busy, vb_dead, vb_dev, vb_used, vb_last>>
        /\ vb_pc[t] = "idle"
    BY <1>2 DEF VbCall, VbGoto, vbDevice, vbDriver
  <2> HIDE DEF p
  <2>3. /\ vb_pc \in [VbThreads -> VbPcs]
        /\ vb_page \in [VbThreads -> VbPages \cup {VbNone}]
        /\ vb_op \in [VbThreads -> VbOps \cup {VbNone}]
        /\ vb_free \subseteq VbPages
    BY DEF VbInv, VbTypes
  <2>4. VbTypes'
    BY <2>1, <2>2, <2>3 DEF VbInv, VbTypes, VbPcs
  <2>5. \A u \in VbThreads : VbBusyOwner(u)' <=> VbBusyOwner(u)
    BY <2>2, <2>3 DEF VbBusyOwner
  <2>6. ~VbBusyOwner(t)
    BY <2>2 DEF VbBusyOwner
  <2>7. OneOwner'
    BY <2>2, <2>5 DEF VbInv, OneOwner
  <2>8. PagesApart'
    BY <2>1, <2>2, <2>3, VbAssumption DEF VbInv, PagesApart
  <2>9. \A u \in VbThreads : VbBusyOwner(u)' => vb_page'[u] = vb_page[u]
    BY <2>2, <2>3, <2>5, <2>6
  <2>10. ChainOwned' /\ PageKept'
    BY <2>2, <2>5, <2>9 DEF VbInv, ChainOwned, PageKept
  <2> QED BY <2>4, <2>7, <2>8, <2>10 DEF VbInv
<1> QED BY <1>1, <1>2

\* The first section of virtio_blk_submit makes the thread the owner of an idle chain.
LEMMA VbPublishKeeps ==
  ASSUME VbInv, NEW t \in VbThreads, VbPublish(t) PROVE VbInv'
<1>1. /\ vb_pc' = [vb_pc EXCEPT ![t] = "wait"] /\ vb_pc[t] = "claim"
      /\ vb_busy = FALSE /\ vb_busy' = TRUE /\ ~vb_dead
      /\ vb_dev' = [kind |-> VbKind(t), sec |-> vb_op[t].lba + vb_i[t], page |-> vb_page[t]]
      /\ UNCHANGED <<vb_page, vb_op, vb_free, vb_dead, vb_used, vb_last>>
  BY DEF VbPublish, VbGoto, vbCall, VbInv, OneOwner
<1>2. /\ vb_pc \in [VbThreads -> VbPcs]
      /\ vb_page \in [VbThreads -> VbPages \cup {VbNone}]
  BY DEF VbInv, VbTypes
<1>3. VbTypes'
  BY <1>1, <1>2 DEF VbInv, VbTypes, VbPcs
<1>4. \A u \in VbThreads : ~VbBusyOwner(u)
  BY <1>1 DEF VbInv, OneOwner
<1>5. \A u \in VbThreads : VbBusyOwner(u)' <=> u = t
  BY <1>1, <1>2, <1>4 DEF VbBusyOwner
<1>6. OneOwner'
  BY <1>1, <1>5 DEF OneOwner
<1>7. PagesApart'
  BY <1>1 DEF VbInv, PagesApart
<1>8. vb_used = vb_last
  BY <1>1 DEF VbInv, ChainOwned
<1>9. vb_dev'.page = vb_page[t]
  BY <1>1
<1>10. ChainOwned'
  BY <1>1, <1>5, <1>8, <1>9 DEF ChainOwned
<1>11. PageKept'
  BY <1>1, <1>9 DEF VbInv, PagesApart, PageKept
<1> QED BY <1>3, <1>6, <1>7, <1>10, <1>11 DEF VbInv

\* The owner leaves the chain with the device idle, or condemned: what VbGiveUp and VbFinish
\* have in common.
LEMMA VbLeaveKeeps ==
  ASSUME VbInv, NEW t \in VbThreads, VbBusyOwner(t),
         NEW p \in {"claim", "copy", "end"}, VbGoto(t, p), vb_busy' = FALSE,
         UNCHANGED <<vb_page, vb_op, vb_free, vb_dev, vb_used>>,
         \/ vb_dead' = TRUE
         \/ vb_dead' = vb_dead /\ vb_dev = VbNone /\ vb_last' = vb_used
  PROVE  VbInv'
<1>1. vb_pc' = [vb_pc EXCEPT ![t] = p] /\ vb_pc \in [VbThreads -> VbPcs] /\ vb_pc[t] # "idle"
  BY DEF VbInv, VbTypes, VbGoto, VbBusyOwner
<1>2. VbTypes'
  BY <1>1 DEF VbInv, VbTypes, VbPcs
<1>3. \A u \in VbThreads : ~VbBusyOwner(u)'
  <2> TAKE u \in VbThreads
  <2>1. CASE u = t BY <1>1, <2>1 DEF VbBusyOwner
  <2>2. CASE u # t
    <3>1. ~VbBusyOwner(u) BY <2>2 DEF VbInv, OneOwner
    <3> QED BY <1>1, <2>2, <3>1 DEF VbBusyOwner
  <2> QED BY <2>1, <2>2
<1>4. OneOwner'
  BY <1>3 DEF OneOwner
<1>5. PagesApart' /\ PageKept'
  BY DEF VbInv, PagesApart, PageKept
<1>6. ChainOwned'
  BY DEF ChainOwned
<1> QED BY <1>2, <1>4, <1>5, <1>6 DEF VbInv

\* virtio_mark_dead: the owner gives the device up.
LEMMA VbGiveUpKeeps ==
  ASSUME VbInv, NEW t \in VbThreads, VbGiveUp(t) PROVE VbInv'
<1>1. VbBusyOwner(t)
  BY DEF VbGiveUp, VbBusyOwner
<1>2. /\ VbGoto(t, "end") /\ vb_busy' = FALSE /\ vb_dead' = TRUE
      /\ UNCHANGED <<vb_page, vb_op, vb_free, vb_dev, vb_used>>
  BY DEF VbGiveUp, VbRelease
<1> QED BY <1>1, <1>2, VbLeaveKeeps

\* A call that is under way asks for a read, a write or a flush.
LEMMA VbKindType ==
  ASSUME VbInv, NEW t \in VbThreads, vb_pc[t] # "idle"
  PROVE  VbKind(t) \in {"read", "write", "flush"}
<1>1. vb_op[t] \in VbOps
  BY DEF VbInv, VbTypes
<1> QED BY <1>1, VbAssumption DEF VbKind

\* The used element of the owner's request ends it, and the chain is idle again.
LEMMA VbFinishKeeps ==
  ASSUME VbInv, NEW t \in VbThreads, VbFinish(t) PROVE VbInv'
<1>1. VbBusyOwner(t) /\ vb_pc[t] # "idle" /\ vb_used # vb_last
  BY DEF VbFinish, VbBusyOwner
<1>2. ~vb_dead
  BY <1>1 DEF VbInv, OneOwner
<1>3. vb_dev = VbNone /\ vb_used = (vb_last + 1) % VbIdx
  BY <1>1, <1>2 DEF VbInv, ChainOwned
<1>4. /\ vb_busy' = FALSE /\ vb_last' = vb_used
      /\ UNCHANGED <<vb_page, vb_op, vb_free, vb_dev, vb_used, vb_dead>>
  BY <1>3 DEF VbFinish, VbRelease
<1>5. VbGoto(t, "end") \/ VbGoto(t, "copy") \/ VbGoto(t, "claim")
  <2>1. CASE vb_elem.status = "ioerr"
    BY <2>1 DEF VbFinish
  <2>2. CASE vb_elem.status # "ioerr" /\ VbKind(t) = "read"
    BY <2>2 DEF VbFinish
  <2>3. CASE vb_elem.status # "ioerr" /\ VbKind(t) = "write"
    <3>1. VbGoto(t, VbAfter(t, vb_i[t] + 1))
      BY <2>3 DEF VbFinish
    <3> QED BY <3>1 DEF VbAfter
  <2>4. CASE vb_elem.status # "ioerr" /\ VbKind(t) = "flush"
    BY <2>4 DEF VbFinish
  <2> QED BY <1>1, <2>1, <2>2, <2>3, <2>4, VbKindType
<1> QED BY <1>1, <1>3, <1>4, <1>5, VbLeaveKeeps

\* The end of a call gives its page back, unless the device is dead.
LEMMA VbEndKeeps ==
  ASSUME VbInv, NEW t \in VbThreads, VbEnd(t) PROVE VbInv'
<1>1. /\ vb_pc[t] = "end"
      /\ vb_page' = [vb_page EXCEPT ![t] = VbNone]
      /\ vb_free' = IF vb_dead \/ vb_page[t] = VbNone THEN vb_free ELSE vb_free \cup {vb_page[t]}
      /\ UNCHANGED <<vb_busy, vb_dead, vb_dev, vb_used, vb_last>>
  BY DEF VbEnd, vbDriver
<1>2. /\ vb_pc \in [VbThreads -> VbPcs]
      /\ vb_page \in [VbThreads -> VbPages \cup {VbNone}]
      /\ vb_op \in [VbThreads -> VbOps \cup {VbNone}]
      /\ vb_free \subseteq VbPages
  BY DEF VbInv, VbTypes
<1>3. \/ vb_pc' = [vb_pc EXCEPT ![t] = "claim"] /\ vb_op' = vb_op
      \/ vb_pc' = [vb_pc EXCEPT ![t] = "idle"] /\ vb_op' = [vb_op EXCEPT ![t] = VbNone]
  BY DEF VbEnd, VbGoto
<1>4. vb_free' \subseteq VbPages
  BY <1>1, <1>2
<1>5. VbTypes'
  BY <1>1, <1>2, <1>3, <1>4 DEF VbInv, VbTypes, VbPcs
<1>6. ~VbBusyOwner(t)
  BY <1>1 DEF VbBusyOwner
<1>7. \A u \in VbThreads : VbBusyOwner(u)' <=> VbBusyOwner(u)
  BY <1>1, <1>2, <1>3 DEF VbBusyOwner
<1>8. OneOwner'
  BY <1>1, <1>7 DEF VbInv, OneOwner
<1>9. PagesApart'
  BY <1>1, <1>2, VbAssumption DEF VbInv, PagesApart
<1>10. \A u \in VbThreads : VbBusyOwner(u)' => vb_page'[u] = vb_page[u]
  BY <1>1, <1>2, <1>6, <1>7
<1>11. ChainOwned'
  BY <1>1, <1>7, <1>10 DEF VbInv, ChainOwned
<1>12. PageKept'
  <2>1. CASE vb_dead \/ vb_page[t] = VbNone
    BY <1>1, <2>1 DEF VbInv, PageKept
  <2>2. CASE ~vb_dead /\ vb_page[t] # VbNone /\ vb_dev # VbNone
    <3>1. PICK u \in VbThreads : VbBusyOwner(u) /\ vb_page[u] = vb_dev.page
      BY <2>2 DEF VbInv, OneOwner, ChainOwned
    <3>2. vb_page[t] # vb_dev.page
      BY <1>6, <2>2, <3>1 DEF VbInv, PagesApart
    <3> QED BY <1>1, <2>2, <3>2 DEF VbInv, PageKept
  <2>3. CASE vb_dev = VbNone
    BY <1>1, <2>3 DEF PageKept
  <2> QED BY <2>1, <2>2, <2>3
<1> QED BY <1>5, <1>8, <1>9, <1>11, <1>12 DEF VbInv

\* The device ends a request, in time or after the driver gave up.
LEMMA VbCompleteKeeps ==
  ASSUME VbInv, NEW s, NEW a, NEW g, VbComplete(s, a, g) PROVE VbInv'
<1>1. /\ vb_dev # VbNone /\ vb_dev' = VbNone /\ vb_used' = (vb_used + 1) % VbIdx
      /\ UNCHANGED <<vb_pc, vb_page, vb_op, vb_free, vb_busy, vb_dead, vb_last>>
  BY DEF VbComplete, vbDriver, vbCall
<1>2. VbTypes' /\ OneOwner' /\ PagesApart' /\ PageKept'
  BY <1>1 DEF VbInv, VbTypes, OneOwner, PagesApart, PageKept, VbBusyOwner
<1>3. ChainOwned'
  BY <1>1 DEF VbInv, ChainOwned
<1> QED BY <1>2, <1>3 DEF VbInv
-------------------------------------------------------------------------------
\* Every step of a thread, of the device and of the interrupt keeps the invariant.
LEMMA VbInvStep == ASSUME VbInv, [VbNext]_vbVars PROVE VbInv'
<1>0. CASE UNCHANGED vbVars
  <2>1. UNCHANGED vbCore
    BY <1>0 DEF vbVars, vbDevice, vbDriver, vbCall, vbCore
  <2> QED BY <2>1, VbStutter
<1>1. ASSUME NEW t \in VbThreads, NEW op \in VbOps, VbCall(t, op) PROVE VbInv'
  BY <1>1, VbCallKeeps
<1>2. ASSUME NEW t \in VbThreads, VbPublish(t) PROVE VbInv'
  BY <1>2, VbPublishKeeps
<1>3. ASSUME NEW t \in VbThreads, VbTurnedAway(t) PROVE VbInv'
  <2>1. /\ VbGoto(t, "end") /\ vb_pc[t] = "claim"
        /\ UNCHANGED <<vb_page, vb_op, vb_free, vb_busy, vb_dead, vb_dev, vb_used, vb_last>>
    BY <1>3 DEF VbTurnedAway, vbDevice, vbDriver
  <2>2. ~VbBusyOwner(t)
    BY <2>1 DEF VbBusyOwner
  <2> QED BY <2>1, <2>2, VbMoveKeeps DEF VbPcs
<1>4. ASSUME NEW t \in VbThreads, VbWait(t) PROVE VbInv'
  <2>1. /\ VbGoto(t, "sleep") \/ VbGoto(t, "poll")
        /\ vb_pc[t] = "wait"
        /\ UNCHANGED <<vb_page, vb_op, vb_free, vb_busy, vb_dead, vb_dev, vb_used, vb_last>>
    BY <1>4 DEF VbWait, vbDevice, vbCall
  <2>2. VbBusyOwner(t)
    BY <2>1 DEF VbBusyOwner
  <2> QED BY <2>1, <2>2, VbMoveKeeps DEF VbPcs
<1>5. ASSUME NEW t \in VbThreads, VbSleep(t) PROVE VbInv'
  <2>1. /\ VbGoto(t, "relock") /\ vb_pc[t] = "sleep"
        /\ UNCHANGED <<vb_page, vb_op, vb_free, vb_busy, vb_dead, vb_dev, vb_used, vb_last>>
    BY <1>5 DEF VbSleep, vbDevice, vbDriver, vbCall
  <2>2. VbBusyOwner(t)
    BY <2>1 DEF VbBusyOwner
  <2> QED BY <2>1, <2>2, VbMoveKeeps DEF VbPcs
<1>6. ASSUME NEW t \in VbThreads, VbRelock(t) PROVE VbInv'
  <2>1. /\ VbGoto(t, "poll") /\ vb_pc[t] = "relock"
        /\ UNCHANGED <<vb_page, vb_op, vb_free, vb_busy, vb_dead, vb_dev, vb_used, vb_last>>
    BY <1>6 DEF VbRelock, vbDevice, vbCall
  <2>2. VbBusyOwner(t)
    BY <2>1 DEF VbBusyOwner
  <2> QED BY <2>1, <2>2, VbMoveKeeps DEF VbPcs
<1>7. ASSUME NEW t \in VbThreads, VbGiveUp(t) PROVE VbInv'
  BY <1>7, VbGiveUpKeeps
<1>8. ASSUME NEW t \in VbThreads, VbFinish(t) PROVE VbInv'
  BY <1>8, VbFinishKeeps
<1>9. ASSUME NEW t \in VbThreads, VbCopy(t) PROVE VbInv'
  <2>1. /\ VbGoto(t, "claim") \/ VbGoto(t, "end")
        /\ vb_pc[t] = "copy"
        /\ UNCHANGED <<vb_page, vb_op, vb_free, vb_busy, vb_dead, vb_dev, vb_used, vb_last>>
    BY <1>9 DEF VbCopy, vbDevice, vbDriver
  <2>2. ~VbBusyOwner(t)
    BY <2>1 DEF VbBusyOwner
  <2> QED BY <2>1, <2>2, VbMoveKeeps DEF VbPcs
<1>10. ASSUME NEW t \in VbThreads, VbEnd(t) PROVE VbInv'
  BY <1>10, VbEndKeeps
<1>11. ASSUME NEW t \in VbThreads, VbExpire(t) PROVE VbInv'
  <2>1. UNCHANGED vbCore
    BY <1>11 DEF VbExpire, vbDevice, vbDriver, vbCall, vbCore
  <2> QED BY <2>1, VbStutter
<1>12. ASSUME VbIrq PROVE VbInv'
  <2>1. UNCHANGED vbCore
    BY <1>12 DEF VbIrq, vbDriver, vbCall, vbCore
  <2> QED BY <2>1, VbStutter
<1>13. ASSUME NEW s, NEW a, NEW g, VbComplete(s, a, g) PROVE VbInv'
  BY <1>13, VbCompleteKeeps
<1>14. CASE \E t \in VbThreads : VbThread(t)
  BY <1>2, <1>3, <1>4, <1>5, <1>6, <1>7, <1>8, <1>9, <1>10, <1>14 DEF VbThread
<1> QED BY <1>0, <1>1, <1>11, <1>12, <1>13, <1>14 DEF VbNext

\* The invariant implies what the run checks.
LEMMA VbInvOwned == ASSUME VbInv PROVE VbDmaOwned
<1> DEFINE S == {t \in VbThreads : VbBusyOwner(t)}
<1>1. Cardinality(S) = (IF vb_busy THEN 1 ELSE 0)
  <2>1. CASE vb_busy
    <3>1. PICK t \in VbThreads : VbBusyOwner(t)
      BY <2>1 DEF VbInv, OneOwner
    <3>2. S = {t}
      BY <3>1 DEF VbInv, OneOwner
    <3> QED BY <2>1, <3>2, FS_Singleton
  <2>2. CASE ~vb_busy
    <3>1. S = {}
      BY <2>2 DEF VbInv, OneOwner
    <3> QED BY <2>2, <3>1, FS_EmptySet
  <2> QED BY <2>1, <2>2
<1>2. ASSUME vb_dev # VbNone
      PROVE  /\ vb_dev.page \notin vb_free
             /\ vb_dead \/ \E t \in VbThreads : VbBusyOwner(t) /\ vb_page[t] = vb_dev.page
             /\ vb_dead => \A t \in VbThreads : ~VbBusyOwner(t)
  BY <1>2 DEF VbInv, OneOwner, ChainOwned, PageKept
<1> QED BY <1>1, <1>2 DEF VbDmaOwned

\* Whatever the device answers and whenever, a page it may still write to is not with the page
\* allocator, and belongs to the one thread in the descriptor chain or was leaked on purpose
\* when the driver gave the device up (virtio_blk_submit, virtio_mark_dead, the end of
\* virtio_bdev_read and virtio_bdev_write).
THEOREM DmaOwned == VbSpec => []VbDmaOwned
<1>1. VbInit => VbInv
  BY VbInitInv
<1>2. VbInv /\ [VbNext]_vbVars => VbInv'
  BY VbInvStep
<1>3. VbInv => VbDmaOwned
  BY VbInvOwned
<1> QED BY <1>1, <1>2, <1>3, PTL DEF VbSpec
===============================================================================
