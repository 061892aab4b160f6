--------------------------------- MODULE FdTable ---------------------------------
(***************************************************************************)
(* Descriptors and open files: kernel/user/fd.c with the system calls that *)
(* use it (sys_open, sys_close, sys_read, sys_write, sys_writev,           *)
(* sys_lseek, sys_ftruncate), the copy of the table in process_fork and    *)
(* its end in process_exit_current.                                        *)
(*                                                                         *)
(* Threads of a process share its table; a child starts with a copy.  Each *)
(* section under the table's lock is a step, and so is the transfer of a   *)
(* call, under the lock of the file.  The files of the VFS lead to one     *)
(* inode, of which the words it has are counted; transfers go in chunks,   *)
(* and the user's buffer or the file system may fail at any of them.       *)
(***************************************************************************)
EXTENDS Integers, Sequences, FiniteSets, FiniteSetsExt

CONSTANTS FdProcs, FdFirst,      \* processes, and the one that is there at the start
          FdThreads, FdProcOf,   \* threads, and their process
          FdFiles,               \* addresses of struct file
          FdSlots,               \* 3..JNU_MAX_FDS-1: what fd_alloc gives out
          FdMaxSize,             \* bound: words of the inode
          FdChunk,               \* words of READ_CHUNK and WRITE_CHUNK
          FdVectors,             \* requests: lengths of the parts (one, or those of an iovec)
          FdFaults               \* chunks of a request at which it may fail, and 0: none

ASSUME FdAssumption == /\ FdFirst \in FdProcs /\ FdProcOf \in [FdThreads -> FdProcs]
                       /\ (FdSlots \cup FdFiles) \subseteq Nat \ {0} /\ {FdMaxSize, FdChunk} \subseteq Nat \ {0}

NoFile == 0

VARIABLES fd_slots,   \* process -> its table
          fd_file,    \* the open files
          fd_opens,   \* references to the inode that the VFS has given and not got back
          fd_size,    \* the inode's size
          fd_proc,    \* unborn, alive or gone
          fd_thr,     \* where each thread is, and the file it has in hand
          fd_told     \* every call so far has said what it did

fdVars == <<fd_slots, fd_file, fd_opens, fd_size, fd_proc, fd_thr, fd_told>>

FdIdle == [pc |-> "idle", file |-> NoFile]
EmptyTable == [d \in FdSlots |-> NoFile]

FdInit ==
  /\ fd_slots = [p \in FdProcs |-> EmptyTable]
  /\ fd_file = <<>>
  /\ fd_opens = 0
  /\ fd_size = 0
  /\ fd_proc = [p \in FdProcs |-> IF p = FdFirst THEN "alive" ELSE "unborn"]
  /\ fd_thr = [t \in FdThreads |-> FdIdle]
  /\ fd_told = TRUE
-------------------------------------------------------------------------------
FdLive == DOMAIN fd_file
At_(t, pc) == fd_proc[FdProcOf[t]] = "alive" /\ fd_thr[t].pc = pc
Goes(t, pc, f) == fd_thr' = [fd_thr EXCEPT ![t] = [pc |-> pc, file |-> f]]

\* sys_open: the file is made with one reference, which is the thread's until a slot has it.
FdOpen(t) ==
  /\ At_(t, "idle") /\ FdFiles \ FdLive # {}
  /\ LET f == Min(FdFiles \ FdLive)
     IN  /\ fd_file' = [g \in FdLive \cup {f} |->
                         IF g = f THEN [ref |-> 1, kind |-> "initramfs", off |-> 0] ELSE fd_file[g]]
         /\ Goes(t, "new", f)
  /\ UNCHANGED <<fd_slots, fd_opens, fd_size, fd_proc, fd_told>>

\* The path is that of a device, or of a file in the initramfs.
FdOpenOther(t, kind) ==
  /\ At_(t, "new")
  /\ fd_file' = [fd_file EXCEPT ![fd_thr[t].file].kind = kind]
  /\ Goes(t, "alloc", fd_thr[t].file)
  /\ UNCHANGED <<fd_slots, fd_opens, fd_size, fd_proc, fd_told>>

\* vfs_open or vfs_create succeeds; with O_TRUNC the inode is emptied, with O_APPEND the
\* offset is its size.
FdOpenVfs(t, trunc, app) ==
  LET size == IF trunc THEN 0 ELSE fd_size
  IN  /\ At_(t, "new")
      /\ fd_opens' = fd_opens + 1 /\ fd_size' = size
      /\ fd_file' = [fd_file EXCEPT ![fd_thr[t].file].kind = "vfs",
                                    ![fd_thr[t].file].off = IF app THEN size ELSE 0]
      /\ Goes(t, "alloc", fd_thr[t].file)
      /\ UNCHANGED <<fd_slots, fd_proc, fd_told>>

\* The path leads nowhere: file_put, of a file without an inode.
FdOpenFails(t) ==
  /\ At_(t, "new")
  /\ Goes(t, "put", fd_thr[t].file)
  /\ UNCHANGED <<fd_slots, fd_file, fd_opens, fd_size, fd_proc, fd_told>>

\* vfs_truncate fails: file_put, of a file that has its inode.
FdTruncFails(t) ==
  /\ At_(t, "new")
  /\ fd_opens' = fd_opens + 1
  /\ fd_file' = [fd_file EXCEPT ![fd_thr[t].file].kind = "vfs"]
  /\ Goes(t, "put", fd_thr[t].file)
  /\ UNCHANGED <<fd_slots, fd_size, fd_proc, fd_told>>

\* fd_alloc: the first free slot takes the reference; -EMFILE leaves it to file_put.
FdAlloc(t) ==
  LET p == FdProcOf[t]
      free == {d \in FdSlots : fd_slots[p][d] = NoFile}
  IN  /\ At_(t, "alloc")
      /\ IF free = {} THEN Goes(t, "put", fd_thr[t].file) /\ UNCHANGED fd_slots
         ELSE /\ fd_slots' = [fd_slots EXCEPT ![p][Min(free)] = fd_thr[t].file]
              /\ Goes(t, "idle", NoFile)
      /\ UNCHANGED <<fd_file, fd_opens, fd_size, fd_proc, fd_told>>

\* sys_close, fd_close: the slot's reference is the thread's.
FdClose(t, d) ==
  LET p == FdProcOf[t]
  IN  /\ At_(t, "idle") /\ fd_slots[p][d] # NoFile
      /\ fd_slots' = [fd_slots EXCEPT ![p][d] = NoFile]
      /\ Goes(t, "put", fd_slots[p][d])
      /\ UNCHANGED <<fd_file, fd_opens, fd_size, fd_proc, fd_told>>

\* file_put.
FdPut(t) ==
  LET f == fd_thr[t].file
      last == fd_file[f].ref = 1
  IN  /\ At_(t, "put")
      /\ fd_file' = [fd_file EXCEPT ![f].ref = @ - 1]
      /\ Goes(t, IF last THEN "destroy" ELSE "idle", IF last THEN f ELSE NoFile)
      /\ UNCHANGED <<fd_slots, fd_opens, fd_size, fd_proc, fd_told>>

\* file_destroy: vfs_close, and the file is freed.
FdDestroy(t) ==
  LET f == fd_thr[t].file
  IN  /\ At_(t, "destroy")
      /\ fd_opens' = IF fd_file[f].kind = "vfs" THEN fd_opens - 1 ELSE fd_opens
      /\ fd_file' = [g \in FdLive \ {f} |-> fd_file[g]]
      /\ Goes(t, "idle", NoFile)
      /\ UNCHANGED <<fd_slots, fd_size, fd_proc, fd_told>>

\* fd_get: the file, without a reference.
FdGet(t, d) ==
  LET p == FdProcOf[t]
  IN  /\ At_(t, "idle") /\ fd_slots[p][d] # NoFile
      /\ Goes(t, "use", fd_slots[p][d])
      /\ UNCHANGED <<fd_slots, fd_file, fd_opens, fd_size, fd_proc, fd_told>>

\* file_size of sys_lseek: a file of the initramfs does not change.
FileSize(f) == IF fd_file[f].kind = "vfs" THEN fd_size ELSE FdMaxSize

Least(a, b) == IF a < b THEN a ELSE b

\* The loops of sys_read and sys_write over one buffer: s has the offset and size, the words
\* moved, and the chunks left until one fails (0: none does).
RECURSIVE ReadLoop(_, _)
ReadLoop(s, len) ==
  LET chunk == Least(len, FdChunk)
      n == Least(chunk, IF s.off < s.size THEN s.size - s.off ELSE 0)
      t == [s EXCEPT !.off = @ + n, !.done = @ + n, !.fault = @ - 1]
  IN  IF len = 0 THEN s
      ELSE IF s.fault = 1 THEN [s EXCEPT !.err = TRUE]
      ELSE IF n < chunk THEN [t EXCEPT !.short = TRUE]
      ELSE ReadLoop(t, len - n)

\* Mutant: the offset moves before the chunk is written.
RECURSIVE WriteLoopEager(_, _)
WriteLoopEager(s, len) ==
  LET n == Least(len, FdChunk)
      t == [s EXCEPT !.off = @ + n, !.size = Max({@, s.off + n}), !.done = @ + n, !.fault = @ - 1]
  IN  IF len = 0 THEN s
      ELSE IF s.fault = 1 \/ s.off + n > FdMaxSize THEN [s EXCEPT !.err = TRUE, !.off = @ + n]
      ELSE WriteLoopEager(t, len - n)

\* minix_write is all or nothing for a chunk; it fails when the device is full.
RECURSIVE WriteLoop(_, _)
WriteLoop(s, len) ==
  LET n == Least(len, FdChunk)
      t == [s EXCEPT !.off = @ + n, !.size = Max({@, s.off + n}), !.done = @ + n, !.fault = @ - 1]
  IN  IF len = 0 THEN s
      ELSE IF s.fault = 1 \/ s.off + n > FdMaxSize THEN [s EXCEPT !.err = TRUE]
      ELSE WriteLoop(t, len - n)

\* sys_writev (and sys_write: one part): what the parts moved, and the error only if nothing
\* was. A part that moved less than its length is the last one.
RECURSIVE WriteParts(_, _, _)
WriteParts(s, parts, total) ==
  LET r == WriteLoop([s EXCEPT !.done = 0, !.err = FALSE], Head(parts))
      n == IF r.err /\ r.done = 0 THEN -1 ELSE r.done
  IN  IF parts = <<>> THEN [s EXCEPT !.ret = total]
      ELSE IF n < 0 THEN [r EXCEPT !.ret = IF total > 0 THEN total ELSE -1]
      ELSE IF n < Head(parts) THEN [r EXCEPT !.ret = total + n]
      ELSE WriteParts(r, Tail(parts), total + n)

\* sys_read.
ReadOne(s, len) == LET r == ReadLoop(s, len)
                   IN  [r EXCEPT !.ret = IF r.err /\ r.done = 0 THEN -1 ELSE r.done]

\* What a call must say: the words by which it moved the offset, or an error if none.
Told(s, r) == LET moved == r.off - s.off
              IN  IF r.ret = -1 THEN moved = 0 ELSE r.ret = moved

\* A transfer under the lock of the file. If the file was freed meanwhile, the call works on
\* memory that is no longer its own; the model stops following it.
FdTransfer(t, parts, fault, write) ==
  LET f == fd_thr[t].file
      s == [off |-> fd_file[f].off, size |-> FileSize(f), done |-> 0, fault |-> fault, err |-> FALSE,
            short |-> FALSE, ret |-> 0]
      r == IF write THEN WriteParts(s, parts, 0) ELSE ReadOne(s, parts[1])
  IN  /\ At_(t, "use") /\ f \in FdLive
      /\ fd_file[f].kind = "vfs" \/ (fd_file[f].kind = "initramfs" /\ ~write)
      /\ fd_file' = [fd_file EXCEPT ![f].off = r.off]
      /\ fd_size' = IF write THEN r.size ELSE fd_size
      /\ fd_told' = (fd_told /\ Told(s, r))
      /\ Goes(t, "idle", NoFile)
      /\ UNCHANGED <<fd_slots, fd_opens, fd_proc>>

\* sys_lseek: never past the end of the file.
FdLseek(t, off) ==
  LET f == fd_thr[t].file
  IN  /\ At_(t, "use") /\ f \in FdLive
      /\ fd_file[f].kind # "chardev" /\ off <= FileSize(f)
      /\ fd_file' = [fd_file EXCEPT ![f].off = off]
      /\ Goes(t, "idle", NoFile)
      /\ UNCHANGED <<fd_slots, fd_opens, fd_size, fd_proc, fd_told>>

\* sys_ftruncate: the inode's size, whatever the offsets are.
FdTruncate(t, size) ==
  LET f == fd_thr[t].file
  IN  /\ At_(t, "use") /\ f \in FdLive /\ fd_file[f].kind = "vfs"
      /\ fd_size' = size
      /\ Goes(t, "idle", NoFile)
      /\ UNCHANGED <<fd_slots, fd_file, fd_opens, fd_proc, fd_told>>

\* Calls that fail or only look, and calls on a file that is gone.
FdReturn(t) ==
  /\ At_(t, "use")
  /\ Goes(t, "idle", NoFile)
  /\ UNCHANGED <<fd_slots, fd_file, fd_opens, fd_size, fd_proc, fd_told>>

\* Mutant: the copies in the child are not counted.
CloneUncounted(files, table) == files

\* fd_table_clone: a reference more for every slot of the copy.
CloneRefs(files, table) ==
  [f \in DOMAIN files |->
     [files[f] EXCEPT !.ref = @ + Cardinality({d \in FdSlots : table[d] = f})]]

\* process_fork: the child has a copy of the table.
FdFork(t, child) ==
  LET p == FdProcOf[t]
  IN  /\ At_(t, "idle") /\ fd_proc[child] = "unborn"
      /\ fd_slots' = [fd_slots EXCEPT ![child] = fd_slots[p]]
      /\ fd_file' = CloneRefs(fd_file, fd_slots[p])
      /\ fd_proc' = [fd_proc EXCEPT ![child] = "alive"]
      /\ UNCHANGED <<fd_opens, fd_size, fd_thr, fd_told>>

\* process_exit_current, once the other threads are gone: the slots are closed one by one
\* (also when process_fork cannot start the child: the child's table is closed so).
FdExit(t) ==
  LET p == FdProcOf[t]
      full == {d \in FdSlots : fd_slots[p][d] # NoFile}
      alone == \A u \in FdThreads : FdProcOf[u] = p => fd_thr[u] = FdIdle
  IN  /\ At_(t, "idle") /\ alone
      /\ IF full = {} THEN /\ fd_proc' = [fd_proc EXCEPT ![p] = "gone"]
                           /\ UNCHANGED <<fd_slots, fd_thr>>
         ELSE /\ fd_slots' = [fd_slots EXCEPT ![p][Min(full)] = NoFile]
              /\ Goes(t, "put", fd_slots[p][Min(full)])
              /\ UNCHANGED fd_proc
      /\ UNCHANGED <<fd_file, fd_opens, fd_size, fd_told>>

FdThread(t) ==
  \/ FdOpen(t) \/ FdOpenFails(t) \/ FdTruncFails(t) \/ FdAlloc(t) \/ FdPut(t) \/ FdDestroy(t)
  \/ FdReturn(t) \/ FdExit(t)
  \/ \E kind \in {"initramfs", "chardev"} : FdOpenOther(t, kind)
  \/ \E trunc, app \in BOOLEAN : FdOpenVfs(t, trunc, app)
  \/ \E d \in FdSlots : FdClose(t, d) \/ FdGet(t, d)
  \/ \E parts \in FdVectors, fault \in FdFaults, write \in BOOLEAN : FdTransfer(t, parts, fault, write)
  \/ \E n \in 0..FdMaxSize : FdLseek(t, n) \/ FdTruncate(t, n)
  \/ \E child \in FdProcs : FdFork(t, child)

FdNext == \E t \in FdThreads : FdThread(t)

FdSpec == FdInit /\ [][FdNext]_fdVars
-------------------------------------------------------------------------------
\* The references to a file: slots, and threads that make it or drop it.
Holders(f) == Cardinality({<<p, d>> \in FdProcs \X FdSlots : fd_slots[p][d] = f})
              + Cardinality({t \in FdThreads : fd_thr[t].file = f /\ fd_thr[t].pc \in {"new", "alloc", "put"}})

\* The contract at the head of fd.c, for every interleaving of opens, closes, forks and exits:
\* a file's count is the number of its references, no slot has a file that is freed, and each
\* reference to an inode that vfs_open gave goes back with the file it was for.
FilesExact ==
  /\ \A p \in FdProcs, d \in FdSlots : fd_slots[p][d] # NoFile => fd_slots[p][d] \in FdLive
  /\ \A f \in FdLive : fd_file[f].ref = Holders(f)
  /\ fd_opens = Cardinality({f \in FdLive : fd_file[f].kind = "vfs"})

\* sys_read, sys_write and sys_writev return the number of words by which they moved the
\* offset, also when a later chunk or a later part fails; an error means nothing moved.
TransfersTold == fd_told

\* Not met: a call finds its file alive. fd_get takes no reference, and another thread of the
\* process may close the descriptor meanwhile.
UsedIsLive == \A t \in FdThreads : fd_thr[t].pc = "use" => fd_thr[t].file \in FdLive
===============================================================================
