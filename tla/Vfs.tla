----------------------------------- MODULE Vfs -----------------------------------
(***************************************************************************)
(* The virtual file system (kernel/fs/vfs.c): mounts, path walks and the   *)
(* cache of live inodes, used by several threads at once.                  *)
(*                                                                         *)
(* A file is its node <<mount, number>>.  An in-memory inode is an object, *)
(* whose number stands for its address; the walk of a path builds an       *)
(* object for every component from what the disk has, folds it into the    *)
(* cache and drops the one before.  Each section under icache_lock or an   *)
(* inode's lock is one step.  The calls make, remove and move the names of *)
(* files; those of directories are the subject of MinixDir.                *)
(***************************************************************************)
EXTENDS Integers, Sequences, FiniteSets, FiniteSetsExt, SequencesExt

CONSTANTS VfThreads,
          VfObjects,     \* addresses of in-memory inodes
          VfTree,        \* directory -> its names -> node, at boot
          VfFiles,       \* nodes that come and go by create and unlink
          VfCalls,       \* the calls that threads make: <<operation, path, ...>>
          VfMounts,      \* mounts to make at boot, in order: <<mount, path of its target>>
          VfMountMax,    \* VFS_MOUNT_MAX
          VfMaxWrites    \* bound: writes to a file

ASSUME VfAssumption == /\ VfObjects \subseteq Nat /\ {VfMountMax, VfMaxWrites} \subseteq Nat
                       /\ \A c \in VfCalls : c[1] \in {"open", "create", "unlink", "rename"}

NoObj == 0

VARIABLES vf_obj,      \* the objects in use
          vf_mounts,   \* mounts[]: the mount, what it covers, and its root object
          vf_names,    \* directory -> its names -> node, on the disk
          vf_disk,     \* what the disk has of a file: the writes that are in its inode
          vf_writes,   \* writes made to a file, wherever they are by now
          vf_thr       \* where each thread is

vfVars == <<vf_obj, vf_mounts, vf_names, vf_disk, vf_writes, vf_thr>>

RootOf(m) == <<m, 1>>
VfIdle == [pc |-> "idle", call |-> <<>>, walk |-> 1, rest |-> <<>>, cur |-> NoObj, cand |-> NoObj,
           dirs |-> <<>>, puts |-> <<>>, victim |-> NoObj]

VfInit ==
  /\ vf_obj = <<>>
  /\ vf_mounts = <<>>
  /\ vf_names = VfTree
  /\ vf_disk = [n \in VfFiles |-> 0]
  /\ vf_writes = [n \in VfFiles |-> 0]
  /\ vf_thr = [t \in VfThreads |-> VfIdle]
-------------------------------------------------------------------------------
Live == DOMAIN vf_obj
IsDir(n) == n \in DOMAIN VfTree
Named == UNION {Range(vf_names[d]) : d \in DOMAIN vf_names}

\* An inode built by ops->lookup or ops->create: refcount 0 and not in the cache.
Built(n) == [node |-> n, ref |-> 0, cached |-> FALSE, dirty |-> FALSE, lock |-> "free",
             meta |-> IF n \in VfFiles THEN vf_disk[n] ELSE 0]

With(objs, o, rec) == [x \in DOMAIN objs \cup {o} |-> IF x = o THEN rec ELSE objs[x]]
Without(objs, o) == [x \in DOMAIN objs \ {o} |-> objs[x]]

\* Mutant: a thread that finds the inode in the cache does not count itself.
FoldUncounted(objs, o) ==
  LET same == {p \in DOMAIN objs : objs[p].cached /\ objs[p].node = objs[o].node}
  IN  IF same = {} THEN [objs |-> [objs EXCEPT ![o].ref = 1, ![o].cached = TRUE], got |-> o]
      ELSE [objs |-> Without(objs, o), got |-> Min(same)]

\* vfs_icache_canonicalize: the object of the cache for o's node, one reference more.
Fold(objs, o) ==
  LET same == {p \in DOMAIN objs : objs[p].cached /\ objs[p].node = objs[o].node}
  IN  IF same = {} THEN [objs |-> [objs EXCEPT ![o].ref = 1, ![o].cached = TRUE], got |-> o]
      ELSE [objs |-> [Without(objs, o) EXCEPT ![Min(same)].ref = @ + 1], got |-> Min(same)]

\* cross_mounts: the mounts on a node.
MountedOn(n) == {i \in 2..Len(vf_mounts) : vf_mounts[i].covered = n}

\* The node that an absolute path (normalize_path leaves no "." and "..") leads to, with
\* nobody else about.
RECURSIVE Across(_)
Across(n) == IF MountedOn(n) = {} THEN n ELSE Across(RootOf(vf_mounts[Min(MountedOn(n))].mnt))
RECURSIVE Resolve(_, _)
Resolve(n, path) ==
  IF path = <<>> THEN n ELSE Resolve(Across(vf_names[n][Head(path)]), Tail(path))
-------------------------------------------------------------------------------
\* normalize_path: "." and ".." go by the names alone, and the parent of "/" is "/".
NormalizePath(path) ==
  LET Take(out, comp) == CASE comp = "."  -> out
                           [] comp = ".." -> IF out = <<>> THEN out ELSE Front(out)
                           [] OTHER       -> Append(out, comp)
  IN  FoldLeft(Take, <<>>, path)

AllIdle == \A t \in VfThreads : vf_thr[t] = VfIdle

\* vfs_mount, while the kernel boots and no thread runs: the target is found, must be a
\* directory on which nothing is mounted, and a slot must be free. The root inode is pinned.
VfMount ==
  LET i == Len(vf_mounts) + 1
      o == Min(VfObjects \ Live)
      target == IF i = 1 THEN <<>>
                ELSE Resolve(Across(RootOf(vf_mounts[1].mnt)), NormalizePath(VfMounts[i][2]))
  IN  /\ AllIdle
      /\ i <= Len(VfMounts) /\ i <= VfMountMax
      /\ i > 1 => IsDir(target) /\ MountedOn(target) = {}
      /\ vf_mounts' = Append(vf_mounts, [mnt |-> VfMounts[i][1], covered |-> target, root |-> o])
      /\ vf_obj' = Fold(With(vf_obj, o, Built(RootOf(VfMounts[i][1]))), o).objs
      /\ UNCHANGED <<vf_names, vf_disk, vf_writes, vf_thr>>

Booted == Len(vf_mounts) = Len(VfMounts)

Set(t, rec) == vf_thr' = [vf_thr EXCEPT ![t] = rec]
At(t, pc) == vf_thr[t].pc = pc /\ vf_thr[t].puts = <<>> /\ vf_thr[t].victim = NoObj

\* A thread builds an object for node n, at the first free address (cache_alloc of slab.c);
\* its next step folds it into the cache.
Build(t, n, thr) ==
  LET o == Min(VfObjects \ Live)
  IN  /\ vf_obj' = With(vf_obj, o, Built(n))
      /\ Set(t, [thr EXCEPT !.pc = "fold", !.cand = o])

\* vfs_open, and vfs_parent of the calls that change a directory: the walk starts at a clone
\* of the root.
VfCall(t, c) ==
  /\ Booted /\ At(t, "idle")
  /\ Build(t, RootOf(vf_mounts[1].mnt), [VfIdle EXCEPT !.call = c, !.rest = NormalizePath(c[2])])
  /\ UNCHANGED <<vf_mounts, vf_names, vf_disk, vf_writes>>

\* The object is folded into the cache, then the one before it is dropped.
VfFold(t) ==
  LET me == vf_thr[t]
      f == Fold(vf_obj, me.cand)
  IN  /\ At(t, "fold")
      /\ vf_obj' = f.objs
      /\ Set(t, [me EXCEPT !.pc = "walk", !.cand = NoObj, !.cur = f.got,
                           !.puts = IF me.cur = NoObj THEN <<>> ELSE <<me.cur>>])
      /\ UNCHANGED <<vf_mounts, vf_names, vf_disk, vf_writes>>

\* cross_mounts: a directory that something is mounted on gives way to the root of the mount.
VfCross(t) ==
  LET on == MountedOn(vf_obj[vf_thr[t].cur].node)
  IN  /\ At(t, "walk") /\ on # {}
      /\ Build(t, RootOf(vf_mounts[Min(on)].mnt), vf_thr[t])
      /\ UNCHANGED <<vf_mounts, vf_names, vf_disk, vf_writes>>

\* The walk is at the end of its path, or for vfs_parent at its last name.
Arrived(t) == LET me == vf_thr[t]
              IN  Len(me.rest) = IF me.call[1] = "open" THEN 0 ELSE 1
OnTheWay(t) == At(t, "walk") /\ MountedOn(vf_obj[vf_thr[t].cur].node) = {}

\* The node that a directory has under a name, if any.
Children(n, name) == IF IsDir(n) /\ name \in DOMAIN vf_names[n] THEN {vf_names[n][name]} ELSE {}

\* ops->lookup of the next name: the inode is built from what the disk has, and the
\* directory is not locked.
VfLookup(t) ==
  LET me == vf_thr[t]
  IN  /\ OnTheWay(t) /\ ~Arrived(t) /\ me.rest # <<>>
      /\ \E n \in Children(vf_obj[me.cur].node, Head(me.rest)) :
           Build(t, n, [me EXCEPT !.rest = Tail(@)])
      /\ UNCHANGED <<vf_mounts, vf_names, vf_disk, vf_writes>>

\* -ENOENT or -ENOTDIR, or -EINVAL if vfs_parent finds no name: what the walks hold is dropped.
VfNotFound(t) ==
  LET me == vf_thr[t]
  IN  /\ OnTheWay(t) /\ ~Arrived(t)
      /\ me.rest # <<>> => Children(vf_obj[me.cur].node, Head(me.rest)) = {}
      /\ Set(t, [VfIdle EXCEPT !.puts = <<me.cur>> \o me.dirs])
      /\ UNCHANGED <<vf_obj, vf_mounts, vf_names, vf_disk, vf_writes>>

\* The first path of vfs_rename is done, and the second one starts.
VfSecondPath(t) ==
  LET me == vf_thr[t]
  IN  /\ OnTheWay(t) /\ Arrived(t) /\ Len(me.call) > 1 + me.walk
      /\ Build(t, RootOf(vf_mounts[1].mnt),
               [me EXCEPT !.walk = 2, !.rest = NormalizePath(me.call[3]), !.dirs = <<me.cur>>, !.cur = NoObj])
      /\ UNCHANGED <<vf_mounts, vf_names, vf_disk, vf_writes>>

\* All paths are walked: an opened file is held, a directory is to be locked.
VfArrive(t) ==
  LET me == vf_thr[t]
  IN  /\ OnTheWay(t) /\ Arrived(t) /\ Len(me.call) = 1 + me.walk
      /\ Set(t, [me EXCEPT !.pc = IF me.call[1] = "open" THEN "opened" ELSE "lock",
                           !.dirs = Append(@, me.cur), !.cur = NoObj])
      /\ UNCHANGED <<vf_obj, vf_mounts, vf_names, vf_disk, vf_writes>>

\* vfs_write, vfs_truncate: under the inode's lock, to the copy that the object has.
VfWrite(t) ==
  LET o == vf_thr[t].dirs[1]
      n == vf_obj[o].node
  IN  /\ At(t, "opened") /\ n \in VfFiles
      /\ vf_obj[o].lock = "free" /\ Max({vf_writes[n], vf_obj[o].meta}) < VfMaxWrites
      /\ vf_obj' = [vf_obj EXCEPT ![o].meta = @ + 1, ![o].dirty = TRUE]
      /\ vf_writes' = [vf_writes EXCEPT ![n] = @ + 1]
      /\ UNCHANGED <<vf_mounts, vf_names, vf_disk, vf_thr>>

\* vfs_fsync: minix_fsync writes the inode.
VfFsync(t) ==
  LET o == vf_thr[t].dirs[1]
  IN  /\ At(t, "opened") /\ vf_obj[o].lock = "free" /\ vf_obj[o].dirty
      /\ vf_disk' = [vf_disk EXCEPT ![vf_obj[o].node] = vf_obj[o].meta]
      /\ vf_obj' = [vf_obj EXCEPT ![o].dirty = FALSE]
      /\ UNCHANGED <<vf_mounts, vf_names, vf_writes, vf_thr>>

\* vfs_close of an opened file.
VfClose(t) ==
  /\ At(t, "opened")
  /\ Set(t, [VfIdle EXCEPT !.puts = vf_thr[t].dirs])
  /\ UNCHANGED <<vf_obj, vf_mounts, vf_names, vf_disk, vf_writes>>

\* vfs_create, under the directory's lock: an inode that is free gets the name, to be folded
\* into the cache; -EEXIST, -ENOTDIR and -ENOSPC: the directory is dropped.
VfCreate(t) ==
  LET me == vf_thr[t]
      dir == vf_obj[me.dirs[1]].node
      name == Head(me.rest)
      spare == {n \in VfFiles : n[1] = dir[1]} \ Named
      n == CHOOSE n \in spare : TRUE
      new == Min(VfObjects \ Live)
  IN  /\ At(t, "lock") /\ me.call[1] = "create" /\ vf_obj[me.dirs[1]].lock = "free"
      /\ IF IsDir(dir) /\ Children(dir, name) = {} /\ spare # {}
         THEN /\ vf_names' = [vf_names EXCEPT ![dir] = With(@, name, n)]
              /\ vf_disk' = [vf_disk EXCEPT ![n] = 0]
              /\ vf_writes' = [vf_writes EXCEPT ![n] = 0]
              /\ vf_obj' = With(vf_obj, new, [Built(n) EXCEPT !.meta = 0])
              /\ Set(t, [me EXCEPT !.pc = "made", !.cand = new])
         ELSE /\ Set(t, [VfIdle EXCEPT !.puts = me.dirs])
              /\ UNCHANGED <<vf_obj, vf_names, vf_disk, vf_writes>>
      /\ UNCHANGED vf_mounts

VfCreated(t) ==
  LET me == vf_thr[t]
      f == Fold(vf_obj, me.cand)
  IN  /\ At(t, "made")
      /\ vf_obj' = f.objs
      /\ Set(t, [me EXCEPT !.pc = "opened", !.cand = NoObj, !.dirs = <<f.got>>, !.puts = me.dirs])
      /\ UNCHANGED <<vf_mounts, vf_names, vf_disk, vf_writes>>

\* vfs_unlink: ops->unlink refuses a directory, and does not ask who has the file open.
VfUnlink(t) ==
  LET me == vf_thr[t]
      dir == vf_obj[me.dirs[1]].node
      there == \E n \in Children(dir, Head(me.rest)) : ~IsDir(n)
  IN  /\ At(t, "lock") /\ me.call[1] = "unlink" /\ vf_obj[me.dirs[1]].lock = "free"
      /\ vf_names' = IF there THEN [vf_names EXCEPT ![dir] = Without(@, Head(me.rest))] ELSE vf_names
      /\ Set(t, [VfIdle EXCEPT !.puts = me.dirs])
      /\ UNCHANGED <<vf_obj, vf_mounts, vf_disk, vf_writes>>

\* Mutant: the locks of vfs_rename in the order of its arguments.
LockOrderAsGiven(dirs) == IF dirs[1] = dirs[2] THEN <<dirs[1]>> ELSE dirs

\* The order in which vfs_rename takes the locks: by address, and one directory once.
LockOrder(dirs) == SetToSortSeq(Range(dirs), <)

Has(t) == {o \in Live : vf_obj[o].lock = t}

\* The lock that a thread in vfs_rename takes next.
Wants(t) ==
  LET me == vf_thr[t]
  IN  IF me.pc # "lock" \/ me.call[1] # "rename" THEN {}
      ELSE LET order == LockOrder(me.dirs)
               n == Cardinality(Has(t)) + 1
           IN  IF n > Len(order) THEN {} ELSE {order[n]}

\* vfs_rename takes its next lock.
VfLock(t) ==
  /\ At(t, "lock")
  /\ \E o \in Wants(t) : vf_obj[o].lock = "free" /\ vf_obj' = [vf_obj EXCEPT ![o].lock = t]
  /\ UNCHANGED <<vf_mounts, vf_names, vf_disk, vf_writes, vf_thr>>

\* ops->rename of a file from one directory to another: it takes the place of a file that has
\* the new name. -ENOENT, -EISDIR, and -EXDEV of vfs_rename: nothing.
Moved(from, old, to, new) ==
  LET src == Children(from, old)
  IN  IF from[1] = to[1] /\ src # {} /\ \A n \in src \cup Children(to, new) : ~IsDir(n)
      THEN [[vf_names EXCEPT ![from] = Without(@, old)] EXCEPT ![to] = With(@, new, vf_names[from][old])]
      ELSE vf_names

\* With both locks it calls ops->rename, unlocks and drops the directories.
VfRename(t) ==
  LET me == vf_thr[t]
      ds == Range(me.dirs)
  IN  /\ At(t, "lock") /\ me.call[1] = "rename" /\ \A o \in ds : vf_obj[o].lock = t
      /\ vf_names' = Moved(vf_obj[me.dirs[1]].node, Last(NormalizePath(me.call[2])),
                           vf_obj[me.dirs[2]].node, Head(me.rest))
      /\ vf_obj' = [o \in Live |-> IF o \in ds THEN [vf_obj[o] EXCEPT !.lock = "free"] ELSE vf_obj[o]]
      /\ Set(t, [VfIdle EXCEPT !.puts = Reverse(me.dirs)])
      /\ UNCHANGED <<vf_mounts, vf_disk, vf_writes>>

\* vfs_iput under icache_lock: the last reference takes the object out of the cache.
VfPut(t) ==
  LET me == vf_thr[t]
      o == Head(me.puts)
      last == vf_obj[o].ref = 1
  IN  /\ me.puts # <<>> /\ me.victim = NoObj
      /\ vf_obj' = [vf_obj EXCEPT ![o].ref = @ - 1, ![o].cached = ~last]
      /\ Set(t, [me EXCEPT !.puts = Tail(@), !.victim = IF last THEN o ELSE NoObj])
      /\ UNCHANGED <<vf_mounts, vf_names, vf_disk, vf_writes>>

\* ops->close of an object that has left the cache: minix_close writes it back, and frees it.
VfCloseVictim(t) ==
  LET me == vf_thr[t]
      v == vf_obj[me.victim]
  IN  /\ me.victim # NoObj
      /\ vf_disk' = IF v.dirty THEN [vf_disk EXCEPT ![v.node] = v.meta] ELSE vf_disk
      /\ vf_obj' = Without(vf_obj, me.victim)
      /\ Set(t, [me EXCEPT !.victim = NoObj])
      /\ UNCHANGED <<vf_mounts, vf_names, vf_writes>>

VfThread(t) ==
  \/ \E c \in VfCalls : VfCall(t, c)
  \/ VfFold(t) \/ VfCross(t) \/ VfLookup(t) \/ VfNotFound(t) \/ VfSecondPath(t) \/ VfArrive(t)
  \/ VfWrite(t) \/ VfFsync(t) \/ VfClose(t) \/ VfCreate(t) \/ VfCreated(t) \/ VfUnlink(t)
  \/ VfLock(t) \/ VfRename(t) \/ VfPut(t) \/ VfCloseVictim(t)

VfNext == VfMount \/ \E t \in VfThreads : VfThread(t)

VfSpec == VfInit /\ [][VfNext]_vfVars
-------------------------------------------------------------------------------
\* The objects that a thread refers to, and the number of references to an object that
\* threads and mounts have.
Refers(t) == vf_thr[t].dirs \o vf_thr[t].puts \o <<vf_thr[t].cur>>
Held(o) == Cardinality({i \in DOMAIN vf_mounts : vf_mounts[i].root = o})
           + Cardinality(UNION {{<<t, i>> : i \in {i \in DOMAIN Refers(t) : Refers(t)[i] = o}} : t \in VfThreads})

\* The nodes a path leads to when every component is looked up, ".." included; none if one
\* is missing.
ParentDirs(n) ==
  LET on == {i \in 2..Len(vf_mounts) : RootOf(vf_mounts[i].mnt) = n}
      at == IF on = {} THEN n ELSE vf_mounts[CHOOSE i \in on : TRUE].covered
      up == {d \in DOMAIN VfTree : \E name \in DOMAIN VfTree[d] : VfTree[d][name] = at}
  IN  IF up = {} THEN {at} ELSE up
Stepwise(path) ==
  LET Step(S, comp) == {Across(n) : n \in UNION {
                          CASE comp = "."  -> {d}
                            [] comp = ".." -> ParentDirs(d)
                            [] OTHER       -> Children(d, comp)
                          : d \in {d \in S : IsDir(d)}}}
  IN  FoldLeft(Step, {Across(RootOf(vf_mounts[1].mnt))}, path)

\* The inode cache is exact whatever the threads do at once (vfs_icache_canonicalize,
\* vfs_iput): a node has at most one object in the cache, an object's count is the number of
\* references to it, and whoever refers to an object finds it in the cache and not freed.
\* What a path opens is the file it leads to component by component, across mounts, although
\* normalize_path takes ".." out by the names alone (a file of VfFiles may since have moved).
CacheExact ==
  /\ \A o, p \in Live : vf_obj[o].cached /\ vf_obj[p].cached /\ vf_obj[o].node = vf_obj[p].node => o = p
  /\ \A o \in Live : vf_obj[o].ref = Held(o) /\ (vf_obj[o].cached \/ vf_obj[o].ref = 0)
  /\ \A o \in VfObjects \ Live : Held(o) = 0
  /\ \A t \in VfThreads : vf_thr[t].victim # NoObj => vf_thr[t].victim \in Live
  /\ \A t \in VfThreads : LET me == vf_thr[t]
                           IN  me.pc = "opened" /\ me.call[1] = "open" =>
                                 Stepwise(me.call[2]) \subseteq {vf_obj[me.dirs[1]].node} \cup VfFiles

\* Threads that rename between the same directories do not wait for each other in a circle,
\* because vfs_rename locks directories by address.
NoLockCycle == \A S \in SUBSET VfThreads \ {{}} :
                 \E t \in S : \A u \in S : Wants(t) \cap Has(u) = {}

\* Not met: who has a file open sees all that was written to it ("Sharing one object behind
\* one mutex fixes that", vfs.c). vfs_iput takes an inode out of the cache before ops->close
\* writes it, and ops->lookup may have read it before that.
OpenIsCurrent ==
  \A t \in VfThreads : vf_thr[t].pc = "opened" =>
    LET v == vf_obj[vf_thr[t].dirs[1]]
    IN  v.node \in Named => v.meta = vf_writes[v.node]
===============================================================================
