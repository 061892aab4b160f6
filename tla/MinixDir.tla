--------------------------------- MODULE MinixDir ---------------------------------
(***************************************************************************)
(* The names of a MINIX file system: kernel/fs/minix/dir.c over the inode  *)
(* map of bitmap.c and the inode table of inode.c.                         *)
(*                                                                         *)
(* A call holds the locks of the directories it changes and is one step;   *)
(* any one of the operations it is made of may fail (no memory, no space,  *)
(* a block that cannot be read): the input `bad` says which (0: none).     *)
(* A directory is the set of its entries; MinixFile shows that writing one *)
(* succeeds as a whole or leaves no trace.  An error that the code takes   *)
(* for "no such entry" or for "no more entries" is possible only with      *)
(* MdBlindReads.                                                           *)
(***************************************************************************)
EXTENDS Integers, FiniteSets, FiniteSetsExt

CONSTANTS MdInodes,      \* s_ninodes
          MdNames,       \* names of files and directories
          MdMaxLinks,    \* 0xff: the range of i_nlinks
          MdBad,         \* the operations that may fail in a call, and 0
          MdFaults,      \* bound: calls in which one does
          MdBlindReads

ASSUME MdAssumption == /\ {MdInodes, MdMaxLinks} \subseteq Nat \ {0} /\ MdFaults \in Nat
                       /\ 0 \in MdBad /\ MdBlindReads \in BOOLEAN

MdRoot == 1
MdInos == 1..MdInodes
Dot == "."
DotDot == ".."

\* The inode map, the inodes with their entries, and of the call being made what it has tried
\* so far and its result. torn and lost record what the code does not undo: directories left
\* without the right "..", and inodes left in use without a name.
VARIABLE md_fs

\* An inode that is not in use; minix_create and minix_mkdir write all of it.
MdUnused == [dir |-> FALSE, nlinks |-> 0, entries |-> {}]

MdInit == md_fs = [imap |-> {MdRoot},
                      inode |-> [i \in MdInos |->
                        IF i = MdRoot THEN [dir |-> TRUE, nlinks |-> 2,
                                            entries |-> {<<Dot, MdRoot>>, <<DotDot, MdRoot>>}]
                                      ELSE MdUnused],
                      panic |-> FALSE, torn |-> {}, lost |-> {}, n |-> 0, bad |-> 0, err |-> "ok",
                   faults |-> 0]
-------------------------------------------------------------------------------
\* The call so far has made s.n operations that can fail; number `bad` does.
Tried(s) == [s EXCEPT !.n = @ + 1]
Breaks(s) == s.n + 1 = s.bad

Error(s, e) == [s EXCEPT !.err = e]
Ok(s) == s.err = "ok"

\* minix_find_dirent, where its errors are told apart from -ENOENT.
Found(s, dir, name) == {e \in s.inode[dir].entries : e[1] = name}

EntryOf(s, dir, name) == CHOOSE e \in Found(s, dir, name) : TRUE

\* minix_write_dirent_at: all or nothing.
PutEntries(s, dir, entries) ==
  IF Breaks(s) THEN Error(Tried(s), "EIO") ELSE [Tried(s) EXCEPT !.inode[dir].entries = entries]

\* minix_add_dirent: an error of the search counts as "not there".
AddDirent(s, dir, name, ino) ==
  LET blind == MdBlindReads /\ Breaks(s)
      t == IF MdBlindReads THEN Tried(s) ELSE s
  IN  IF Found(s, dir, name) # {} /\ ~blind THEN Error(t, "EEXIST")
      ELSE PutEntries(t, dir, s.inode[dir].entries \cup {<<name, ino>>})

\* minix_zero_dirent.
ZeroDirent(s, dir, name) ==
  IF Found(s, dir, name) = {} THEN Error(s, "ENOENT")
  ELSE PutEntries(s, dir, s.inode[dir].entries \ {EntryOf(s, dir, name)})

\* minix_restore_dirent, whose result is dropped.
RestoreDirent(s, dir, e) == [AddDirent(s, dir, e[1], e[2]) EXCEPT !.err = s.err]

\* minix_dir_empty: an error of minix_readdir ends the scan.
DirEmpty(s, dir) == \/ MdBlindReads /\ Breaks(s)
                    \/ \A e \in s.inode[dir].entries : e[1] \in {Dot, DotDot}

\* minix_alloc_inode: 0 if there is none.
FreeInos(s) == MdInos \ s.imap
AllocInode(s) ==
  IF Breaks(s) \/ FreeInos(s) = {} THEN Error(Tried(s), "ENOSPC")
  ELSE [Tried(s) EXCEPT !.imap = @ \cup {Min(FreeInos(s))}]

\* minix_free_inode: a bit that is clear, and a map that cannot be read, are fatal.
FreeInode(s, ino) ==
  IF Breaks(s) \/ ino \notin s.imap THEN [Tried(s) EXCEPT !.panic = TRUE]
  ELSE [Tried(s) EXCEPT !.imap = @ \ {ino}, !.inode[ino] = MdUnused, !.torn = @ \ {ino}]

\* An operation that changes nothing and can fail: minix_get_raw_inode, minix_inode_from_raw.
Check(s, e) == IF Breaks(s) THEN Error(Tried(s), e) ELSE Tried(s)

\* minix_write_inode of a new inode.
WriteInode(s, ino, raw) ==
  IF Breaks(s) THEN Error(Tried(s), "EIO") ELSE [Tried(s) EXCEPT !.inode[ino] = raw]


\* minix_is_ancestor_or_self: the way up from `start` by "..", as long as it can be read.
RECURSIVE IsAncestorOrSelf(_, _, _, _)
IsAncestorOrSelf(s, start, target, depth) ==
  IF start = target \/ depth = 0 THEN TRUE
  ELSE IF start = MdRoot THEN FALSE
  ELSE IF Found(s, start, DotDot) = {} THEN TRUE
  ELSE LET up == EntryOf(s, start, DotDot)[2]
       IN  IF up = start THEN FALSE ELSE IsAncestorOrSelf(s, up, target, depth - 1)

\* minix_free_tree_inode; minix_truncate does not fail.
FreeTreeInode(s, ino) ==
  LET t == Check(s, "ENOMEM")
  IN  IF ~Ok(t) THEN t
      ELSE IF s.inode[ino].dir /\ ~DirEmpty(t, ino) THEN Error(t, "EBUSY")
      ELSE FreeInode(t, ino)
-------------------------------------------------------------------------------
\* minix_create.
MinixCreate(s, dir, name) ==
  LET ino == Min(FreeInos(s))
      a == AllocInode(s)
      w == WriteInode(a, ino, [dir |-> FALSE, nlinks |-> 1, entries |-> {}])
      d == AddDirent(w, dir, name, ino)
  IN  IF ~Ok(a) THEN a
      ELSE IF ~Ok(w) THEN FreeInode(w, ino)
      ELSE IF ~Ok(d) THEN FreeInode(d, ino)
      ELSE Check(d, "ENOMEM")


\* minix_unlink.
MinixUnlink(s, dir, name) ==
  LET e == EntryOf(s, dir, name)
      r == Check(s, "EIO")
      z == ZeroDirent(r, dir, name)
      f == FreeTreeInode(z, e[2])
  IN  IF Found(s, dir, name) = {} THEN Error(s, "ENOENT")
      ELSE IF ~Ok(r) THEN r
      ELSE IF s.inode[e[2]].dir THEN Error(r, "EISDIR")
      ELSE IF ~Ok(z) THEN z
      ELSE IF ~Ok(f) THEN RestoreDirent(f, dir, e)
      ELSE f

\* minix_mkdir: the new directory is filled before it is named.
MinixMkdir(s, dir, name) ==
  LET ino == Min(FreeInos(s))
      a == AllocInode(s)
      new == [a EXCEPT !.inode[ino] = [dir |-> TRUE, nlinks |-> 2, entries |-> {}]]
      d1 == AddDirent(new, ino, Dot, ino)
      d2 == IF Ok(d1) THEN AddDirent(d1, ino, DotDot, dir) ELSE d1
      w == IF Ok(d2) THEN Check(d2, "EIO") ELSE d2
      d3 == IF Ok(w) THEN AddDirent(w, dir, name, ino) ELSE w
  IN  IF s.inode[dir].nlinks >= MdMaxLinks THEN Error(s, "EMLINK")
      ELSE IF ~Ok(a) THEN a
      ELSE IF ~Ok(d3) THEN FreeInode(d3, ino)
      ELSE [d3 EXCEPT !.inode[dir].nlinks = @ + 1]

\* A link less, but not below 0.
Unlinked1(n) == IF n > 0 THEN n - 1 ELSE n

\* minix_rmdir: the directory is emptied before its entry goes.
MinixRmdir(s, dir, name) ==
  LET ino == EntryOf(s, dir, name)[2]
      l == Check(s, "EIO")
      z == ZeroDirent([l EXCEPT !.inode[ino].entries = {}], dir, name)
      f == FreeInode(z, ino)
  IN  IF Found(s, dir, name) = {} THEN Error(s, "ENOENT")
      ELSE IF ~Ok(l) THEN l
      ELSE IF ~s.inode[ino].dir THEN Error(l, "ENOTDIR")
      ELSE IF ~DirEmpty(l, ino) THEN Error(l, "EBUSY")
      ELSE IF ~Ok(z) THEN [z EXCEPT !.torn = @ \cup {ino}]
      ELSE [f EXCEPT !.inode[dir].nlinks = Unlinked1(@)]

\* The checks of minix_rename on the entry that the new name has, if any, and its removal.
MakeRoom(s, ino, dir, name) ==
  LET e == EntryOf(s, dir, name)
      r == Check(s, "EIO")
      isDir == s.inode[ino].dir
      c == IF s.inode[e[2]].dir THEN Check(r, "ENOMEM") ELSE r
  IN  IF Found(s, dir, name) = {} THEN s
      ELSE IF ~Ok(r) THEN r
      ELSE IF isDir /\ ~s.inode[e[2]].dir THEN Error(r, "ENOTDIR")
      ELSE IF ~isDir /\ s.inode[e[2]].dir THEN Error(r, "EISDIR")
      ELSE IF ~Ok(c) THEN c
      ELSE IF s.inode[e[2]].dir /\ ~DirEmpty(c, e[2]) THEN Error(c, "EBUSY")
      ELSE ZeroDirent(c, dir, name)

\* The entries moved: the new name is added, then the old one taken; each is undone if
\* what follows fails. `was` has the entry that was replaced.
MoveEntry(s, ino, od, on, nd, nn, was) ==
  LET Restore(t) == IF was = {} THEN t ELSE RestoreDirent(t, nd, CHOOSE e \in was : TRUE)
      add == AddDirent(s, nd, nn, ino)
      zero == ZeroDirent(add, od, on)
      undone == [ZeroDirent([zero EXCEPT !.err = "ok"], nd, nn) EXCEPT !.err = zero.err]
  IN  IF ~Ok(add) THEN Restore(add)
      ELSE IF ~Ok(zero) THEN Restore(undone)
      ELSE zero

\* A directory that moved gets a new "..", and its parents new link counts (8 bits).
Reparent(s, ino, od, nd) ==
  LET up == EntryOf(s, ino, DotDot)
      d == PutEntries(s, ino, (s.inode[ino].entries \ {up}) \cup {<<DotDot, nd>>})
  IN  IF ~s.inode[ino].dir \/ od = nd THEN s
      ELSE IF Found(s, ino, DotDot) = {} THEN Error(s, "ENOENT")
      ELSE IF ~Ok(d) THEN [d EXCEPT !.torn = @ \cup {ino}]
      ELSE [d EXCEPT !.inode[od].nlinks = Unlinked1(@), !.torn = @ \ {ino},
                     !.inode[nd].nlinks = (@ + 1) % (MdMaxLinks + 1)]

\* minix_rename. An error after the move undoes nothing, and loses the inode that was replaced.
MinixRename(s, od, on, nd, nn) ==
  LET ino == EntryOf(s, od, on)[2]
      was == Found(s, nd, nn)
      raw == Check(s, "EIO")
      node == IF Ok(raw) THEN Check(raw, "ENOMEM") ELSE raw
      room == MakeRoom(node, ino, nd, nn)
      moved == MoveEntry(room, ino, od, on, nd, nn, was)
      up == Reparent(moved, ino, od, nd)
      old == {e[2] : e \in was}
      free == FreeTreeInode(up, CHOOSE i \in old : TRUE)
  IN  IF od = nd /\ on = nn THEN s
      ELSE IF Found(s, od, on) = {} THEN Error(s, "ENOENT")
      ELSE IF ~Ok(node) THEN node
      ELSE IF s.inode[ino].dir /\ od # nd /\ IsAncestorOrSelf(s, nd, ino, MdInodes) THEN Error(node, "EINVAL")
      ELSE IF ~Ok(room) THEN room
      ELSE IF ~Ok(moved) THEN moved
      ELSE IF ~Ok(up) THEN [up EXCEPT !.lost = @ \cup old]
      ELSE IF old = {} THEN up
      ELSE IF ~Ok(free) THEN [free EXCEPT !.lost = @ \cup old]
      ELSE free
-------------------------------------------------------------------------------
Parents(s, ino) == {d \in s.imap : s.inode[d].dir
                      /\ \E e \in s.inode[d].entries : e[2] = ino /\ e[1] \in MdNames}

\* The inodes below the directories in S.
RECURSIVE UnderDirs(_, _)
UnderDirs(S, depth) ==
  LET more == S \cup {i \in MdInos : Parents(md_fs, i) \cap S # {}}
  IN  IF depth = 0 THEN S ELSE UnderDirs(more, depth - 1)

MdReached == UnderDirs({MdRoot}, MdInodes)
MdDirs == {d \in MdReached : md_fs.inode[d].dir}

\* A call with result s; its locals are gone.
Done(s) == md_fs' = [s EXCEPT !.n = 0, !.bad = 0, !.err = "ok",
                            !.faults = IF s.bad = 0 THEN @ ELSE @ + 1]

\* The calls of user programs, with the directory their path leads to.
MdNext ==
  /\ ~md_fs.panic
  /\ \E bad \in IF md_fs.faults < MdFaults THEN MdBad ELSE {0}, dir \in MdDirs, name \in MdNames :
       LET s == [md_fs EXCEPT !.bad = bad]
       IN  \/ Done(MinixCreate(s, dir, name))
           \/ Done(MinixUnlink(s, dir, name))
           \/ Done(MinixMkdir(s, dir, name))
           \/ Done(MinixRmdir(s, dir, name))
           \/ \E to \in MdDirs, new \in MdNames : Done(MinixRename(s, dir, name, to, new))

MdSpec == MdInit /\ [][MdNext]_md_fs
-------------------------------------------------------------------------------


\* Not met: a directory's link count is 2 and one for each directory in it. minix_rename over
\* an empty directory frees it and leaves its parent's count.
LinksExact ==
  \/ md_fs.panic \/ md_fs.torn # {}
  \/ \A d \in MdDirs : md_fs.inode[d].nlinks =
       2 + Cardinality({i \in MdDirs \ {MdRoot} : d \in Parents(md_fs, i)})
===============================================================================
