------------------------------- MODULE MCFiles --------------------------------
(***************************************************************************)
(* The file system and what is built on it, for model checking: the        *)
(* contents of a Minix file, Minix directories, the VFS, descriptors,      *)
(* execve and the keyboard device.  Each uses the one below through its    *)
(* contract only, so a behaviour of this module is one of one of the six,  *)
(* picked at the start.                                                    *)
(***************************************************************************)
EXTENDS MinixFile, MinixDir, MCVfs, FdTable, Exec, Kbd, TLC

CONSTANTS t1, t2, t3   \* threads: t1 and t2 of the parent, t3 of the child

VARIABLE part

filesVars == <<mfVars, md_fs, vfVars, fdVars, ex_proc, kbVars, part>>
-------------------------------------------------------------------------------
\* Writes: offset, length and the word written.
FileWrites == {<<0, 4, 1>>, <<2, 4, 2>>, <<5, 3, 1>>}

ThreadProc == (t1 :> "p") @@ (t2 :> "p") @@ (t3 :> "c")
Requests == {<<2>>, <<1, 1>>}

Phdr(flags, offset, vaddr, filesz, memsz) ==
  [load |-> TRUE, flags |-> flags, offset |-> offset, vaddr |-> vaddr, filesz |-> filesz, memsz |-> memsz]
NotePhdr == [load |-> FALSE, flags |-> {}, offset |-> 0, vaddr |-> 0, filesz |-> 0, memsz |-> 0]
Elf(entry, size, phdrs) == [elf |-> TRUE, entry |-> entry, size |-> size, phdrs |-> phdrs]

\* Text, data and bss; two segments that share a page; a segment where the stack goes; and
\* images that are refused: entry outside text, W+X, too short, in page 0, nothing to load.
Images == {Elf(5, 12, <<Phdr({"x"}, 0, 4, 5, 5), NotePhdr, Phdr({"w"}, 6, 13, 4, 9)>>),
           Elf(6, 12, <<Phdr({"x"}, 0, 4, 4, 4), Phdr({"w"}, 4, 7, 3, 6)>>),
           Elf(4, 6, <<Phdr({"x"}, 2, 4, 2, 2), Phdr({"w"}, 0, 42, 2, 2)>>),
           Elf(8, 8, <<Phdr({"w"}, 0, 8, 8, 8), Phdr({"x"}, 0, 4, 4, 4)>>),
           Elf(4, 8, <<Phdr({"x", "w"}, 0, 4, 4, 4)>>),
           Elf(4, 3, <<Phdr({"x"}, 0, 4, 4, 4)>>),
           Elf(2, 4, <<Phdr({"x"}, 0, 2, 4, 4)>>),
           Elf(4, 4, <<NotePhdr>>)}
\* Vectors within the limits, at them and above: 11 words and 2 strings.
Vectors == [argv : {<<1>>}, envp : {<<>>, <<6>>, <<7>>, <<12>>}]
           \cup [argv : {<<>>, <<2, 3>>, <<1, 1, 1>>}, envp : {<<1>>}]
           \cup [argv : {<<2, 2>>}, envp : {<<2, 3>>}]

\* A held modifier, a lock key and a key after the prefix E0.
PlainKeys == (56 :> "LALT") @@ (69 :> "NUMLOCK")
ExtendedKeys == 28 :> "KPENTER"
-------------------------------------------------------------------------------
FilesInit == /\ MfInit /\ MdInit /\ VfInit /\ FdInit /\ ExInit /\ KbInit
             /\ part \in {"contents", "directories", "paths", "descriptors", "exec", "keyboard"}
             /\ part # "keyboard" => kb_mods = {}

FilesNext ==
  /\ UNCHANGED part
  /\ \/ part = "contents" /\ MfNext /\ UNCHANGED <<md_fs, vfVars, fdVars, ex_proc, kbVars>>
     \/ part = "directories" /\ MdNext /\ UNCHANGED <<mfVars, vfVars, fdVars, ex_proc, kbVars>>
     \/ part = "paths" /\ VfNext /\ UNCHANGED <<mfVars, md_fs, fdVars, ex_proc, kbVars>>
     \/ part = "descriptors" /\ FdNext /\ UNCHANGED <<mfVars, md_fs, vfVars, ex_proc, kbVars>>
     \/ part = "exec" /\ ExNext /\ UNCHANGED <<mfVars, md_fs, vfVars, fdVars, kbVars>>
     \/ part = "keyboard" /\ KbNext /\ UNCHANGED <<mfVars, md_fs, vfVars, fdVars, ex_proc>>

FilesSpec == FilesInit /\ [][FilesNext]_filesVars

ThreadSymmetry == Permutations({t1, t2})
===============================================================================
