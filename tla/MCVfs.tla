-------------------------------- MODULE MCVfs ---------------------------------
(* Trees, mounts and calls of the VFS for model checking.                  *)
EXTENDS Vfs, TLC

\* Two file systems, the second mounted on the empty directory e of the first.
MountTree == (<<"m", 1>> :> [d |-> <<"m", 2>>, e |-> <<"m", 3>>])
               @@ (<<"m", 2>> :> <<>>)
               @@ (<<"m", 3>> :> <<>>)
               @@ (<<"s", 1>> :> [e |-> <<"s", 2>>])
RegularFiles == {<<"m", 4>>}
PathCalls == {<<"open", <<"e", "..", "..", "e">>>>, <<"open", <<"e", "..", "d", ".", "f">>>>,
              <<"create", <<"d", "f">>>>, <<"unlink", <<"d", "f">>>>, <<"unlink", <<"e", "..">>>>,
              <<"rename", <<"d", "f">>, <<"f">>>>, <<"rename", <<"f">>, <<"d", "f">>>>}
Mounts == << <<"m", <<>>>>, <<"s", <<"e">>>> >>

\* Calls that make an inode and open it, with no renames.
OpenCalls == {<<"open", <<"d", "f">>>>, <<"create", <<"d", "f">>>>}
===============================================================================
