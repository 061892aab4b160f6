----------------------------- MODULE MCAddrSpace -----------------------------
(***************************************************************************)
(* AddrSpace for TLC.  Frames are interchangeable: no action compares two  *)
(* of them in any other way than for equality.                             *)
(***************************************************************************)
EXTENDS AddrSpace, TLC

FrameSymmetry == Permutations(Frames)
=============================================================================
