------------------------------- MODULE MCFutex -------------------------------
(* The symmetry of Futex: threads are interchangeable, and so are words.  *)
EXTENDS Futex, TLC

TaskWordSymmetry == Permutations(Tasks) \cup Permutations(Words)
=============================================================================
