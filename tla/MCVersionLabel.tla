--------------------------- MODULE MCVersionLabel ---------------------------
(* VersionLabel for TLC: the threads run the same code. *)
EXTENDS VersionLabel, TLC

ThreadSymmetry == Permutations(Threads)
=============================================================================
