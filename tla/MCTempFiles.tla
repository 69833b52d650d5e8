----------------------------- MODULE MCTempFiles -----------------------------
(* Symmetry of TempFiles for TLC: no action tells two threads, two files or  *)
(* two blocks apart.                                                         *)
EXTENDS TempFiles, TLC

Symmetry == Permutations(Threads) \cup Permutations(Files) \cup Permutations(Blocks)
=============================================================================
