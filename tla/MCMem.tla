------------------------------- MODULE MCMem --------------------------------
(* Mem.tla with two processes and too few pages for both of them to grow.  *)
EXTENDS Mem, TLC

Symmetry == Permutations(Procs)
=============================================================================
