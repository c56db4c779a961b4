-------------------------------- MODULE MCFd --------------------------------
(* Fd.tla with interchangeable processes.                                  *)
EXTENDS Fd, TLC

Symmetry == Permutations(Procs)
=============================================================================
