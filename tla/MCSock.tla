------------------------------- MODULE MCSock -------------------------------
(* Sock.tla with two processes, a remote client and a remote server.       *)
EXTENDS Sock, TLC

\* A client sends two bytes, which may arrive in either order, a server none.
MCBytes == [q \in Peers |-> IF q \in Clients THEN 2 ELSE 0]

\* The processes are alike.
Symmetry == Permutations(Procs)
=============================================================================
