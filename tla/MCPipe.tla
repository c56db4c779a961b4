------------------------------- MODULE MCPipe -------------------------------
(* Pipe.tla with three processes that share both ends of one pipe.         *)
EXTENDS Pipe
=============================================================================
