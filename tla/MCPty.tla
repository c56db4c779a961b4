------------------------------- MODULE MCPty --------------------------------
(* Pty.tla with a terminal emulator and a shell that it forks.             *)
EXTENDS Pty
=============================================================================
