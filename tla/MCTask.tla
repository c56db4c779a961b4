------------------------------- MODULE MCTask -------------------------------
(* Task.tla with one AP, the reaper, init and its descendants.             *)
EXTENDS Task
=============================================================================
