------------------------------ MODULE MCSignal ------------------------------
(* Signal.tla with a process and the child it forks and traces.            *)
EXTENDS Signal

MCHooked == {<<1, SIGINT>>, <<2, SIGINT>>, <<2, SIGCONT>>}
=============================================================================
