------------------------------ MODULE MCBcache ------------------------------
(* Bcache.tla with more sectors than slots.                                *)
EXTENDS Bcache
=============================================================================
