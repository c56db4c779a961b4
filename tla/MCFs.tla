-------------------------------- MODULE MCFs --------------------------------
(* Fs.tla with two entries, in different sectors of the table.             *)
EXTENDS Fs

\* A file in the root, a directory, and a file in it.
MCPaths == {<<"a">>, <<"d">>, <<"d", "a">>}

\* bcache_sync to its end.
MCBatches == {Sectors}
=============================================================================
