-------------------------------- MODULE MCPc --------------------------------
(* Two phones; see the cfg files for the bounds. *)
EXTENDS Pc

CONSTANTS d1, d2
MCDevices == {d1, d2}

\* Nothing tells the two phones apart before the first request: it is d1's.
FirstIsD1 == req[1].dev # d2
=============================================================================
