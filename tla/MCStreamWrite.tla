--------------------------- MODULE MCStreamWrite ---------------------------
(* StreamWrite on small instances: the constants are given in the cfg files. *)
EXTENDS StreamWrite
=============================================================================
