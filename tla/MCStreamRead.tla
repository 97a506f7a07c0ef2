---------------------------- MODULE MCStreamRead ----------------------------
(* StreamRead on small instances: the constants are given in the cfg files. *)
EXTENDS StreamRead
=============================================================================
