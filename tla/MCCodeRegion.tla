---------------------------- MODULE MCCodeRegion ----------------------------
(* CodeRegion on a small instance: the constants are given in the cfg file. *)
EXTENDS CodeRegion
=============================================================================
