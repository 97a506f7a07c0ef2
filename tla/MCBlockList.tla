---------------------------- MODULE MCBlockList -----------------------------
(* BlockList on small instances: the constants are given in the cfg files. *)
EXTENDS BlockList
=============================================================================
