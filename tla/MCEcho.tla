------------------------------- MODULE MCEcho -------------------------------
(* Echo on small instances: the constants are given in the cfg files. *)
EXTENDS Echo
=============================================================================
