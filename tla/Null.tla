-------------------------------- MODULE Null --------------------------------
(* The null pointer of C, the same one in every module that follows pointers. *)

CONSTANT NULL
=============================================================================
