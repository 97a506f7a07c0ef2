------------------------- MODULE MCStreamReadNested -------------------------
(* StreamReadNested on small instances: the constants are in the cfg files. *)
EXTENDS StreamReadNested
=============================================================================
