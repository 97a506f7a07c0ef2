---------------------------- MODULE ByteChannel ----------------------------
(***************************************************************************)
(* What either direction of zero_strm promises its user: a bounded byte    *)
(* pipe.  A byte is identified by its position in the stream, so the n-th  *)
(* byte put in is the number n, and the promise "nothing lost, nothing     *)
(* duplicated, nothing reordered" is that the n-th byte taken out is n.    *)
(***************************************************************************)
EXTENDS Naturals, Sequences

CONSTANT Capacity       \* bytes the pipe can hold

VARIABLES
  accepted,             \* how many bytes went in
  delivered             \* the bytes that came out, in order

channelVars == <<accepted, delivered>>

Init == accepted = 0 /\ delivered = <<>>

Accept ==
  /\ accepted - Len(delivered) < Capacity
  /\ accepted' = accepted + 1
  /\ UNCHANGED delivered

Deliver ==
  /\ Len(delivered) < accepted
  /\ delivered' = Append(delivered, Len(delivered) + 1)
  /\ UNCHANGED accepted

Spec == Init /\ [][Accept \/ Deliver]_channelVars
=============================================================================
