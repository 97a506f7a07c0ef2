----------------------------- MODULE BlockStore -----------------------------
(***************************************************************************)
(* What the block manager promises its two callers: a stack of free blocks *)
(* and a queue of blocks, changed by one call at a time.  A block is in at *)
(* most one of them and only once; in neither, it is in a caller's hands.  *)
(***************************************************************************)
EXTENDS BlockPool

CONSTANT Blocks

VARIABLES freeList, fifo

Init == freeList = <<>> /\ fifo = <<>>

Outside == Blocks \ (Elems(freeList) \union Elems(fifo))

Free   == \E b \in Outside : freeList' = <<b>> \o freeList /\ UNCHANGED fifo
New    == freeList # <<>> /\ freeList' = Tail(freeList) /\ UNCHANGED fifo
AppendBlock == \E b \in Outside : fifo' = fifo \o <<b>> /\ UNCHANGED freeList
Fetch  == fifo # <<>> /\ fifo' = Tail(fifo) /\ UNCHANGED freeList

Spec == Init /\ [][Free \/ New \/ AppendBlock \/ Fetch]_<<freeList, fifo>>
=============================================================================
