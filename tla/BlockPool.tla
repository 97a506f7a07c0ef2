----------------------------- MODULE BlockPool ------------------------------
(***************************************************************************)
(* The block lists of src/common/block as their clients use them when no   *)
(* call is interrupted: the free list is a stack, the FIFO a queue, and a  *)
(* block is a name.  (BlockList has the same lists pointer by pointer.)    *)
(***************************************************************************)
EXTENDS Integers, Sequences, Null

Elems(list)    == {list[i] : i \in 1 .. Len(list)}
Distinct(list) == \A i, j \in 1 .. Len(list) : list[i] = list[j] => i = j

\* A definition whose name starts with Bad, here and in the other modules, is
\* a faulty variant of the one that follows it: what a property has to tell
\* from the code.  No action uses it.

\* zero_strm_block_free: push; NULL is ignored.
BadFreed(list, block) == list
Freed(list, block) == IF block = NULL THEN list ELSE <<block>> \o list

\* zero_strm_block_append: the block comes last.
BadAppended(list, block) == <<block>> \o list
Appended(list, block) == Append(list, block)
=============================================================================
