------------------------------- MODULE Links --------------------------------
(***************************************************************************)
(* Lists threaded through pointers, as zero_strm_block.c, t_list.h and     *)
(* delegate.c keep them: each node has a link to the next one, NULL in the *)
(* last, and a list is found by following the links from a pointer.        *)
(***************************************************************************)
EXTENDS BlockPool, FiniteSets

\* The nodes linked from pointer p on, one more than there are if they never end.
Linked(next, p) ==
  LET N == Cardinality(DOMAIN next) + 1
      hop[n \in 0 .. N] == IF n = 0 THEN p
                           ELSE IF hop[n - 1] = NULL THEN NULL ELSE next[hop[n - 1]]
  IN  [i \in 1 .. Cardinality({n \in 0 .. N : hop[n] # NULL}) |-> hop[i - 1]]

\* What follows the first i nodes of a list, and the last one.
NextIn(list, i) == IF i < Len(list) THEN list[i + 1] ELSE NULL
LastOf(list) == IF list = <<>> THEN NULL ELSE list[Len(list)]

\* The list, of nodes in S, is threaded through their links from p on, and ends.
LinkedIn(S, next, list, p) ==
  /\ list \in Seq(S) /\ Distinct(list)
  /\ p = NextIn(list, 0)
  /\ \A i \in 1 .. Len(list) : next[list[i]] = NextIn(list, i)
=============================================================================
