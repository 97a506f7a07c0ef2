---------------------------- MODULE BoundedQueue ----------------------------
(***************************************************************************)
(* What the queue template promises: a bounded queue of which the first    *)
(* `peeked' items have been looked at.  Taking an item in any way but by   *)
(* peeking starts the looking anew.  The calls with a block may move fewer *)
(* items than they are asked to, never none while there is one to move.    *)
(***************************************************************************)
EXTENDS Naturals, Sequences

CONSTANTS Values, Sizes, MaxBlock

VARIABLES
  capacity, items, peeked,
  result                  \* items the last call stored or returned, or its count

queueVars == <<capacity, items, peeked, result>>

Sources == UNION {[1 .. n -> Values] : n \in 1 .. MaxBlock}
Upto(s, n) == SubSeq(s, 1, n)
After(s, n) == SubSeq(s, n + 1, Len(s))

New(content) ==
  /\ \E size \in Sizes : capacity' = size
  /\ items' = content /\ peeked' = 0 /\ result' = <<>>

Init == capacity \in Sizes /\ items = <<>> /\ peeked = 0 /\ result = <<>>

Reinit == New(<<>>)
Serialize == \E n \in Sizes : \E content \in [1 .. n -> Values] : New(content) /\ capacity' = n

\* Something is stored whenever there is room.
Put == \E src \in Sources :
         /\ \/ Len(items) = capacity /\ result' = <<>>
            \/ \E n \in 1 .. Len(src) : n <= capacity - Len(items) /\ result' = Upto(src, n)
         /\ items' = items \o result'
         /\ UNCHANGED <<capacity, peeked>>

Take == \E n \in 1 .. MaxBlock :
          /\ n <= Len(items)
          /\ result' = Upto(items, n)
          /\ items' = After(items, n)
          /\ peeked' = 0 /\ UNCHANGED capacity

Nothing == items = <<>> /\ result' = <<>> /\ UNCHANGED <<capacity, items, peeked>>

Peek == /\ IF peeked = Len(items)
           THEN result' = <<>> /\ UNCHANGED peeked
           ELSE result' = <<items[peeked + 1]>> /\ peeked' = peeked + 1
        /\ UNCHANGED <<capacity, items>>

TakePeeked ==
  /\ items' = After(items, peeked)
  /\ peeked' = 0
  /\ UNCHANGED <<capacity, result>>

ResetPeek == peeked' = 0 /\ UNCHANGED <<capacity, items, result>>

Count == result' \in {<<Len(items)>>, <<capacity - Len(items)>>} /\ UNCHANGED <<capacity, items, peeked>>

Next == \/ Reinit \/ Serialize \/ Put \/ Take \/ Nothing
        \/ Peek \/ TakePeeked \/ ResetPeek \/ Count

Spec == Init /\ [][Next]_queueVars
=============================================================================
