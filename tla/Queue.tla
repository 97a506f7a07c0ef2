------------------------------- MODULE Queue --------------------------------
(***************************************************************************)
(* src/common/utilities/template/t_queue.h: the queue that DEF_SAFE_QUEUE  *)
(* expands to, a ring of any item type with a second read position for     *)
(* peeking.  Every call keeps the interrupts out while it works, so a call *)
(* is one step.  NULL queues and empty requests return at once and are     *)
(* left out.                                                               *)
(***************************************************************************)
EXTENDS Naturals, Sequences

CONSTANTS
  Values,
  Sizes,        \* buffer sizes the queue may be initialised with
  MaxBlock,     \* bound: items in a block call
  NoItem

Slots == UNION {0 .. size - 1 : size \in Sizes}

ASSUME QueueAssumption ==
  /\ Sizes \subseteq Nat \ {0} /\ Sizes # {}
  /\ MaxBlock \in Nat \ {0}
  /\ NoItem \notin Values

VARIABLES
  ptBuffer, tSize, tHead, tTail, tCounter, tPeek, tPeekCounter,
  result,       \* what the last call stored or returned, as a sequence
  ref           \* history: the last reference dequeue_ref returned, its item,
                \* and how many items may be stored before the slot is needed

counterVars == <<tSize, tHead, tTail, tCounter, tPeek, tPeekCounter>>
vars == <<ptBuffer, counterVars, result, ref>>

NoRef == [slot |-> 0, item |-> NoItem, left |-> 0]

\* queue_init on a buffer with something in it.
Start(size, bFull) ==
  [tSize |-> size, tHead |-> 0, tTail |-> 0, tPeek |-> 0,
   tCounter |-> IF bFull THEN size ELSE 0, tPeekCounter |-> IF bFull THEN size ELSE 0]

Init ==
  /\ ptBuffer \in [Slots -> Values]
  /\ tSize \in Sizes
  /\ tHead = 0 /\ tTail = 0 /\ tCounter = 0 /\ tPeek = 0 /\ tPeekCounter = 0
  /\ result = <<>> /\ ref = NoRef

\* QUEUE_INIT and QUEUE_SERIALIZE at any later time, over the same memory.
QueueInit(size, bFull) ==
  LET q == Start(size, bFull) IN
  /\ tSize' = q.tSize /\ tHead' = q.tHead /\ tTail' = q.tTail /\ tPeek' = q.tPeek
  /\ tCounter' = q.tCounter /\ tPeekCounter' = q.tPeekCounter
  /\ result' = <<>> /\ ref' = NoRef
  /\ UNCHANGED ptBuffer

---------------------------------------------------------------------------
WrappedIndex(index) == IF index >= tSize THEN 0 ELSE index

QueueIsFull  == tHead = tTail /\ tCounter # 0
QueueIsEmpty == tHead = tTail /\ tCounter = 0

Lesser(a, b) == IF a <= b THEN a ELSE b
Less(a, b) == IF a <= b THEN 0 ELSE a - b

\* Slots from the tail, and items from the head, up to the other or to the end
\* of the buffer.
Room == IF tTail < tHead THEN tHead - tTail ELSE tSize - tTail
Run  == IF tHead < tTail THEN tTail - tHead ELSE tSize - tHead

\* The memory with src copied to the tail.
BadWritten(src) ==
  [i \in Slots |-> IF i \in tTail .. tTail + Len(src)
                   THEN src[Lesser(i - tTail + 1, Len(src))] ELSE ptBuffer[i]]
Written(src) ==
  [i \in Slots |-> IF i \in tTail .. tTail + Len(src) - 1
                   THEN src[i - tTail + 1] ELSE ptBuffer[i]]

\* Store src at the tail; it fits.
Store(src) ==
  LET n == Len(src) IN
  /\ ptBuffer' = Written(src)
  /\ tTail' = WrappedIndex(tTail + n)
  /\ tCounter' = tCounter + n
  /\ tPeekCounter' = tPeekCounter + n
  /\ result' = src
  /\ ref' = [ref EXCEPT !.left = Less(@, n)]
  /\ UNCHANGED <<tSize, tHead, tPeek>>

\* Peeking begins again at head, with count items.
BadPeekReset(head, count) == tPeek' = head /\ UNCHANGED tPeekCounter
PeekReset(head, count) == tPeek' = head /\ tPeekCounter' = count

\* Take n items at the head; they are there.
Remove(n) ==
  /\ result' = [i \in 1 .. n |-> ptBuffer[tHead + i - 1]]
  /\ tHead' = WrappedIndex(tHead + n)
  /\ tCounter' = tCounter - n
  /\ PeekReset(tHead', tCounter')
  /\ UNCHANGED <<ptBuffer, tSize, tTail>>

\* A call that finds nothing to do, or only reports.
Reports(answer) == result' = answer /\ UNCHANGED <<ptBuffer, counterVars, ref>>

---------------------------------------------------------------------------
Enqueue == \E item \in Values : IF QueueIsFull THEN Reports(<<>>) ELSE Store(<<item>>)

\* The first items of the block, as far as the memory is contiguous.
EnqueueBlock ==
  \E n \in 1 .. MaxBlock : \E src \in [1 .. n -> Values] :
    IF QueueIsFull THEN Reports(<<>>) ELSE Store(SubSeq(src, 1, Lesser(Room, n)))

QueuePeek ==
  IF tPeek = tTail /\ tPeekCounter = 0
  THEN Reports(<<>>)
  ELSE /\ result' = <<ptBuffer[tPeek]>>
       /\ tPeek' = WrappedIndex(tPeek + 1)
       /\ tPeekCounter' = tPeekCounter - 1
       /\ UNCHANGED <<ptBuffer, tSize, tHead, tTail, tCounter, ref>>

Dequeue == IF QueueIsEmpty THEN Reports(<<>>) ELSE Remove(1) /\ UNCHANGED ref

DequeueBlock ==
  \E n \in 1 .. MaxBlock :
    IF QueueIsEmpty THEN Reports(<<>>) ELSE Remove(Lesser(Run, n)) /\ UNCHANGED ref

\* The address of the item instead of a copy.
DequeueRef ==
  IF QueueIsEmpty THEN Reports(<<>>)
  ELSE /\ Remove(1)
       /\ ref' = [slot |-> tHead, item |-> ptBuffer[tHead], left |-> tSize - tCounter']

\* What was peeked is gone; a reference loses nothing by it.
GetAllPeeked ==
  /\ tHead' = tPeek
  /\ tCounter' = tPeekCounter
  /\ UNCHANGED <<ptBuffer, tSize, tTail, tPeek, tPeekCounter, result, ref>>

ResetPeek ==
  /\ PeekReset(tHead, tCounter)
  /\ UNCHANGED <<ptBuffer, tSize, tHead, tTail, tCounter, result, ref>>

GetItemCount == Reports(<<tCounter>>)
GetAvailableCount == Reports(<<tSize - tCounter>>)

Next == \/ \E size \in Sizes, bFull \in BOOLEAN : QueueInit(size, bFull)
        \/ Enqueue \/ EnqueueBlock
        \/ QueuePeek \/ GetAllPeeked \/ ResetPeek
        \/ Dequeue \/ DequeueBlock \/ DequeueRef
        \/ GetItemCount \/ GetAvailableCount

Spec == Init /\ [][Next]_vars

---------------------------------------------------------------------------
(* Properties.                                                              *)

TypeOK ==
  /\ ptBuffer \in [Slots -> Values]
  /\ tSize \in Sizes
  /\ tHead \in 0 .. tSize - 1 /\ tTail \in 0 .. tSize - 1 /\ tPeek \in 0 .. tSize - 1
  /\ tCounter \in 0 .. tSize /\ tPeekCounter \in 0 .. tCounter
  /\ result \in Seq(Values \union Nat)
  /\ ref \in [slot : Nat, item : Values \union {NoItem}, left : Nat]

\* Index n of the ring, for n less than twice its size.
At(n) == IF n >= tSize THEN n - tSize ELSE n

\* The two counters and the three positions always tell the same story: the
\* tail is tCounter items behind the head, and tPeekCounter behind the peek.
\* The tests for full and empty, which look at positions first, rely on it.
CountersAgree ==
  /\ tTail = At(tHead + tCounter)
  /\ tPeek = At(tHead + (tCounter - tPeekCounter))

\* The slot dequeue_ref gave away is not written to before all that was free
\* when it was given has been used up, whatever is peeked or taken meanwhile.
RefStaysIntact == ref.left > 0 => ptBuffer[ref.slot] = ref.item

\* Why: the slot is the last but ref.left to be written.
RefAhead == ref.left > 0 => /\ ref.slot \in 0 .. tSize - 1
                            /\ ref.left <= tSize - tCounter
                            /\ ref.slot = At(tTail + ref.left - 1)

\* The items of a ring, the one at its head first.
Contents(buffer, size, head, count) ==
  [i \in 1 .. count |-> LET n == head + i - 1 IN buffer[IF n >= size THEN n - size ELSE n]]

\* The ring is a bounded queue with a peek position, in every call's result too.
Abstract == INSTANCE BoundedQueue WITH
              capacity <- tSize,
              items <- Contents(ptBuffer, tSize, tHead, tCounter),
              peeked <- tCounter - tPeekCounter

QueueSpec == Abstract!Spec
=============================================================================
