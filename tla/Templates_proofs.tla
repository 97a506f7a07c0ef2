---------------------------- MODULE Templates_proofs ----------------------------
(***************************************************************************)
(* The templates of src/common/utilities/template.  For a pool of any size *)
(* (t_pool.h) and a queue of its items (t_list.h): both chains of links    *)
(* end, share nothing and lose nothing.  For a queue on buffers of every   *)
(* size, items of every type and blocks of every length (t_queue.h): the   *)
(* counters and positions of the ring agree, a reference handed out stays  *)
(* intact until the room behind the tail is used up, and the ring is a     *)
(* bounded queue.                                                          *)
(***************************************************************************)
EXTENDS Queue, Pool, Lists_proofs, SequenceTheorems

---------------------------------------------------------------------------
(* Pool.  ListsWhole says what the two chains hold; that they stay so needs *)
(* to say how: each is threaded through the links of its own items, which   *)
(* the program, writing to what it holds, does not reach.                   *)

FreeItems == Linked(word, ptFreeList)
Fifo == Linked(word, ptHead)

PoolTypes ==
  /\ word \in [Items -> Items \union {NULL, DATA}]
  /\ heap \subseteq Items /\ held \subseteq heap /\ lost \subseteq heap
  /\ held \intersect lost = {}

\* Two lists take up the items that are neither held nor lost.
TwoLists(free, queue) ==
  /\ LinkedIn(Items, word, free, ptFreeList)
  /\ LinkedIn(Items, word, queue, ptHead)
  /\ Elems(free) \intersect Elems(queue) = {}
  /\ Elems(free) \union Elems(queue) = heap \ (held \union lost)
  /\ ptTail = LastOf(queue)

PoolInv == PoolTypes /\ TwoLists(FreeItems, Fifo)

\* The null pointer is no item.
LEMMA ItemFacts == NULL \notin Items /\ IsFiniteSet(Items) /\ PoolSize \in Nat
<1>1. NULL \notin Items /\ PoolSize \in Nat
  BY PoolAssumption DEF Items
<1> QED BY <1>1, FS_Interval DEF Items

\* Lists threaded through the new links are the new lists.
LEMMA PoolInvAfter ==
  ASSUME PoolTypes', NEW f, NEW q,
         LinkedIn(Items, word', f, ptFreeList'), LinkedIn(Items, word', q, ptHead'),
         Elems(f) \intersect Elems(q) = {},
         Elems(f) \union Elems(q) = heap' \ (held' \union lost'),
         ptTail' = LastOf(q)
  PROVE  PoolInv'
<1>1. Linked(word', ptFreeList') = f /\ Linked(word', ptHead') = q
  <2>1. DOMAIN word' = Items
    BY DEF PoolTypes
  <2> QED BY <2>1, ItemFacts, LinkedIsList
<1>2. FreeItems' = f /\ Fifo' = q
  BY <1>1 DEF FreeItems, Fifo
<1>3. TwoLists(FreeItems, Fifo)'
  BY <1>2 DEF TwoLists
<1> QED BY <1>3 DEF PoolInv

\* What the invariant says, where a step begins.
LEMMA PoolFacts ==
  ASSUME PoolInv
  PROVE  /\ DOMAIN word = Items /\ word \in [Items -> Items \union {NULL, DATA}]
         /\ heap \subseteq Items /\ held \subseteq heap /\ lost \subseteq heap
         /\ held \intersect lost = {}
         /\ LinkedIn(Items, word, FreeItems, ptFreeList)
         /\ LinkedIn(Items, word, Fifo, ptHead)
         /\ Elems(FreeItems) \intersect Elems(Fifo) = {}
         /\ Elems(FreeItems) \union Elems(Fifo) = heap \ (held \union lost)
         /\ ptTail = LastOf(Fifo)
         /\ FreeItems \in Seq(Items) /\ Distinct(FreeItems)
         /\ Fifo \in Seq(Items) /\ Distinct(Fifo)
<1>1. PoolTypes /\ TwoLists(FreeItems, Fifo)
  BY DEF PoolInv
<1>2. DOMAIN word = Items
  BY <1>1 DEF PoolTypes
<1>3. /\ FreeItems \in Seq(Items) /\ Distinct(FreeItems)
      /\ Fifo \in Seq(Items) /\ Distinct(Fifo)
  BY <1>1 DEF TwoLists, LinkedIn
<1> QED BY <1>1, <1>2, <1>3 DEF PoolTypes, TwoLists

\* Both lists are empty at first.
LEMMA PoolInitInv == PoolInit => PoolInv
<1> SUFFICES ASSUME PoolInit PROVE PoolInv OBVIOUS
<1>1. PoolTypes
  BY DEF PoolInit, PoolTypes
<1>2. LinkedIn(Items, word, <<>>, ptFreeList) /\ LinkedIn(Items, word, <<>>, ptHead)
  BY LinkedOne DEF PoolInit
<1>3. FreeItems = <<>> /\ Fifo = <<>>
  <2>1. DOMAIN word = Items
    BY <1>1 DEF PoolTypes
  <2> QED BY <1>2, <2>1, ItemFacts, LinkedIsList DEF FreeItems, Fifo
<1>4. TwoLists(FreeItems, Fifo)
  BY <1>2, <1>3, EmptyList DEF TwoLists, PoolInit, LastOf
<1> QED BY <1>1, <1>4 DEF PoolInv

\* The program writes to an item that is on neither list.
LEMMA WriteItemKeeps ==
  ASSUME PoolInv, NEW i \in Items, WriteItem(i) PROVE PoolInv'
<1>1. PICK w \in {NULL, DATA} : word' = [word EXCEPT ![i] = w]
  BY DEF WriteItem
<1>2. i \notin Elems(FreeItems) /\ i \notin Elems(Fifo)
  BY PoolFacts DEF WriteItem
<1>3. LinkedIn(Items, word', FreeItems, ptFreeList) /\ LinkedIn(Items, word', Fifo, ptHead)
  BY <1>1, <1>2, PoolFacts, ItemFacts, OtherLink
<1>4. PoolTypes'
  BY <1>1, PoolFacts DEF PoolTypes, WriteItem
<1> QED
  <2>1. UNCHANGED <<ptFreeList, ptHead, ptTail, held, heap, lost>>
    BY DEF WriteItem
  <2> QED BY <1>3, <1>4, <2>1, PoolFacts, PoolInvAfter

\* pool_new: the top of the stack goes into the program's hands.
LEMMA NewItemKeeps == ASSUME PoolInv, NewItem PROVE PoolInv'
<1> DEFINE f == Tail(FreeItems)   top == ptFreeList
<1>1. /\ held' = held \union {top} /\ ptFreeList' = word[top]
      /\ word' = [word EXCEPT ![top] = NULL]
      /\ UNCHANGED <<ptHead, ptTail, heap, lost>>
  BY DEF NewItem, PopTop, PopNext
<1>2. /\ LinkedIn(Items, word, f, word[top]) /\ top \in Items
      /\ Elems(FreeItems) = Elems(f) \union {top} /\ top \notin Elems(f)
  BY PoolFacts, ItemFacts, LinkedPop DEF NewItem
<1>3. top \notin Elems(Fifo)
  BY <1>2, PoolFacts
<1>4. LinkedIn(Items, word', f, ptFreeList') /\ LinkedIn(Items, word', Fifo, ptHead)
  BY <1>1, <1>2, <1>3, PoolFacts, ItemFacts, OtherLink
<1> HIDE DEF f, top
<1>5. PoolTypes'
  BY <1>1, <1>2, PoolFacts DEF PoolTypes
<1>6. /\ Elems(f) \intersect Elems(Fifo) = {}
      /\ Elems(f) \union Elems(Fifo) = heap' \ (held' \union lost')
  BY <1>1, <1>2, PoolFacts
<1> QED BY <1>1, <1>4, <1>5, <1>6, PoolFacts, PoolInvAfter

\* pool_free: an item refused is on neither list, as it was; one taken is the top.
LEMMA FreeItemKeeps ==
  ASSUME PoolInv, NEW i \in Items, FreeItem(i) PROVE PoolInv'
<1>1. i \in held /\ held' = held \ {i} /\ UNCHANGED <<ptHead, ptTail, heap>>
  BY DEF FreeItem
<1>2. i \notin Elems(FreeItems) /\ i \notin Elems(Fifo)
  BY <1>1, PoolFacts
<1>3. CASE lost' = lost \union {i} /\ UNCHANGED <<ptFreeList, word>>
  <2>1. PoolTypes'
    BY <1>1, <1>3, PoolFacts DEF PoolTypes
  <2>2. Elems(FreeItems) \union Elems(Fifo) = heap' \ (held' \union lost')
    BY <1>1, <1>2, <1>3, PoolFacts
  <2> QED BY <1>1, <1>3, <2>1, <2>2, PoolFacts, PoolInvAfter
<1>4. CASE /\ word' = [word EXCEPT ![i] = ptFreeList] /\ ptFreeList' = i /\ lost' = lost
  <2> DEFINE f == <<i>> \o FreeItems
  <2>1. LinkedIn(Items, word', FreeItems, ptFreeList) /\ LinkedIn(Items, word', Fifo, ptHead)
    BY <1>2, <1>4, PoolFacts, ItemFacts, OtherLink
  <2>2. word'[i] = ptFreeList
    BY <1>4, PoolFacts
  <2>3. LinkedIn(Items, word', f, i) /\ Elems(f) = Elems(FreeItems) \union {i}
    BY <1>2, <2>1, <2>2, ItemFacts, LinkedPush
  <2> HIDE DEF f
  <2>4. PoolTypes'
    <3>1. ptFreeList \in Items \union {NULL}
      BY PoolFacts, ItemFacts, LinkedFacts
    <3> QED BY <1>1, <1>4, <3>1, PoolFacts DEF PoolTypes
  <2>5. /\ Elems(f) \intersect Elems(Fifo) = {}
        /\ Elems(f) \union Elems(Fifo) = heap' \ (held' \union lost')
    BY <1>1, <1>2, <1>4, <2>3, PoolFacts
  <2> QED BY <1>1, <1>4, <2>1, <2>3, <2>4, <2>5, PoolFacts, PoolInvAfter
<1> QED BY <1>3, <1>4 DEF FreeItem, PushNext

\* pool_add_heap: the items, first at the bottom, come on top of the stack.
LEMMA AddHeapKeeps ==
  ASSUME PoolInv, NEW first \in Items, NEW top \in Items, AddHeap(first, top) PROVE PoolInv'
<1> DEFINE n == top - first + 1
           k == Len(FreeItems)
           f == [i \in 1 .. n + k |-> IF i <= n THEN top - i + 1 ELSE FreeItems[i - n]]
<1>1. /\ first <= top /\ (first .. top) \intersect heap = {}
      /\ heap' = heap \union (first .. top) /\ ptFreeList' = top
      /\ UNCHANGED <<ptHead, ptTail, held, lost>>
  BY DEF AddHeap
<1>2. \A i \in Items : word'[i] = IF i = first THEN ptFreeList
                                  ELSE IF i \in first + 1 .. top THEN i - 1 ELSE word[i]
  BY DEF AddHeap
<1>3. /\ first \in Nat /\ top \in Nat /\ first .. top \subseteq Items
      /\ n \in Nat \ {0} /\ k \in Nat
  <2>1. k \in Nat
    BY PoolFacts
  <2> QED BY <1>1, <2>1, ItemFacts DEF Items
<1>4. Elems(FreeItems) \subseteq heap /\ Elems(Fifo) \subseteq heap
  BY PoolFacts
<1>5. DOMAIN word' = Items
  BY DEF AddHeap
<1>6. LinkedIn(Items, word', Fifo, ptHead)
  <2>1. ASSUME NEW i \in 1 .. Len(Fifo) PROVE word'[Fifo[i]] = word[Fifo[i]]
    <3>1. Fifo[i] \in heap /\ Fifo[i] \in Items
      BY <1>4, PoolFacts DEF Elems
    <3>2. Fifo[i] # first /\ Fifo[i] \notin first + 1 .. top
      BY <1>1, <1>3, <3>1
    <3> QED BY <1>2, <3>1, <3>2
  <2> QED BY <2>1, PoolFacts DEF LinkedIn
<1>7. \A i \in 1 .. k : /\ FreeItems[i] \in Items /\ FreeItems[i] \in Elems(FreeItems)
                        /\ FreeItems[i] \notin first .. top
                        /\ word[FreeItems[i]] = (IF i < k THEN FreeItems[i + 1] ELSE NULL)
                        /\ word'[FreeItems[i]] = word[FreeItems[i]]
  <2>1. ASSUME NEW i \in 1 .. k
        PROVE  /\ FreeItems[i] \in Items /\ FreeItems[i] \in Elems(FreeItems)
               /\ word[FreeItems[i]] = (IF i < k THEN FreeItems[i + 1] ELSE NULL)
    BY PoolFacts, ItemFacts, LinkedFacts
  <2>2. ASSUME NEW i \in 1 .. k PROVE FreeItems[i] \notin first .. top
    BY <1>1, <1>4, <2>1, <2>2
  <2>3. ASSUME NEW i \in 1 .. k PROVE word'[FreeItems[i]] = word[FreeItems[i]]
    <3>1. FreeItems[i] # first /\ FreeItems[i] \notin first + 1 .. top
      BY <1>1, <1>3, <2>2
    <3> QED BY <1>2, <2>1, <3>1
  <2> QED BY <2>1, <2>2, <2>3
<1>8. ptFreeList = (IF k = 0 THEN NULL ELSE FreeItems[1])
  BY PoolFacts, ItemFacts, LinkedFacts
<1>9. f \in Seq(Items) /\ Len(f) = n + k
  <2>1. ASSUME NEW i \in 1 .. n + k
        PROVE  (IF i <= n THEN top - i + 1 ELSE FreeItems[i - n]) \in Items
    <3>1. CASE i <= n
      <4>1. top - i + 1 \in first .. top
        BY <1>3, <3>1
      <4> QED BY <1>3, <3>1, <4>1
    <3>2. CASE ~(i <= n)
      <4>1. i - n \in 1 .. k
        BY <1>3, <3>2
      <4> QED BY <1>7, <3>2, <4>1
    <3> QED BY <3>1, <3>2
  <2>2. n + k \in Nat
    BY <1>3
  <2> HIDE DEF n, k
  <2> QED BY <2>1, <2>2
<1>10. /\ \A i \in 1 .. n : f[i] = top - i + 1 /\ f[i] \in first .. top
       /\ \A i \in 1 .. k : f[n + i] = FreeItems[i]
       /\ \A i \in 1 .. n + k : i \in 1 .. n \/ \E j \in 1 .. k : i = n + j
  <2>1. ASSUME NEW i \in 1 .. n PROVE f[i] = top - i + 1 /\ f[i] \in first .. top
    BY <1>3
  <2>2. ASSUME NEW i \in 1 .. k PROVE f[n + i] = FreeItems[i]
    <3>1. n + i \in 1 .. n + k /\ ~(n + i <= n) /\ (n + i) - n = i
      BY <1>3
    <3> QED BY <3>1
  <2>3. ASSUME NEW i \in 1 .. n + k PROVE i \in 1 .. n \/ \E j \in 1 .. k : i = n + j
    <3>1. CASE i <= n
      BY <1>3, <3>1
    <3>2. CASE ~(i <= n)
      <4>1. i - n \in 1 .. k /\ i = n + (i - n)
        BY <1>3, <3>2
      <4> QED BY <4>1
    <3> QED BY <3>1, <3>2
  <2> QED BY <2>1, <2>2, <2>3
<1>11. Elems(f) = Elems(FreeItems) \union (first .. top)
  <2> HIDE DEF f
  <2>1. ASSUME NEW x \in Elems(f) PROVE x \in Elems(FreeItems) \union (first .. top)
    <3>1. PICK i \in 1 .. n + k : x = f[i]
      BY <1>9 DEF Elems
    <3>2. CASE i \in 1 .. n
      BY <1>10, <3>1, <3>2
    <3>3. CASE \E j \in 1 .. k : i = n + j
      <4> HIDE DEF n, k
      <4> QED BY <1>7, <1>10, <3>1, <3>3
    <3> QED BY <1>10, <3>2, <3>3
  <2>2. ASSUME NEW x \in Elems(FreeItems) PROVE x \in Elems(f)
    <3>1. PICK i \in 1 .. k : x = FreeItems[i]
      BY DEF Elems
    <3>2. n + i \in 1 .. n + k
      BY <1>3
    <3> QED BY <1>9, <1>10, <3>1, <3>2 DEF Elems
  <2>3. ASSUME NEW x \in first .. top PROVE x \in Elems(f)
    <3>1. top - x + 1 \in 1 .. n /\ top - (top - x + 1) + 1 = x /\ top - x + 1 \in 1 .. n + k
      BY <1>3
    <3> QED BY <1>9, <1>10, <3>1 DEF Elems
  <2> QED BY <2>1, <2>2, <2>3
<1>12. Distinct(f)
  <2> HIDE DEF f, n, k
  <2>1. ASSUME NEW i \in 1 .. n + k, NEW j \in 1 .. n + k, f[i] = f[j] PROVE i = j
    <3>1. CASE i \in 1 .. n /\ j \in 1 .. n
      BY <1>3, <1>10, <2>1, <3>1
    <3>2. CASE i \in 1 .. n /\ \E l \in 1 .. k : j = n + l
      BY <1>7, <1>10, <2>1, <3>2
    <3>3. CASE j \in 1 .. n /\ \E l \in 1 .. k : i = n + l
      BY <1>7, <1>10, <2>1, <3>3
    <3>4. CASE (\E l \in 1 .. k : i = n + l) /\ \E l \in 1 .. k : j = n + l
      <4>1. PICK l \in 1 .. k : i = n + l
        BY <3>4
      <4>2. PICK o \in 1 .. k : j = n + o
        BY <3>4
      <4>3. FreeItems[l] = FreeItems[o]
        BY <1>10, <2>1, <4>1, <4>2
      <4>4. l = o
        BY <4>3, PoolFacts DEF Distinct, k
      <4> QED BY <4>1, <4>2, <4>4
    <3> QED BY <1>10, <3>1, <3>2, <3>3, <3>4
  <2> QED BY <1>9, <2>1 DEF Distinct
<1>13. LinkedIn(Items, word', f, top)
  <2> HIDE DEF f
  <2>1. top = NextIn(f, 0)
    <3>1. 1 \in 1 .. n /\ 0 < n + k /\ top - 1 + 1 = top
      BY <1>3
    <3>2. f[1] = top
      BY <1>10, <3>1
    <3> QED BY <1>9, <3>1, <3>2 DEF NextIn
  <2>2. ASSUME NEW i \in 1 .. n + k PROVE word'[f[i]] = NextIn(f, i)
    <3>1. CASE i \in 1 .. n /\ i # n
      <4>1. /\ i + 1 \in 1 .. n /\ i < n + k /\ f[i + 1] = top - (i + 1) + 1
            /\ f[i] = top - i + 1 /\ f[i] \in first + 1 .. top /\ f[i] # first
            /\ (top - i + 1) - 1 = top - (i + 1) + 1
        <5>1. i + 1 \in 1 .. n /\ i < n + k
          BY <1>3, <3>1
        <5>2. f[i] = top - i + 1 /\ f[i + 1] = top - (i + 1) + 1
          BY <1>10, <3>1, <5>1
        <5>3. top - i + 1 \in first + 1 .. top /\ top - i + 1 # first
              /\ (top - i + 1) - 1 = top - (i + 1) + 1
          BY <1>3, <3>1
        <5> QED BY <5>1, <5>2, <5>3
      <4>2. f[i] \in Items
        BY <1>3, <1>10, <3>1
      <4>3. word'[f[i]] = f[i] - 1
        BY <1>2, <4>1, <4>2
      <4> HIDE DEF n, k
      <4> QED BY <1>9, <4>1, <4>3 DEF NextIn
    <3>2. CASE i = n
      <4>1. n \in 1 .. n /\ top - n + 1 = first
        BY <1>3
      <4>2. f[i] = first /\ first \in Items
        BY <1>10, <3>2, <4>1
      <4>3. word'[f[i]] = ptFreeList
        BY <1>2, <4>2
      <4>4. NextIn(f, i) = IF n < n + k THEN f[n + 1] ELSE NULL
        BY <1>9, <3>2 DEF NextIn
      <4>5. CASE k = 0
        BY <1>3, <1>8, <4>3, <4>4, <4>5
      <4>6. CASE k # 0
        <5>1. 1 \in 1 .. k /\ n < n + k
          BY <1>3, <4>6
        <5>2. f[n + 1] = FreeItems[1]
          BY <1>10, <5>1
        <5> HIDE DEF n, k
        <5> QED BY <1>8, <4>3, <4>4, <4>6, <5>1, <5>2
      <4> QED BY <4>5, <4>6
    <3>3. ASSUME NEW j \in 1 .. k, i = n + j PROVE word'[f[i]] = NextIn(f, i)
      <4>1. f[i] = FreeItems[j]
        BY <1>10, <3>3
      <4>2. word'[f[i]] = IF j < k THEN FreeItems[j + 1] ELSE NULL
        BY <1>7, <4>1
      <4>3. NextIn(f, i) = IF i < n + k THEN f[i + 1] ELSE NULL
        BY <1>9 DEF NextIn
      <4>4. i < n + k <=> j < k
        BY <1>3, <3>3
      <4>5. ASSUME j < k PROVE f[i + 1] = FreeItems[j + 1]
        <5>1. j + 1 \in 1 .. k /\ i + 1 = n + (j + 1)
          BY <1>3, <3>3, <4>5
        <5> QED BY <1>10, <5>1
      <4> HIDE DEF n, k
      <4> QED BY <4>2, <4>3, <4>4, <4>5
    <3> QED BY <1>10, <3>1, <3>2, <3>3
  <2> HIDE DEF n, k
  <2> QED BY <1>9, <1>12, <2>1, <2>2 DEF LinkedIn
<1>14. PoolTypes'
  <2>1. word' \in [Items -> Items \union {NULL, DATA}]
    <3>1. ptFreeList \in Items \union {NULL}
      BY <1>3, <1>7, <1>8
    <3>2. ASSUME NEW i \in Items PROVE word'[i] \in Items \union {NULL, DATA}
      <4>1. i \in first + 1 .. top => i - 1 \in first .. top
        BY <1>3
      <4> QED BY <1>2, <1>3, <3>1, <4>1, PoolFacts
    <3>3. word' = [i \in Items |-> word'[i]]
      BY DEF AddHeap
    <3> QED BY <3>2, <3>3
  <2> QED BY <1>1, <1>3, <2>1, PoolFacts DEF PoolTypes
<1>15. /\ Elems(f) \intersect Elems(Fifo) = {}
       /\ Elems(f) \union Elems(Fifo) = heap' \ (held' \union lost')
  <2> HIDE DEF f
  <2> QED BY <1>1, <1>4, <1>11, PoolFacts
<1> HIDE DEF f
<1> QED BY <1>1, <1>6, <1>13, <1>14, <1>15, PoolFacts, PoolInvAfter

\* LIST_QUEUE_ENQUEUE: by the tail alone, which is the last item or NULL.
LEMMA QueueEnqueueKeeps ==
  ASSUME PoolInv, NEW i \in Items, QueueEnqueue(i) PROVE PoolInv'
<1> DEFINE q == Append(Fifo, i)
           links == [word EXCEPT ![i] = NULL]
<1>1. /\ i \in held /\ held' = held \ {i} /\ ptTail' = i
      /\ word' = EnqueueNext(word, ptTail, i) /\ ptHead' = EnqueueHead(ptHead, ptTail, i)
      /\ UNCHANGED <<ptFreeList, heap, lost>>
  BY DEF QueueEnqueue
<1>2. i \notin Elems(FreeItems) /\ i \notin Elems(Fifo) /\ i \notin lost
  BY <1>1, PoolFacts
<1>3. LinkedIn(Items, links, FreeItems, ptFreeList) /\ LinkedIn(Items, links, Fifo, ptHead)
  BY <1>2, PoolFacts, ItemFacts, OtherLink
<1>4. DOMAIN links = Items /\ links[i] = NULL
  BY PoolFacts
<1>5. /\ (Fifo = <<>> <=> ptTail = NULL)
      /\ LastOf(q) = i
      /\ Elems(q) = Elems(Fifo) \union {i} /\ q \in Seq(Items) /\ Distinct(q)
  BY <1>2, PoolFacts, ItemFacts, LastOfLists, AppendedLast
<1>6. /\ LinkedIn(Items, word', FreeItems, ptFreeList)
      /\ LinkedIn(Items, word', q, ptHead')
      /\ word' \in [Items -> Items \union {NULL, DATA}]
  <2>1. CASE ptTail = NULL
    <3>1. word' = links /\ ptHead' = i
      BY <1>1, <2>1 DEF EnqueueNext, EnqueueHead
    <3>2. q = <<i>>
      BY <1>5, <2>1
    <3>3. LinkedIn(Items, links, <<i>>, i)
      <4> HIDE DEF links
      <4> QED BY <1>4, LinkedOne
    <3>4. links \in [Items -> Items \union {NULL, DATA}]
      BY PoolFacts
    <3> QED BY <1>3, <3>1, <3>2, <3>3, <3>4
  <2>2. CASE ptTail # NULL
    <3>1. ptTail \in Elems(Fifo) /\ ptTail \in Items /\ ptTail = LastOf(Fifo)
      <4>1. Fifo # <<>> /\ ptTail = Fifo[Len(Fifo)] /\ Len(Fifo) \in 1 .. Len(Fifo)
        BY <1>5, <2>2, PoolFacts DEF LastOf
      <4> QED BY <4>1, PoolFacts DEF Elems
    <3>2. i # ptTail
      BY <1>2, <3>1
    <3>3. word' = [links EXCEPT ![ptTail] = i] /\ ptHead' = ptHead
      <4>1. word' = [word EXCEPT ![ptTail] = i, ![i] = NULL]
        BY <1>1, <2>2 DEF EnqueueNext
      <4>2. ptHead' = ptHead
        BY <1>1, <2>2 DEF EnqueueHead
      <4> QED BY <3>1, <3>2, <4>1, <4>2, PoolFacts
    <3>4. links \in [Items -> Items \union {NULL, DATA}]
      BY PoolFacts
    <3> HIDE DEF links, q
    <3>5. LinkedIn(Items, [links EXCEPT ![ptTail] = i], Append(Fifo, i), ptHead)
      BY <1>2, <1>3, <1>4, <1>5, <2>2, <3>1, ItemFacts, LinkedAppend, Zenon
    <3>6. LinkedIn(Items, [links EXCEPT ![ptTail] = i], FreeItems, ptFreeList)
      <4>1. ptTail \notin Elems(FreeItems)
        BY <3>1, PoolFacts
      <4> QED BY <1>3, <1>4, <3>1, <4>1, ItemFacts, OtherLink
    <3>7. word' \in [Items -> Items \union {NULL, DATA}]
      BY <3>1, <3>3, <3>4
    <3> QED BY <3>3, <3>5, <3>6, <3>7 DEF q
  <2> QED BY <2>1, <2>2
<1> HIDE DEF q
<1>7. PoolTypes'
  BY <1>1, <1>6, PoolFacts DEF PoolTypes
<1>8. /\ Elems(FreeItems) \intersect Elems(q) = {}
      /\ Elems(FreeItems) \union Elems(q) = heap' \ (held' \union lost')
  BY <1>1, <1>2, <1>5, PoolFacts
<1> QED BY <1>1, <1>5, <1>6, <1>7, <1>8, PoolInvAfter

\* LIST_QUEUE_DEQUEUE, and LIST_QUEUE_REMOVE with it: the head goes, with its link.
LEMMA QueueDequeueKeeps == ASSUME PoolInv, QueueDequeue PROVE PoolInv'
<1> DEFINE q == Tail(Fifo)
<1>1. /\ ptHead # NULL /\ held' = held \union {ptHead} /\ ptHead' = word[ptHead]
      /\ ptTail' = (IF word[ptHead] = NULL THEN NULL ELSE ptTail)
      /\ UNCHANGED <<ptFreeList, word, heap, lost>>
  BY DEF QueueDequeue, DequeueHead, DequeueTail
<1>2. /\ LinkedIn(Items, word, q, word[ptHead]) /\ Fifo # <<>> /\ ptHead = Fifo[1]
      /\ ptHead \in Items /\ Elems(Fifo) = Elems(q) \union {ptHead} /\ ptHead \notin Elems(q)
  BY <1>1, PoolFacts, ItemFacts, LinkedPop
<1>3. LastOf(q) = ptTail'
  <2>1. LastOf(q) = IF LastOf(Fifo) = Fifo[1] THEN NULL ELSE LastOf(Fifo)
    BY <1>2, PoolFacts, ItemFacts, LastOfLists
  <2>2. word[ptHead] = NULL <=> q = <<>>
    BY <1>2, ItemFacts, LinkedFacts
  <2>3. q = <<>> <=> LastOf(q) = NULL
    <3>1. q \in Seq(Items) /\ Distinct(q)
      BY <1>2 DEF LinkedIn
    <3> QED BY <3>1, ItemFacts, LastOfLists
  <2> QED BY <1>1, <2>1, <2>2, <2>3, PoolFacts
<1> HIDE DEF q
<1>4. PoolTypes'
  BY <1>1, <1>2, PoolFacts DEF PoolTypes
<1>5. /\ Elems(FreeItems) \intersect Elems(q) = {}
      /\ Elems(FreeItems) \union Elems(q) = heap' \ (held' \union lost')
  BY <1>1, <1>2, PoolFacts
<1> QED BY <1>1, <1>2, <1>3, <1>4, <1>5, PoolFacts, PoolInvAfter

\* Every step keeps the invariant.
LEMMA PoolStep == PoolInv /\ [PoolNext]_itemVars => PoolInv'
<1> SUFFICES ASSUME PoolInv, [PoolNext]_itemVars PROVE PoolInv' OBVIOUS
<1>1. CASE UNCHANGED itemVars
  BY <1>1 DEF itemVars, PoolInv, PoolTypes, TwoLists, FreeItems, Fifo
<1>2. CASE PoolNext
  BY <1>2, AddHeapKeeps, WriteItemKeeps, FreeItemKeeps, QueueEnqueueKeeps, NewItemKeeps,
     QueueDequeueKeeps DEF PoolNext, QueueRemove
<1> QED BY <1>1, <1>2

\* Whatever the program writes to the items it holds, and in whatever order it
\* takes, frees and queues them, pool and queue stay whole: no item is handed out
\* twice, and none is lost but those that free refuses.
THEOREM ListsStayWhole == PoolSpec => []ListsWhole
<1>1. PoolInv => ListsWhole
  BY PoolFacts DEF ListsWhole, FreeItems, Fifo, LastOf
<1> QED BY <1>1, PoolInitInv, PoolStep, PTL DEF PoolSpec

---------------------------------------------------------------------------
(* Queue: the ring.                                                         *)

RingType ==
  /\ tSize \in Sizes
  /\ tHead \in 0 .. tSize - 1 /\ tTail \in 0 .. tSize - 1 /\ tPeek \in 0 .. tSize - 1
  /\ tCounter \in 0 .. tSize /\ tPeekCounter \in 0 .. tCounter

RefOK == RefAhead /\ RefStaysIntact

\* Inductive.  RefStaysIntact alone is not: it does not say where the slot is.
QueueInv == TypeOK /\ CountersAgree /\ RefOK

USE QueueAssumption

LEMMA SizeType == tSize \in Sizes => tSize \in Nat \ {0}
BY QueueAssumption

\* Every index of the ring in use is a slot of the memory.
LEMMA InMemory == ASSUME tSize \in Sizes PROVE 0 .. tSize - 1 \subseteq Slots
BY DEF Slots

\* The room at the tail is free, the run at the head is taken.
LEMMA RoomIsFree ==
  ASSUME RingType, CountersAgree
  PROVE  /\ ~QueueIsFull => Room \in 1 .. tSize - tCounter /\ tTail + Room <= tSize
         /\ ~QueueIsEmpty => Run \in 1 .. tCounter /\ tHead + Run <= tSize
BY SizeType DEF RingType, CountersAgree, At, Room, Run, QueueIsFull, QueueIsEmpty

\* memcpy and the single store put items where there were items.
LEMMA WrittenType ==
  ASSUME ptBuffer \in [Slots -> Values], tTail \in Nat, NEW src \in Seq(Values)
  PROVE  Written(src) \in [Slots -> Values]
<1> SUFFICES ASSUME NEW i \in Slots, i \in tTail .. tTail + Len(src) - 1
             PROVE  src[i - tTail + 1] \in Values
  BY DEF Written
<1> QED BY DEF Slots

\* enqueue and enqueue_block.
LEMMA StoreKeeps ==
  ASSUME QueueInv, ~QueueIsFull, NEW src \in Seq(Values), Len(src) \in 1 .. Room, Store(src)
  PROVE  QueueInv'
<1> DEFINE n == Len(src)
<1>1. RingType /\ CountersAgree /\ tSize \in Nat \ {0}
  BY SizeType DEF QueueInv, TypeOK, RingType
<1>2. n \in 1 .. tSize - tCounter /\ tTail + n <= tSize
  BY <1>1, RoomIsFree DEF RingType
<1>3. RingType' /\ CountersAgree'
  <2> HIDE DEF n
  <2>1. /\ tTail' = WrappedIndex(tTail + n) /\ tCounter' = tCounter + n
        /\ tPeekCounter' = tPeekCounter + n
        /\ tSize' = tSize /\ tHead' = tHead /\ tPeek' = tPeek
    BY DEF Store, n
  <2> QED BY <1>1, <1>2, <2>1 DEF RingType, CountersAgree, At, WrappedIndex
<1>4. ptBuffer' \in [Slots -> Values]
  BY <1>1, WrittenType, SMTT(60) DEF Store, QueueInv, TypeOK
<1>5. result' \in Seq(Values \union Nat)
  BY DEF Store
<1>6. ref' \in [slot : Nat, item : Values \union {NoItem}, left : Nat]
      /\ ref'.slot = ref.slot /\ ref'.item = ref.item
      /\ ref'.left = Less(ref.left, n)
  <2> DEFINE left == Less(ref.left, n)
  <2>1. ref \in [slot : Nat, item : Values \union {NoItem}, left : Nat] /\ left \in Nat
    BY <1>2 DEF QueueInv, TypeOK, Less
  <2>2. ref' = [ref EXCEPT !.left = left]
    BY DEF Store
  <2> HIDE DEF left
  <2>3. /\ ref' \in [slot : Nat, item : Values \union {NoItem}, left : Nat]
        /\ ref'.slot = ref.slot /\ ref'.item = ref.item /\ ref'.left = left
    BY <2>1, <2>2
  <2> QED BY <2>3 DEF left
<1>7. ASSUME ref'.left > 0 PROVE RefAhead' /\ RefStaysIntact'
  <2>1. /\ ref.left \in Nat /\ ref.left > n /\ ref'.left = ref.left - n
        /\ ref.slot \in 0 .. tSize - 1 /\ ref.left <= tSize - tCounter
        /\ ref.slot = At(tTail + ref.left - 1)
        /\ ptBuffer[ref.slot] = ref.item
    BY <1>2, <1>6, <1>7 DEF QueueInv, TypeOK, RefOK, RefAhead, RefStaysIntact, Less
  <2>2. /\ tTail' = WrappedIndex(tTail + n) /\ tCounter' = tCounter + n /\ tSize' = tSize
        /\ ptBuffer' = Written(src)
    BY DEF Store
  <2> DEFINE slot == ref.slot
             left == ref.left
  <2>a. /\ tTail \in 0 .. tSize - 1 /\ tCounter \in 0 .. tSize /\ tSize \in Nat
        /\ n \in Nat /\ left \in Nat /\ slot \in Nat
    BY <1>1, <1>2, <2>1 DEF RingType
  <2> HIDE DEF n, slot, left
  <2>b. /\ n < left /\ left <= tSize - tCounter /\ tTail + n <= tSize
        /\ slot = At(tTail + left - 1)
    BY <1>2, <2>1 DEF slot, left
  <2>3. RefAhead'
    <3> DEFINE tail == WrappedIndex(tTail + n)
               next == tail + (left - n) - 1
    <3>1. /\ slot \in 0 .. tSize - 1 /\ left - n <= tSize - (tCounter + n)
          /\ slot = IF next >= tSize THEN next - tSize ELSE next
      BY <2>a, <2>b DEF At, WrappedIndex
    <3>2. /\ tTail' = tail /\ tCounter' = tCounter + n /\ tSize' = tSize
          /\ ref'.slot = slot /\ ref'.left = left - n
      BY <1>6, <2>1, <2>2 DEF slot, left
    <3>3. RefAhead' = (left - n > 0 => /\ slot \in 0 .. tSize - 1
                                      /\ left - n <= tSize - (tCounter + n)
                                      /\ slot = IF next >= tSize THEN next - tSize ELSE next)
      <4> HIDE DEF tail
      <4> QED BY <3>2 DEF RefAhead, At
    <3> HIDE DEF next
    <3> QED BY <3>1, <3>3
  <2>4. ref.slot \notin tTail .. tTail + n - 1
    <3>1. slot \notin tTail .. tTail + n - 1
      BY <2>a, <2>b DEF At
    <3> QED BY <3>1 DEF slot
  <2>5. ref.slot \in Slots
    BY <1>1, <2>1, InMemory DEF RingType
  <2>6. ptBuffer'[ref.slot] = ptBuffer[ref.slot]
    BY <2>2, <2>4, <2>5 DEF Written, n
  <2> QED BY <1>6, <2>1, <2>3, <2>6 DEF RefStaysIntact
<1>8. RefOK'
  BY <1>6, <1>7 DEF RefOK, RefAhead, RefStaysIntact
<1> QED BY <1>3, <1>4, <1>5, <1>6, <1>8 DEF QueueInv, TypeOK, RingType

\* dequeue, dequeue_block and dequeue_ref, the reference aside.
LEMMA RemoveKeeps ==
  ASSUME QueueInv, ~QueueIsEmpty, NEW n \in 1 .. Run, Remove(n)
  PROVE  /\ RingType' /\ CountersAgree'
         /\ ptBuffer' \in [Slots -> Values] /\ result' \in Seq(Values \union Nat)
         /\ tCounter' = tCounter - n /\ tHead' = WrappedIndex(tHead + n)
         /\ UNCHANGED <<ptBuffer, tSize, tTail>>
<1>1. RingType /\ CountersAgree /\ tSize \in Nat \ {0}
  BY SizeType DEF QueueInv, TypeOK, RingType
<1>2. n \in 1 .. tCounter /\ tHead + n <= tSize
  BY <1>1, RoomIsFree DEF RingType
<1>3. /\ tCounter' = tCounter - n /\ tHead' = WrappedIndex(tHead + n)
      /\ tPeek' = tHead' /\ tPeekCounter' = tCounter'
      /\ UNCHANGED <<ptBuffer, tSize, tTail>>
  BY DEF Remove, PeekReset
<1>4. RingType' /\ CountersAgree'
  BY <1>1, <1>2, <1>3 DEF RingType, CountersAgree, At, WrappedIndex
<1>5. ptBuffer' \in [Slots -> Values]
  BY <1>3 DEF QueueInv, TypeOK
<1>6. \A i \in 1 .. n : ptBuffer[tHead + i - 1] \in Values
  BY <1>1, <1>2, InMemory DEF QueueInv, TypeOK, RingType
<1>7. result' \in Seq(Values \union Nat)
  BY <1>6 DEF Remove
<1> QED BY <1>3, <1>4, <1>5, <1>7

\* A reference that is left alone stays ahead of the tail when items go.
LEMMA RefKept ==
  ASSUME QueueInv, UNCHANGED <<ptBuffer, tSize, tTail, ref>>,
         tCounter \in Nat, tCounter' \in Nat, tCounter' <= tCounter
  PROVE  RefOK'
BY SizeType DEF QueueInv, TypeOK, RefOK, RefAhead, RefStaysIntact, At

\* A call that changes nothing of the queue.
LEMMA ReportsKeeps ==
  ASSUME QueueInv, NEW answer \in Seq(Values \union Nat), Reports(answer)
  PROVE  QueueInv'
BY DEF Reports, counterVars, QueueInv, TypeOK, CountersAgree, At, RefOK, RefAhead, RefStaysIntact

\* A queue as the initialiser leaves it satisfies the invariant.
LEMMA InitInv == Init => QueueInv
<1> SUFFICES ASSUME Init PROVE QueueInv
  OBVIOUS
<1>1. tSize \in Nat \ {0}
  BY SizeType DEF Init
<1>2. TypeOK
  BY <1>1 DEF Init, TypeOK, NoRef
<1>3. CountersAgree /\ RefOK
  BY <1>1 DEF Init, CountersAgree, At, RefOK, RefAhead, RefStaysIntact, NoRef
<1> QED BY <1>2, <1>3 DEF QueueInv

LEMMA QueueInitKeeps ==
  ASSUME QueueInv, NEW size \in Sizes, NEW bFull \in BOOLEAN, QueueInit(size, bFull)
  PROVE  QueueInv'
<1>1. size \in Nat \ {0}
  BY QueueAssumption
<1>2. /\ tSize' = size /\ tHead' = 0 /\ tTail' = 0 /\ tPeek' = 0
      /\ tCounter' = (IF bFull THEN size ELSE 0) /\ tPeekCounter' = tCounter'
      /\ result' = <<>> /\ ref' = NoRef /\ ptBuffer' = ptBuffer
  BY DEF QueueInit, Start
<1>3. TypeOK'
  BY <1>1, <1>2 DEF QueueInv, TypeOK, NoRef
<1>4. CountersAgree' /\ RefOK'
  BY <1>1, <1>2 DEF CountersAgree, At, RefOK, RefAhead, RefStaysIntact, NoRef
<1> QED BY <1>3, <1>4 DEF QueueInv

\* Peeking, taking what was peeked and starting anew.
LEMMA PeekKeeps ==
  ASSUME QueueInv, QueuePeek \/ GetAllPeeked \/ ResetPeek
  PROVE  QueueInv'
<1>1. RingType /\ CountersAgree /\ tSize \in Nat \ {0}
  BY SizeType DEF QueueInv, TypeOK, RingType
<1>2. CASE QueuePeek /\ tPeek = tTail /\ tPeekCounter = 0
  <2>1. <<>> \in Seq(Values \union Nat) /\ Reports(<<>>)
    BY <1>2 DEF QueuePeek
  <2> QED BY <2>1, ReportsKeeps
<1>3. CASE QueuePeek /\ ~(tPeek = tTail /\ tPeekCounter = 0)
  <2>1. /\ tPeek' = WrappedIndex(tPeek + 1) /\ tPeekCounter' = tPeekCounter - 1
        /\ result' = <<ptBuffer[tPeek]>>
        /\ UNCHANGED <<ptBuffer, tSize, tHead, tTail, tCounter, ref>>
    BY <1>3 DEF QueuePeek
  <2>2. RingType' /\ CountersAgree'
    BY <1>1, <1>3, <2>1 DEF RingType, CountersAgree, At, WrappedIndex
  <2>3. ptBuffer[tPeek] \in Values
    BY <1>1, InMemory DEF QueueInv, TypeOK, RingType
  <2>4. TypeOK'
    BY <2>1, <2>2, <2>3 DEF QueueInv, TypeOK, RingType
  <2>5. RefOK'
    BY <1>1, <2>1, RefKept DEF RingType
  <2> QED BY <2>2, <2>4, <2>5 DEF QueueInv
<1>4. CASE GetAllPeeked
  <2>1. /\ tHead' = tPeek /\ tCounter' = tPeekCounter
        /\ UNCHANGED <<ptBuffer, tSize, tTail, tPeek, tPeekCounter, result, ref>>
    BY <1>4 DEF GetAllPeeked
  <2>2. RingType' /\ CountersAgree'
    BY <1>1, <2>1 DEF RingType, CountersAgree, At
  <2>3. TypeOK'
    BY <2>1, <2>2 DEF QueueInv, TypeOK, RingType
  <2>4. RefOK'
    BY <1>1, <2>1, RefKept DEF RingType
  <2> QED BY <2>2, <2>3, <2>4 DEF QueueInv
<1>5. CASE ResetPeek
  <2>1. /\ tPeek' = tHead /\ tPeekCounter' = tCounter
        /\ UNCHANGED <<ptBuffer, tSize, tHead, tTail, tCounter, result, ref>>
    BY <1>5 DEF ResetPeek, PeekReset
  <2>2. RingType' /\ CountersAgree'
    BY <1>1, <2>1 DEF RingType, CountersAgree, At
  <2>3. TypeOK'
    BY <2>1, <2>2 DEF QueueInv, TypeOK, RingType
  <2>4. RefOK'
    BY <1>1, <2>1, RefKept DEF RingType
  <2> QED BY <2>2, <2>3, <2>4 DEF QueueInv
<1> QED BY <1>2, <1>3, <1>4, <1>5

\* The two ways of storing.
LEMMA EnqueueKeeps ==
  ASSUME QueueInv, Enqueue \/ EnqueueBlock
  PROVE  QueueInv'
<1>1. <<>> \in Seq(Values \union Nat)
  OBVIOUS
<1>2. ~QueueIsFull => Room \in Nat \ {0}
  BY RoomIsFree, SizeType DEF QueueInv, TypeOK, RingType
<1>3. CASE Enqueue
  <2>1. PICK item \in Values : IF QueueIsFull THEN Reports(<<>>) ELSE Store(<<item>>)
    BY <1>3 DEF Enqueue
  <2>2. <<item>> \in Seq(Values) /\ Len(<<item>>) = 1
    OBVIOUS
  <2>3. CASE QueueIsFull
    BY <1>1, <2>1, <2>3, ReportsKeeps
  <2>4. CASE ~QueueIsFull
    <3>1. Len(<<item>>) \in 1 .. Room /\ Store(<<item>>)
      BY <1>2, <2>1, <2>2, <2>4
    <3> QED BY <2>2, <2>4, <3>1, StoreKeeps
  <2> QED BY <2>3, <2>4
<1>4. CASE EnqueueBlock
  <2>1. PICK n \in 1 .. MaxBlock : \E src \in [1 .. n -> Values] :
          IF QueueIsFull THEN Reports(<<>>) ELSE Store(SubSeq(src, 1, Lesser(Room, n)))
    BY <1>4 DEF EnqueueBlock
  <2>2. PICK src \in [1 .. n -> Values] :
          IF QueueIsFull THEN Reports(<<>>) ELSE Store(SubSeq(src, 1, Lesser(Room, n)))
    BY <2>1
  <2>3. CASE QueueIsFull
    BY <1>1, <2>2, <2>3, ReportsKeeps
  <2>4. CASE ~QueueIsFull
    <3> DEFINE k == Lesser(Room, n)
               part == SubSeq(src, 1, k)
    <3>1. k \in 1 .. n /\ k <= Room /\ k \in Nat
      BY <1>2, <2>4 DEF Lesser
    <3>2. src \in Seq(Values) /\ Len(src) = n
      OBVIOUS
    <3>3. part \in Seq(Values) /\ Len(part) = k
      <4> HIDE DEF k
      <4> QED BY <3>1, <3>2
    <3>4. Len(part) \in 1 .. Room
      BY <1>2, <2>4, <3>1, <3>3
    <3>5. Store(part)
      BY <2>2, <2>4
    <3> HIDE DEF part
    <3> QED BY <2>4, <3>3, <3>4, <3>5, StoreKeeps
  <2> QED BY <2>3, <2>4
<1> QED BY <1>3, <1>4

\* The three ways of taking.
LEMMA DequeueKeeps ==
  ASSUME QueueInv, Dequeue \/ DequeueBlock \/ DequeueRef
  PROVE  QueueInv'
<1>1. /\ RingType /\ CountersAgree /\ tSize \in Nat \ {0}
      /\ ~QueueIsEmpty => Run \in 1 .. tCounter
  BY SizeType, RoomIsFree DEF QueueInv, TypeOK, RingType
<1>2. ASSUME QueueIsEmpty PROVE QueueInv'
  <2>1. <<>> \in Seq(Values \union Nat) /\ Reports(<<>>)
    BY <1>2 DEF Dequeue, DequeueBlock, DequeueRef
  <2> QED BY <2>1, ReportsKeeps
<1>3. ASSUME ~QueueIsEmpty, NEW n \in 1 .. Run, Remove(n), UNCHANGED ref
      PROVE  QueueInv'
  <2>1. /\ RingType' /\ CountersAgree' /\ tCounter' = tCounter - n
        /\ ptBuffer' \in [Slots -> Values] /\ result' \in Seq(Values \union Nat)
        /\ UNCHANGED <<ptBuffer, tSize, tTail>>
    BY <1>3, RemoveKeeps
  <2>2. TypeOK'
    BY <1>3, <2>1 DEF QueueInv, TypeOK, RingType
  <2>3. RefOK'
    BY <1>1, <1>3, <2>1, RefKept DEF RingType
  <2> QED BY <2>1, <2>2, <2>3 DEF QueueInv
<1>4. CASE Dequeue /\ ~QueueIsEmpty
  <2>1. 1 \in 1 .. Run /\ Remove(1) /\ UNCHANGED ref
    BY <1>1, <1>4 DEF Dequeue
  <2> QED BY <1>3, <1>4, <2>1
<1>5. CASE DequeueBlock /\ ~QueueIsEmpty
  <2>1. PICK n \in 1 .. MaxBlock : Remove(Lesser(Run, n)) /\ UNCHANGED ref
    BY <1>5 DEF DequeueBlock
  <2>2. Lesser(Run, n) \in 1 .. Run
    BY <1>1, <1>5 DEF Lesser, RingType
  <2> QED BY <1>3, <1>5, <2>1, <2>2
<1>6. CASE DequeueRef /\ ~QueueIsEmpty
  <2>1. /\ Remove(1) /\ 1 \in 1 .. Run
        /\ ref' = [slot |-> tHead, item |-> ptBuffer[tHead], left |-> tSize - tCounter']
    BY <1>1, <1>6 DEF DequeueRef
  <2>2. /\ RingType' /\ CountersAgree' /\ tCounter' = tCounter - 1
        /\ tHead' = WrappedIndex(tHead + 1)
        /\ ptBuffer' \in [Slots -> Values] /\ result' \in Seq(Values \union Nat)
        /\ UNCHANGED <<ptBuffer, tSize, tTail>>
    BY <1>6, <2>1, RemoveKeeps
  <2>3. /\ ref'.slot = tHead /\ ref'.item = ptBuffer[tHead]
        /\ ref'.left = tSize - (tCounter - 1)
    BY <2>1, <2>2
  <2>4. ptBuffer[tHead] \in Values
    BY <1>1, InMemory DEF QueueInv, TypeOK, RingType
  <2>5. TypeOK'
    <3>1. ref' \in [slot : Nat, item : Values \union {NoItem}, left : Nat]
      BY <1>1, <2>1, <2>2, <2>4 DEF RingType
    <3> QED BY <2>2, <3>1 DEF TypeOK, RingType
  <2>6. RefAhead'
    BY <1>1, <1>6, <2>2, <2>3 DEF RefAhead, At, RingType, CountersAgree, WrappedIndex
  <2>7. RefStaysIntact'
    BY <2>2, <2>3 DEF RefStaysIntact
  <2> QED BY <2>2, <2>5, <2>6, <2>7 DEF QueueInv, RefOK
<1> QED BY <1>2, <1>4, <1>5, <1>6

\* Every call keeps the invariant.
LEMMA NextKeeps == QueueInv /\ [Next]_vars => QueueInv'
<1> SUFFICES ASSUME QueueInv, [Next]_vars PROVE QueueInv'
  OBVIOUS
<1>1. CASE \E size \in Sizes, bFull \in BOOLEAN : QueueInit(size, bFull)
  BY <1>1, QueueInitKeeps
<1>2. CASE Enqueue \/ EnqueueBlock
  BY <1>2, EnqueueKeeps
<1>3. CASE QueuePeek \/ GetAllPeeked \/ ResetPeek
  BY <1>3, PeekKeeps
<1>4. CASE Dequeue \/ DequeueBlock \/ DequeueRef
  BY <1>4, DequeueKeeps
<1>5. CASE GetItemCount \/ GetAvailableCount
  <2>1. <<tCounter>> \in Seq(Values \union Nat) /\ <<tSize - tCounter>> \in Seq(Values \union Nat)
    BY SizeType DEF QueueInv, TypeOK
  <2> QED BY <1>5, <2>1, ReportsKeeps DEF GetItemCount, GetAvailableCount
<1>6. CASE UNCHANGED vars
  BY <1>6 DEF vars, counterVars, QueueInv, TypeOK, CountersAgree, At, RefOK, RefAhead, RefStaysIntact
<1> QED BY <1>1, <1>2, <1>3, <1>4, <1>5, <1>6 DEF Next

LEMMA InvHolds == Spec => []QueueInv
<1> QED BY InitInv, NextKeeps, PTL DEF Spec

\* Types of t_queue.h's object, for every size: no index leaves the buffer.
THEOREM QueueTypes == Spec => []TypeOK
<1>1. QueueInv => TypeOK
  BY DEF QueueInv
<1> QED BY <1>1, InvHolds, PTL

\* The positions and the two counters agree after every sequence of calls.
THEOREM CountersAlwaysAgree == Spec => []CountersAgree
<1>1. QueueInv => CountersAgree
  BY DEF QueueInv
<1> QED BY <1>1, InvHolds, PTL

\* What dequeue_ref returns keeps its item while there is room elsewhere.
THEOREM RefsStayIntact == Spec => []RefStaysIntact
<1>1. QueueInv => RefStaysIntact
  BY DEF QueueInv, RefOK
<1> QED BY <1>1, InvHolds, PTL

---------------------------------------------------------------------------
(* The ring implements the bounded queue.                                   *)

\* Where item i of a ring lies.
SlotOf(size, head, i) == IF head + i - 1 >= size THEN head + i - 1 - size ELSE head + i - 1

\* What Contents is made of.
LEMMA ContentsType ==
  ASSUME NEW size \in Sizes, NEW head \in 0 .. size - 1, NEW count \in 0 .. size,
         NEW buffer \in [Slots -> Values]
  PROVE  /\ Contents(buffer, size, head, count) \in Seq(Values)
         /\ Len(Contents(buffer, size, head, count)) = count
         /\ \A i \in 1 .. count : SlotOf(size, head, i) \in Slots
         /\ \A i \in 1 .. count :
              Contents(buffer, size, head, count)[i] = buffer[SlotOf(size, head, i)]
<1> DEFINE items == [i \in 1 .. count |-> buffer[SlotOf(size, head, i)]]
<1>1. size \in Nat \ {0} /\ count \in Nat
  BY QueueAssumption
<1>2. ASSUME NEW i \in 1 .. count PROVE SlotOf(size, head, i) \in Slots
  <2>1. SlotOf(size, head, i) \in 0 .. size - 1
    BY <1>1 DEF SlotOf
  <2> QED BY <2>1 DEF Slots
<1>3. items \in [1 .. count -> Values]
  BY <1>2
<1>4. items \in Seq(Values) /\ Len(items) = count
  <2> HIDE DEF items
  <2> QED BY <1>1, <1>3
<1>5. items = Contents(buffer, size, head, count)
  BY DEF Contents, SlotOf
<1>6. \A i \in 1 .. count : items[i] = buffer[SlotOf(size, head, i)]
  OBVIOUS
<1> HIDE DEF items
<1> QED BY <1>2, <1>4, <1>5, <1>6

\* Without its first k items a ring starts k slots further.
LEMMA ContentsAfter ==
  ASSUME NEW size \in Sizes, NEW head \in 0 .. size - 1, NEW count \in 0 .. size,
         NEW buffer \in [Slots -> Values], NEW k \in 0 .. count, NEW next \in 0 .. size - 1,
         next = IF head + k >= size THEN head + k - size ELSE head + k
  PROVE  Contents(buffer, size, next, count - k)
           = SubSeq(Contents(buffer, size, head, count), k + 1, count)
<1>1. size \in Nat \ {0} /\ count \in Nat /\ k \in Nat /\ count - k \in 0 .. size
  BY QueueAssumption
<1> DEFINE all == Contents(buffer, size, head, count)
           rest == Contents(buffer, size, next, count - k)
<1>2. /\ all \in Seq(Values) /\ Len(all) = count
      /\ \A i \in 1 .. count : all[i] = buffer[SlotOf(size, head, i)]
  BY ContentsType
<1>3. /\ rest \in Seq(Values) /\ Len(rest) = count - k
      /\ \A i \in 1 .. count - k : rest[i] = buffer[SlotOf(size, next, i)]
  <2>1. PICK m \in 0 .. size : m = count - k
    BY <1>1
  <2>2. /\ Contents(buffer, size, next, m) \in Seq(Values)
        /\ Len(Contents(buffer, size, next, m)) = m
        /\ \A i \in 1 .. m :
             Contents(buffer, size, next, m)[i] = buffer[SlotOf(size, next, i)]
    BY ContentsType
  <2> QED BY <2>1, <2>2
<1>4. \A i \in 1 .. count - k :
        k + i \in 1 .. count /\ SlotOf(size, next, i) = SlotOf(size, head, k + i)
  BY <1>1 DEF SlotOf
<1> HIDE DEF all, rest
<1>5. ASSUME NEW i \in 1 .. count - k PROVE rest[i] = all[k + i]
  BY <1>2, <1>3, <1>4
<1> DEFINE part == SubSeq(all, k + 1, count)
<1>6. /\ part \in Seq(Values) /\ Len(part) = count - k
      /\ \A i \in 1 .. count - k : part[i] = all[k + i]
  <2>1. \A i \in k + 1 .. count : all[i] \in Values
    BY <1>1, <1>2, ElementOfSeq
  <2>2. /\ part \in Seq(Values)
        /\ Len(part) = IF k + 1 <= count THEN count - (k + 1) + 1 ELSE 0
        /\ \A i \in 1 .. count - (k + 1) + 1 : part[i] = all[(k + 1) + i - 1]
    BY <1>1, <2>1, SubSeqProperties
  <2>3. /\ (IF k + 1 <= count THEN count - (k + 1) + 1 ELSE 0) = count - k
        /\ count - (k + 1) + 1 = count - k
        /\ \A i \in 1 .. count - k : (k + 1) + i - 1 = k + i
    BY <1>1
  <2> HIDE DEF part
  <2> QED BY <2>2, <2>3
<1> HIDE DEF part
<1>7. rest = part
  BY <1>3, <1>5, <1>6, SeqEqual
<1> QED BY <1>7 DEF all, rest, part

\* Its first n items, as far as the memory is contiguous.
LEMMA ContentsFront ==
  ASSUME NEW size \in Sizes, NEW head \in 0 .. size - 1, NEW count \in 0 .. size,
         NEW buffer \in [Slots -> Values], NEW n \in 1 .. count, head + n <= size
  PROVE  SubSeq(Contents(buffer, size, head, count), 1, n)
           = [i \in 1 .. n |-> buffer[head + i - 1]]
<1> DEFINE all == Contents(buffer, size, head, count)
<1>1. /\ size \in Nat \ {0} /\ n \in Nat /\ all \in Seq(Values) /\ Len(all) = count
      /\ \A i \in 1 .. count : all[i] = buffer[SlotOf(size, head, i)]
  BY QueueAssumption, ContentsType
<1> HIDE DEF all
<1>2. ASSUME NEW i \in 1 .. n PROVE all[i] = buffer[head + i - 1]
  <2>1. i \in 1 .. count /\ SlotOf(size, head, i) = head + i - 1
    BY <1>1 DEF SlotOf
  <2> QED BY <1>1, <2>1
<1>3. SubSeq(all, 1, n) = [i \in 1 .. n |-> all[i]]
  BY <1>1
<1> QED BY <1>2, <1>3 DEF all

---------------------------------------------------------------------------
(* Call by call, the ring does what the bounded queue does.                 *)

RingItems == Contents(ptBuffer, tSize, tHead, tCounter)

\* The invariant, as the abstract queue sees it.
LEMMA RingHolds ==
  ASSUME QueueInv
  PROVE  /\ tSize \in Sizes /\ tSize \in Nat \ {0} /\ ptBuffer \in [Slots -> Values]
         /\ tHead \in 0 .. tSize - 1 /\ tTail \in 0 .. tSize - 1 /\ tPeek \in 0 .. tSize - 1
         /\ tCounter \in 0 .. tSize /\ tPeekCounter \in 0 .. tCounter
         /\ RingItems \in Seq(Values) /\ Len(RingItems) = tCounter
         /\ \A i \in 1 .. tCounter : RingItems[i] = ptBuffer[SlotOf(tSize, tHead, i)]
         /\ QueueIsFull => tCounter = tSize
         /\ QueueIsEmpty <=> tCounter = 0
<1>1. /\ tSize \in Sizes /\ tSize \in Nat \ {0} /\ ptBuffer \in [Slots -> Values]
      /\ tHead \in 0 .. tSize - 1 /\ tTail \in 0 .. tSize - 1 /\ tPeek \in 0 .. tSize - 1
      /\ tCounter \in 0 .. tSize /\ tPeekCounter \in 0 .. tCounter
  BY SizeType DEF QueueInv, TypeOK
<1>2. /\ QueueIsFull => tCounter = tSize
      /\ QueueIsEmpty <=> tCounter = 0
  BY <1>1 DEF QueueInv, CountersAgree, At, QueueIsFull, QueueIsEmpty
<1>3. /\ RingItems \in Seq(Values) /\ Len(RingItems) = tCounter
      /\ \A i \in 1 .. tCounter : RingItems[i] = ptBuffer[SlotOf(tSize, tHead, i)]
  BY ONLY <1>1, ContentsType DEF RingItems
<1> QED BY <1>1, <1>2, <1>3

\* What a call stores is stored behind what there is.
LEMMA StorePuts ==
  ASSUME QueueInv, ~QueueIsFull, NEW src \in Seq(Values), Len(src) \in 1 .. Room, Store(src)
  PROVE  /\ RingItems' = RingItems \o src /\ result' = src /\ Len(src) <= tSize - Len(RingItems)
         /\ tCounter' - tPeekCounter' = tCounter - tPeekCounter /\ tSize' = tSize
<1>1. PICK n \in Nat : n = Len(src)
  OBVIOUS
<1>2. RingType /\ CountersAgree
  BY DEF QueueInv, TypeOK, RingType
<1>3. n \in 1 .. tSize - tCounter /\ tTail + n <= tSize
  BY <1>1, <1>2, RingHolds, RoomIsFree
<1>4. /\ tCounter' = tCounter + n /\ tPeekCounter' = tPeekCounter + n
      /\ ptBuffer' = Written(src) /\ result' = src
      /\ tSize' = tSize /\ tHead' = tHead
  BY <1>1 DEF Store
<1>5. tCounter' - tPeekCounter' = tCounter - tPeekCounter /\ Len(src) <= tSize - Len(RingItems)
  BY <1>1, <1>3, <1>4, RingHolds
<1>6. RingItems' = RingItems \o src
  <2>1. /\ tSize \in Sizes /\ tSize \in Nat /\ tHead \in 0 .. tSize - 1 /\ tCounter \in 0 .. tSize
        /\ ptBuffer \in [Slots -> Values] /\ tTail \in 0 .. tSize - 1
    BY RingHolds
  <2>2. tTail = IF tHead + tCounter >= tSize THEN tHead + tCounter - tSize ELSE tHead + tCounter
    BY <1>2, <2>1, SizeType DEF CountersAgree, At
  <2> DEFINE old == RingItems
             new == RingItems'
             both == old \o src
  <2>3. /\ old \in Seq(Values) /\ Len(old) = tCounter
        /\ \A i \in 1 .. tCounter : old[i] = ptBuffer[SlotOf(tSize, tHead, i)]
    BY RingHolds
  <2>4. /\ new \in Seq(Values) /\ Len(new) = tCounter + n
        /\ \A i \in 1 .. tCounter + n : SlotOf(tSize, tHead, i) \in Slots
        /\ \A i \in 1 .. tCounter + n : new[i] = ptBuffer'[SlotOf(tSize, tHead, i)]
    <3>1. PICK m \in 0 .. tSize : m = tCounter + n
      BY <1>3, <2>1
    <3>2. PICK written \in [Slots -> Values] : written = ptBuffer'
      BY <1>4, <2>1, WrittenType
    <3>3. /\ Contents(written, tSize, tHead, m) \in Seq(Values)
          /\ Len(Contents(written, tSize, tHead, m)) = m
          /\ \A i \in 1 .. m : SlotOf(tSize, tHead, i) \in Slots
          /\ \A i \in 1 .. m :
               Contents(written, tSize, tHead, m)[i] = written[SlotOf(tSize, tHead, i)]
      BY ONLY <2>1, m \in 0 .. tSize, written \in [Slots -> Values], ContentsType
    <3>4. new = Contents(written, tSize, tHead, m)
      BY <1>4, <3>1, <3>2 DEF RingItems
    <3> HIDE DEF new
    <3> QED BY <3>1, <3>2, <3>3, <3>4
  <2> HIDE DEF old, new
  <2>5. /\ both \in Seq(Values) /\ Len(both) = tCounter + n
        /\ \A i \in 1 .. tCounter + n :
             both[i] = IF i <= tCounter THEN old[i] ELSE src[i - tCounter]
    <3>1. old \in Seq(Values)
      BY <2>3
    <3>2. /\ old \o src \in Seq(Values) /\ Len(old \o src) = Len(old) + Len(src)
          /\ \A i \in 1 .. Len(old) + Len(src) :
               (old \o src)[i] = IF i <= Len(old) THEN old[i] ELSE src[i - Len(old)]
      BY ONLY <3>1, src \in Seq(Values), ConcatProperties
    <3>3. Len(old) = tCounter /\ Len(src) = n
      BY <1>1, <2>3
    <3> QED BY <3>2, <3>3
  <2> HIDE DEF both
  <2>6. ASSUME NEW i \in 1 .. tCounter + n PROVE new[i] = both[i]
    <3> DEFINE slot == SlotOf(tSize, tHead, i)
    <3>1. CASE i <= tCounter
      <4>1. slot \notin tTail .. tTail + n - 1 /\ i \in 1 .. tCounter
        BY <1>3, <2>1, <2>2, <3>1 DEF SlotOf
      <4>2. ptBuffer'[slot] = ptBuffer[slot]
        BY <1>1, <1>4, <2>4, <4>1 DEF Written
      <4> QED BY <2>3, <2>4, <2>5, <3>1, <4>1, <4>2
    <3>2. CASE ~(i <= tCounter)
      <4>1. slot \in tTail .. tTail + n - 1 /\ slot - tTail + 1 = i - tCounter
        BY <1>3, <2>1, <2>2, <3>2 DEF SlotOf
      <4>2. ptBuffer'[slot] = src[i - tCounter]
        BY <1>1, <1>4, <2>4, <4>1 DEF Written
      <4> QED BY <2>4, <2>5, <3>2, <4>2
    <3> QED BY <3>1, <3>2
  <2>7. new = both
    BY <2>1, <2>4, <2>5, <2>6, SeqEqual
  <2> QED BY <2>7 DEF old, new, both
<1> QED BY <1>4, <1>5, <1>6

\* What a call removes is what comes first, and it is gone.
LEMMA RemoveTakes ==
  ASSUME QueueInv, ~QueueIsEmpty, NEW n \in 1 .. Run, Remove(n)
  PROVE  /\ n <= Len(RingItems) /\ result' = SubSeq(RingItems, 1, n)
         /\ RingItems' = SubSeq(RingItems, n + 1, Len(RingItems))
         /\ tCounter' - tPeekCounter' = 0 /\ tSize' = tSize
<1>1. RingType /\ CountersAgree
  BY DEF QueueInv, TypeOK, RingType
<1>2. n \in 1 .. tCounter /\ tHead + n <= tSize
  BY <1>1, RingHolds, RoomIsFree
<1>3. /\ tCounter' = tCounter - n /\ tPeekCounter' = tCounter' /\ tHead' = WrappedIndex(tHead + n)
      /\ ptBuffer' = ptBuffer /\ tSize' = tSize
      /\ result' = [i \in 1 .. n |-> ptBuffer[tHead + i - 1]]
  BY DEF Remove, PeekReset
<1>4. /\ tSize \in Sizes /\ tHead \in 0 .. tSize - 1 /\ tCounter \in 0 .. tSize
      /\ ptBuffer \in [Slots -> Values] /\ Len(RingItems) = tCounter
  BY RingHolds
<1>5. result' = SubSeq(RingItems, 1, n)
  BY ONLY <1>2, <1>3, <1>4, ContentsFront DEF RingItems
<1>6. RingItems' = SubSeq(RingItems, n + 1, Len(RingItems))
  <2>1. /\ tHead' \in 0 .. tSize - 1 /\ n \in 0 .. tCounter
        /\ tHead' = IF tHead + n >= tSize THEN tHead + n - tSize ELSE tHead + n
    BY <1>2, <1>3, <1>4, SizeType DEF WrappedIndex
  <2>2. Contents(ptBuffer, tSize, tHead', tCounter - n) = SubSeq(RingItems, n + 1, tCounter)
    BY ONLY <1>4, <2>1, ContentsAfter DEF RingItems
  <2>3. RingItems' = Contents(ptBuffer', tSize', tHead', tCounter')
    BY DEF RingItems
  <2> QED BY <1>3, <1>4, <2>2, <2>3
<1>7. n <= Len(RingItems) /\ tCounter' - tPeekCounter' = 0
  BY <1>2, <1>3, <1>4, SizeType
<1> QED BY <1>3, <1>5, <1>6, <1>7


\* A call that only reports leaves the abstract queue alone.
LEMMA ReportsSame ==
  ASSUME NEW answer, Reports(answer)
  PROVE  result' = answer /\ UNCHANGED <<tSize, RingItems, tCounter - tPeekCounter>>
BY DEF Reports, counterVars, RingItems

\* enqueue and enqueue_block put.
LEMMA EnqueuePuts ==
  ASSUME QueueInv, Enqueue \/ EnqueueBlock
  PROVE  Abstract!Put
<1>1. ~QueueIsFull => Room \in Nat \ {0}
  BY RoomIsFree, SizeType DEF QueueInv, TypeOK, RingType
<1>2. PICK n \in 1 .. MaxBlock : \E src \in [1 .. n -> Values] :
        IF QueueIsFull THEN Reports(<<>>)
        ELSE \E k \in 1 .. n : k <= Room /\ Store(SubSeq(src, 1, k))
  <2>1. CASE Enqueue
    <3>1. PICK item \in Values : IF QueueIsFull THEN Reports(<<>>) ELSE Store(<<item>>)
      BY <2>1 DEF Enqueue
    <3>2. <<item>> \in Seq(Values) /\ Len(<<item>>) = 1
      OBVIOUS
    <3>3. PICK one \in Seq(Values) : one = <<item>>
      BY <3>2
    <3>4. Len(one) = 1 /\ one \in [1 .. 1 -> Values]
      BY <3>2, <3>3
    <3>5. SubSeq(one, 1, 1) = one
      BY <3>4, SeqEqual
    <3>6. 1 \in 1 .. MaxBlock /\ 1 \in 1 .. 1 /\ (~QueueIsFull => 1 <= Room)
      BY <1>1
    <3> QED BY <3>1, <3>3, <3>4, <3>5, <3>6
  <2>2. CASE EnqueueBlock
    <3>1. PICK n \in 1 .. MaxBlock : \E src \in [1 .. n -> Values] :
            IF QueueIsFull THEN Reports(<<>>) ELSE Store(SubSeq(src, 1, Lesser(Room, n)))
      BY <2>2 DEF EnqueueBlock
    <3>2. ~QueueIsFull => Lesser(Room, n) \in 1 .. n /\ Lesser(Room, n) <= Room
      BY <1>1 DEF Lesser
    <3> QED BY <3>1, <3>2
  <2> QED BY <2>1, <2>2
<1>3. PICK src \in [1 .. n -> Values] :
        IF QueueIsFull THEN Reports(<<>>)
        ELSE \E k \in 1 .. n : k <= Room /\ Store(SubSeq(src, 1, k))
  BY <1>2
<1>4. src \in Abstract!Sources /\ src \in Seq(Values) /\ Len(src) = n
  BY DEF Abstract!Sources
<1>5. RingItems \in Seq(Values) /\ Len(RingItems) = tCounter /\ tSize \in Nat \ {0}
  BY RingHolds
<1>6. CASE QueueIsFull
  <2>1. result' = <<>> /\ UNCHANGED <<tSize, RingItems, tCounter - tPeekCounter>>
    BY <1>3, <1>6, ReportsSame
  <2>2. Len(RingItems) = tSize
    BY <1>6, RingHolds
  <2>3. RingItems' = RingItems \o result'
    BY <1>5, <2>1
  <2> QED BY <1>4, <2>1, <2>2, <2>3 DEF Abstract!Put, RingItems
<1>7. CASE ~QueueIsFull
  <2>1. PICK k \in 1 .. n : k <= Room /\ Store(SubSeq(src, 1, k))
    BY <1>3, <1>7
  <2>2. SubSeq(src, 1, k) \in Seq(Values) /\ Len(SubSeq(src, 1, k)) = k
    BY <1>4
  <2>3. /\ RingItems' = RingItems \o SubSeq(src, 1, k) /\ result' = SubSeq(src, 1, k)
        /\ k <= tSize - Len(RingItems)
        /\ tCounter' - tPeekCounter' = tCounter - tPeekCounter /\ tSize' = tSize
    <3> DEFINE part == SubSeq(src, 1, k)
    <3>1. part \in Seq(Values) /\ Len(part) = k /\ Len(part) \in 1 .. Room /\ Store(part)
      BY <1>1, <1>7, <2>1, <2>2
    <3> HIDE DEF part
    <3>2. /\ RingItems' = RingItems \o part /\ result' = part /\ k <= tSize - Len(RingItems)
          /\ tCounter' - tPeekCounter' = tCounter - tPeekCounter /\ tSize' = tSize
      BY <1>7, <3>1, StorePuts
    <3> QED BY <3>2 DEF part
  <2>4. k \in 1 .. Len(src) /\ result' = Abstract!Upto(src, k) /\ RingItems' = RingItems \o result'
    BY <1>4, <2>3 DEF Abstract!Upto
  <2> QED BY <1>4, <2>3, <2>4 DEF Abstract!Put, RingItems
<1> QED BY <1>6, <1>7

\* dequeue, dequeue_block and dequeue_ref take, or find nothing.
LEMMA DequeueTakes ==
  ASSUME QueueInv, Dequeue \/ DequeueBlock \/ DequeueRef
  PROVE  Abstract!Take \/ Abstract!Nothing
<1>1. ~QueueIsEmpty => Run \in Nat \ {0}
  BY RoomIsFree, SizeType DEF QueueInv, TypeOK, RingType
<1>2. RingItems \in Seq(Values) /\ Len(RingItems) = tCounter
  BY RingHolds
<1>3. CASE QueueIsEmpty
  <2>1. Reports(<<>>)
    BY <1>3 DEF Dequeue, DequeueBlock, DequeueRef
  <2>2. result' = <<>> /\ UNCHANGED <<tSize, RingItems, tCounter - tPeekCounter>>
    BY <2>1, ReportsSame
  <2>3. RingItems = <<>>
    BY <1>2, <1>3, RingHolds
  <2> QED BY <2>2, <2>3 DEF Abstract!Nothing, RingItems
<1>4. CASE ~QueueIsEmpty
  <2>1. PICK n \in 1 .. MaxBlock : n \in 1 .. Run /\ Remove(n)
    <3>1. CASE Dequeue \/ DequeueRef
      <4>1. 1 \in 1 .. MaxBlock /\ 1 \in 1 .. Run
        BY <1>1, <1>4
      <4> QED BY <1>4, <3>1, <4>1 DEF Dequeue, DequeueRef
    <3>2. CASE DequeueBlock
      <4>1. PICK m \in 1 .. MaxBlock : Remove(Lesser(Run, m))
        BY <1>4, <3>2 DEF DequeueBlock
      <4>2. Lesser(Run, m) \in 1 .. MaxBlock /\ Lesser(Run, m) \in 1 .. Run
        BY <1>1, <1>4 DEF Lesser
      <4> QED BY <4>1, <4>2
    <3> QED BY <3>1, <3>2
  <2>2. /\ n <= Len(RingItems) /\ result' = SubSeq(RingItems, 1, n)
        /\ RingItems' = SubSeq(RingItems, n + 1, Len(RingItems))
        /\ tCounter' - tPeekCounter' = 0 /\ tSize' = tSize
    BY <1>4, <2>1, RemoveTakes
  <2> QED BY <2>2 DEF Abstract!Take, Abstract!Upto, Abstract!After, RingItems
<1> QED BY <1>3, <1>4


\* peek shows the next item not looked at, get_all_peeked takes what was
\* looked at, reset_peek starts the looking anew.
LEMMA PeekPeeks ==
  ASSUME QueueInv, QueuePeek \/ GetAllPeeked \/ ResetPeek
  PROVE  Abstract!Peek \/ Abstract!TakePeeked \/ Abstract!ResetPeek
<1>1. /\ tSize \in Sizes /\ tSize \in Nat \ {0} /\ ptBuffer \in [Slots -> Values]
      /\ tHead \in 0 .. tSize - 1 /\ tTail \in 0 .. tSize - 1 /\ tPeek \in 0 .. tSize - 1
      /\ tCounter \in 0 .. tSize /\ tPeekCounter \in 0 .. tCounter
      /\ RingItems \in Seq(Values) /\ Len(RingItems) = tCounter
      /\ \A i \in 1 .. tCounter : RingItems[i] = ptBuffer[SlotOf(tSize, tHead, i)]
  BY RingHolds
<1>2. /\ tTail = At(tHead + tCounter)
      /\ tPeek = At(tHead + (tCounter - tPeekCounter))
  BY DEF QueueInv, CountersAgree
<1>3. tPeekCounter = 0 => tPeek = tTail
  BY <1>1, <1>2
<1>4. CASE QueuePeek /\ tPeekCounter = 0
  <2>1. Reports(<<>>)
    BY <1>3, <1>4 DEF QueuePeek
  <2>2. result' = <<>> /\ UNCHANGED <<tSize, RingItems, tCounter - tPeekCounter>>
    BY <2>1, ReportsSame
  <2>3. tCounter - tPeekCounter = Len(RingItems)
    BY <1>1, <1>4
  <2> QED BY <2>2, <2>3 DEF Abstract!Peek, RingItems
<1>5. CASE QueuePeek /\ tPeekCounter # 0
  <2>1. /\ result' = <<ptBuffer[tPeek]>> /\ tPeekCounter' = tPeekCounter - 1
        /\ UNCHANGED <<ptBuffer, tSize, tHead, tCounter>>
    BY <1>5 DEF QueuePeek
  <2> DEFINE next == tCounter - tPeekCounter + 1
  <2>2. /\ next \in 1 .. tCounter /\ SlotOf(tSize, tHead, next) = tPeek
        /\ tCounter - tPeekCounter # Len(RingItems)
        /\ tCounter' - tPeekCounter' = next
    BY <1>1, <1>2, <1>5, <2>1 DEF SlotOf, At
  <2>3. result' = <<RingItems[next]>>
    <3> HIDE DEF next
    <3> QED BY <1>1, <2>1, <2>2
  <2>4. RingItems' = RingItems
    BY <2>1 DEF RingItems
  <2> QED BY <2>1, <2>2, <2>3, <2>4 DEF Abstract!Peek, RingItems
<1>6. CASE GetAllPeeked
  <2>1. /\ tHead' = tPeek /\ tCounter' = tPeekCounter
        /\ UNCHANGED <<ptBuffer, tSize, tPeekCounter, result>>
    BY <1>6 DEF GetAllPeeked
  <2> DEFINE k == tCounter - tPeekCounter
  <2>2. /\ k \in 0 .. tCounter /\ tCounter - k = tPeekCounter
        /\ tPeek = IF tHead + k >= tSize THEN tHead + k - tSize ELSE tHead + k
    BY <1>1, <1>2 DEF At
  <2>3. Contents(ptBuffer, tSize, tPeek, tPeekCounter) = SubSeq(RingItems, k + 1, Len(RingItems))
    <3>1. PICK n \in 0 .. tCounter : n = k
      BY <2>2
    <3> HIDE DEF k
    <3>2. tPeek = IF tHead + n >= tSize THEN tHead + n - tSize ELSE tHead + n
      BY <2>2, <3>1
    <3>3. /\ tSize \in Sizes /\ tHead \in 0 .. tSize - 1 /\ tCounter \in 0 .. tSize
          /\ ptBuffer \in [Slots -> Values] /\ tPeek \in 0 .. tSize - 1 /\ n \in 0 .. tCounter
      BY <1>1
    <3>4. Contents(ptBuffer, tSize, tPeek, tCounter - n) = SubSeq(RingItems, n + 1, tCounter)
      BY ONLY <3>2, <3>3, ContentsAfter DEF RingItems
    <3> QED BY <1>1, <2>2, <3>1, <3>4
  <2>4. RingItems' = Contents(ptBuffer', tSize', tHead', tCounter')
    BY DEF RingItems
  <2>5. RingItems' = SubSeq(RingItems, k + 1, Len(RingItems))
    <3> HIDE DEF k
    <3> QED BY <2>1, <2>3, <2>4
  <2>6. tCounter' - tPeekCounter' = 0
    BY <1>1, <2>1
  <2> QED BY <2>1, <2>5, <2>6 DEF Abstract!TakePeeked, Abstract!After, RingItems
<1>7. CASE ResetPeek
  <2>1. tPeekCounter' = tCounter /\ UNCHANGED <<ptBuffer, tSize, tHead, tCounter, result>>
    BY <1>7 DEF ResetPeek, PeekReset
  <2>2. tCounter' - tPeekCounter' = 0
    BY <1>1, <2>1
  <2> QED BY <2>1, <2>2 DEF Abstract!ResetPeek
<1> QED BY <1>4, <1>5, <1>6, <1>7

\* A ring just initialised holds nothing, or what its memory holds.
LEMMA QueueInitStarts ==
  ASSUME NEW size \in Sizes, NEW bFull \in BOOLEAN, QueueInit(size, bFull),
         ptBuffer \in [Slots -> Values]
  PROVE  Abstract!Reinit \/ Abstract!Serialize
<1>1. size \in Nat \ {0}
  BY QueueAssumption
<1>2. /\ tSize' = size /\ tHead' = 0 /\ tCounter' = (IF bFull THEN size ELSE 0)
      /\ tPeekCounter' = tCounter' /\ result' = <<>> /\ ptBuffer' = ptBuffer
  BY DEF QueueInit, Start
<1>3. RingItems' = Contents(ptBuffer, size, 0, tCounter') /\ tCounter' - tPeekCounter' = 0
  BY <1>1, <1>2 DEF RingItems
<1>4. CASE ~bFull
  <2>1. /\ Contents(ptBuffer, size, 0, 0) \in Seq(Values)
        /\ Len(Contents(ptBuffer, size, 0, 0)) = 0
    <3>1. 0 \in 0 .. size - 1 /\ 0 \in 0 .. size
      BY <1>1
    <3> QED BY ONLY <3>1, ContentsType, size \in Sizes, ptBuffer \in [Slots -> Values]
  <2>2. RingItems' = <<>>
    BY <1>2, <1>3, <1>4, <2>1
  <2> QED BY <1>2, <1>3, <2>2 DEF Abstract!Reinit, Abstract!New, RingItems
<1>5. CASE bFull
  <2> DEFINE content == Contents(ptBuffer, size, 0, size)
  <2>1. content \in Seq(Values) /\ Len(content) = size
    <3>1. 0 \in 0 .. size - 1 /\ size \in 0 .. size
      BY <1>1
    <3> QED BY ONLY <3>1, ContentsType, size \in Sizes, ptBuffer \in [Slots -> Values]
  <2>2. RingItems' = content
    BY <1>2, <1>3, <1>5
  <2> HIDE DEF content
  <2>3. content \in [1 .. size -> Values]
    BY <1>1, <2>1
  <2> QED BY <1>2, <1>3, <2>2, <2>3 DEF Abstract!Serialize, Abstract!New, RingItems
<1> QED BY <1>4, <1>5

\* Every call of the ring is a call of the bounded queue, or nothing happens.
LEMMA RingStepIsQueueStep ==
  ASSUME QueueInv, [Next]_vars
  PROVE  [Abstract!Next]_(Abstract!queueVars)
<1>1. CASE \E size \in Sizes, bFull \in BOOLEAN : QueueInit(size, bFull)
  BY <1>1, RingHolds, QueueInitStarts DEF Abstract!Next
<1>2. CASE Enqueue \/ EnqueueBlock
  BY <1>2, EnqueuePuts DEF Abstract!Next
<1>3. CASE QueuePeek \/ GetAllPeeked \/ ResetPeek
  BY <1>3, PeekPeeks DEF Abstract!Next
<1>4. CASE Dequeue \/ DequeueBlock \/ DequeueRef
  BY <1>4, DequeueTakes DEF Abstract!Next
<1>5. CASE GetItemCount \/ GetAvailableCount
  <2>1. PICK answer \in {<<tCounter>>, <<tSize - tCounter>>} : Reports(answer)
    BY <1>5 DEF GetItemCount, GetAvailableCount
  <2>2. result' = answer /\ UNCHANGED <<tSize, RingItems, tCounter - tPeekCounter>>
    BY <2>1, ReportsSame
  <2>3. Len(RingItems) = tCounter
    BY RingHolds
  <2> QED BY <2>1, <2>2, <2>3 DEF Abstract!Count, Abstract!Next, RingItems
<1>6. CASE UNCHANGED vars
  BY <1>6 DEF vars, counterVars, Abstract!queueVars
<1> QED BY <1>1, <1>2, <1>3, <1>4, <1>5, <1>6 DEF Next

\* For every size, item type and block length, the template's ring is a bounded
\* queue with a peek position, in what every call stores, returns and reports.
THEOREM QueueIsBounded == Spec => QueueSpec
<1>1. Init => Abstract!Init
  <2> SUFFICES ASSUME Init PROVE Abstract!Init
    OBVIOUS
  <2>1. RingItems \in Seq(Values) /\ Len(RingItems) = 0
    BY InitInv, RingHolds DEF Init
  <2>2. RingItems = <<>>
    BY <2>1
  <2> QED BY <2>2 DEF Init, Abstract!Init, RingItems
<1>2. QueueInv /\ [Next]_vars => [Abstract!Next]_(Abstract!queueVars)
  BY RingStepIsQueueStep
<1> QED BY <1>1, <1>2, InvHolds, PTL DEF Spec, QueueSpec, Abstract!Spec
=============================================================================
