-------------------------------- MODULE Pool --------------------------------
(***************************************************************************)
(* A pool of src/common/utilities/template/t_pool.h, in its safe form      *)
(* (SAFE_ATOM_CODE around every change), and a program that passes the     *)
(* pool's items on through a queue of t_list.h.  Item and link are a       *)
(* union: the first word of an item is its link while it is in the pool or *)
(* in the queue, and the program's while the program holds it.  An item is *)
(* its index in the heap.                                                  *)
(***************************************************************************)
EXTENDS ListMacros

CONSTANTS
  PoolSize,            \* the items the program has memory for
  CounterMod,   \* the number of values of __PTR_TYPE
  DATA          \* a first word that is neither NULL nor used as a link

ASSUME PoolAssumption ==
  /\ PoolSize \in Nat \ {0} /\ CounterMod \in Nat \ {0, 1}
  /\ {NULL, DATA} \intersect Nat = {} /\ DATA # NULL

Items == 1 .. PoolSize

VARIABLES
  ptFreeList,
  poolCounter,  \* tCounter of the pool
  ptHead, ptTail,   \* the program's queue
  word,             \* the first word of every item
  held,             \* the items the program holds
  heap,             \* ghost: the items added so far
  lost              \* ghost: given back, and not taken

itemVars == <<ptFreeList, poolCounter, ptHead, ptTail, word, held, heap, lost>>

\* pool_init, on memory that holds anything.
PoolInit ==
  /\ ptFreeList = NULL /\ poolCounter = 0
  /\ ptHead = NULL /\ ptTail = NULL
  /\ word \in [Items -> {NULL, DATA}]
  /\ held = {} /\ heap = {} /\ lost = {}

\* pool_add_heap: item after item is pushed, the last one ends up on top.
AddHeap(first, top) ==
  /\ first <= top /\ (first .. top) \intersect heap = {}
  /\ heap' = heap \union (first .. top)
  /\ word' = [i \in Items |->
                CASE i = first -> ptFreeList
                  [] i \in first + 1 .. top -> i - 1
                  [] OTHER -> word[i]]
  /\ ptFreeList' = top
  /\ UNCHANGED <<poolCounter, ptHead, ptTail, held, lost>>

\* pool_new of an empty pool returns NULL and changes nothing.
NewItem ==
  /\ ptFreeList # NULL
  /\ held' = held \union {ptFreeList}
  /\ ptFreeList' = PopTop(word, ptFreeList)
  /\ word' = PopNext(word, ptFreeList)
  /\ poolCounter' = (poolCounter + 1) % CounterMod
  /\ UNCHANGED <<ptHead, ptTail, heap, lost>>

\* The program writes to an item it holds.
WriteItem(i) ==
  /\ i \in held
  /\ \E w \in {NULL, DATA} : word' = [word EXCEPT ![i] = w]
  /\ UNCHANGED <<ptFreeList, poolCounter, ptHead, ptTail, held, heap, lost>>

\* An item whose first word is not NULL passes for one that is in a list: one
\* with data, or one that came from the queue and was not the last.
FreeRefused(i) == word[i] # NULL

CountDown == IF poolCounter = 0 THEN 0 ELSE poolCounter - 1

\* pool_free returns nothing: the caller does not learn that it was refused.
FreeItem(i) ==
  /\ i \in held
  /\ held' = held \ {i}
  /\ \/ /\ FreeRefused(i)
        /\ lost' = lost \union {i}
        /\ UNCHANGED <<ptFreeList, poolCounter, word>>
     \/ /\ ~FreeRefused(i)
        /\ word' = PushNext(word, ptFreeList, i)
        /\ ptFreeList' = i
        /\ poolCounter' = CountDown
        /\ UNCHANGED lost
  /\ UNCHANGED <<ptHead, ptTail, heap>>

---------------------------------------------------------------------------
\* LIST_QUEUE_ENQUEUE of an item the program holds.
QueueEnqueue(i) ==
  /\ i \in held
  /\ held' = held \ {i}
  /\ word' = EnqueueNext(word, ptTail, i)
  /\ ptHead' = EnqueueHead(ptHead, ptTail, i)
  /\ ptTail' = i
  /\ UNCHANGED <<ptFreeList, poolCounter, heap, lost>>

\* LIST_QUEUE_DEQUEUE of a queue that is not empty: the item keeps its link.
QueueDequeue ==
  /\ ptHead # NULL
  /\ held' = held \union {ptHead}
  /\ ptHead' = DequeueHead(word, ptHead)
  /\ ptTail' = DequeueTail(word, ptHead, ptTail)
  /\ UNCHANGED <<ptFreeList, poolCounter, word, heap, lost>>

\* LIST_QUEUE_REMOVE: list_find moves a copy of ppList only, so that it is the
\* head that is dequeued when item i is found.
QueueRemove(i) == ListFind(word, ptHead, i) /\ QueueDequeue

PoolNext == \/ \E i, j \in Items : AddHeap(i, j)
            \/ \E i \in Items : \/ WriteItem(i) \/ FreeItem(i)
                                \/ QueueEnqueue(i) \/ QueueRemove(i)
            \/ NewItem \/ QueueDequeue

PoolSpec == PoolInit /\ [][PoolNext]_itemVars

---------------------------------------------------------------------------
(* Properties.                                                              *)

\* Pool and queue stay whole although their links are where the program writes,
\* and although enqueue tells an empty queue by its tail alone: both chains end
\* and share no item, each item of the heap is in one of them, held or lost, and
\* the tail is the last of the queue.  (So no item is handed out twice.)
ListsWhole ==
  LET free == Linked(word, ptFreeList)
      queue == Linked(word, ptHead)
  IN  /\ Distinct(free) /\ Distinct(queue)
      /\ Elems(free) \intersect Elems(queue) = {}
      /\ Elems(free) \union Elems(queue) = heap \ (held \union lost)
      /\ ptTail = IF queue = <<>> THEN NULL ELSE queue[Len(queue)]
=============================================================================
