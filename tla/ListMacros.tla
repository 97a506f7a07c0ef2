----------------------------- MODULE ListMacros -----------------------------
(***************************************************************************)
(* The macros of src/common/utilities/template/t_list.h, as operators: a   *)
(* list is a pointer and the links of all nodes, next.  A stack is given   *)
(* by its top, a queue by its head and tail.                               *)
(***************************************************************************)
EXTENDS Links

\* LIST_STACK_PUSH(top, node): the node is the new top.
PushNext(next, top, node) == [next EXCEPT ![node] = top]

\* LIST_STACK_POP(top, node): the top is the node; its link is cleared.
PopTop(next, top) == next[top]
PopNext(next, top) == [next EXCEPT ![top] = NULL]

\* LIST_QUEUE_ENQUEUE(head, tail, item), by the tail alone.
EnqueueNext(next, tail, item) ==
  IF tail = NULL THEN [next EXCEPT ![item] = NULL]
  ELSE [next EXCEPT ![tail] = item, ![item] = NULL]
EnqueueHead(head, tail, item) == IF tail = NULL THEN item ELSE head

\* LIST_QUEUE_DEQUEUE(head, tail, item): head and tail after it; the item is the
\* old head, and keeps its link.
DequeueHead(next, head) == IF head = NULL THEN NULL ELSE next[head]
BadDequeueTail(next, head, tail) == tail
DequeueTail(next, head, tail) ==
  IF head # NULL /\ next[head] = NULL THEN NULL ELSE tail

\* list_find(&head, item).
ListFind(next, head, item) == item # NULL /\ item \in Elems(Linked(next, head))
=============================================================================
