----------------------------- MODULE BlockList ------------------------------
(***************************************************************************)
(* src/common/block as it is: two singly linked lists threaded through     *)
(* ptNext, changed with plain loads and stores.  Two contexts call it, the *)
(* main program and an interrupt, which runs to its end before the main    *)
(* program goes on.  Where a call loads a shared pointer that the same     *)
(* call has loaded before, a build may load it again or keep the value in  *)
(* a register: both are allowed.                                           *)
(***************************************************************************)
EXTENDS Links

CONSTANTS
  Blocks,
  MainOps, IsrOps,  \* the calls each context makes
  Preempts          \* the interrupt may be taken inside a call of the main program

ASSUME ListAssumption ==
  /\ NULL \notin Blocks /\ IsFiniteSet(Blocks)
  /\ MainOps \subseteq {"free", "new", "append", "fetch"}
  /\ IsrOps \subseteq {"free", "new", "append", "fetch"}
  /\ Preempts \in BOOLEAN

Contexts == {"main", "isr"}

VARIABLES
  m,      \* mem_blk_fifo_t, and ptNext of each block
  ctx,    \* of each context: the statement it is at, the block it moves and
          \* the pointer it loaded last
  held,   \* the blocks each context may use
  fault   \* NULL was dereferenced

vars == <<m, ctx, held, fault>>

Resting == [at |-> "idle", ptTemp |-> NULL, ptLoad |-> NULL]

\* zero_strm_block_fifo_init; the main program holds the memory.
Init ==
  /\ m = [ptFreeList |-> NULL, ptHead |-> NULL, ptTail |-> NULL,
          ptNext |-> [b \in Blocks |-> NULL]]
  /\ ctx = [c \in Contexts |-> Resting]
  /\ held = [main |-> Blocks, isr |-> {}]
  /\ fault = FALSE

\* c is about to run a statement; the main program waits for the interrupt.
Runs(c, statement) ==
  /\ ~fault
  /\ ctx[c].at = statement
  /\ c = "main" => ctx["isr"].at = "idle"

Goto(c, statement, temp, load) ==
  /\ ctx' = [ctx EXCEPT ![c] = [at |-> statement, ptTemp |-> temp, ptLoad |-> load]]
  /\ UNCHANGED <<held, fault>>

\* The call is over; a block it returns is the caller's, NULL is none.
Return(c, block) ==
  /\ ctx' = [ctx EXCEPT ![c] = Resting]
  /\ held' = [held EXCEPT ![c] = @ \union ({block} \ {NULL})]
  /\ UNCHANGED fault

Fault == fault' = TRUE /\ UNCHANGED <<m, ctx, held>>

---------------------------------------------------------------------------
\* c calls.  A block freed or appended leaves its caller's hands.
Call(c) ==
  /\ Runs(c, "idle")
  /\ c = "isr" => Preempts \/ ctx["main"].at = "idle"
  /\ \E op \in IF c = "main" THEN MainOps ELSE IsrOps :
       \/ /\ op \in {"new", "fetch"}
          /\ Goto(c, op, NULL, NULL)
       \/ /\ op \in {"free", "append"}
          /\ \E b \in held[c] :
               /\ ctx' = [ctx EXCEPT ![c] = [at |-> op, ptTemp |-> b, ptLoad |-> NULL]]
               /\ held' = [held EXCEPT ![c] = @ \ {b}]
          /\ UNCHANGED fault
  /\ UNCHANGED m

\* zero_strm_block_free.
FreeLink(c, b) ==
  /\ Runs(c, "free")
  /\ m' = [m EXCEPT !.ptNext[b] = m.ptFreeList]
  /\ Goto(c, "free.publish", b, NULL)

FreePublish(c, b) ==
  /\ Runs(c, "free.publish")
  /\ m' = [m EXCEPT !.ptFreeList = b]
  /\ Return(c, NULL)

\* zero_strm_block_new.
NewTest(c) ==
  /\ Runs(c, "new")
  /\ \/ m.ptFreeList = NULL /\ Return(c, NULL)
     \/ m.ptFreeList # NULL /\ Goto(c, "new.next", m.ptFreeList, NULL)
  /\ UNCHANGED m

\* The load of p->ptNext.
LoadNext(c, p, statement) ==
  IF p = NULL THEN Fault
  ELSE Goto(c, statement, ctx[c].ptTemp, m.ptNext[p]) /\ UNCHANGED m

NewNext(c, b) ==
  /\ Runs(c, "new.next")
  /\ \E p \in {b, m.ptFreeList} : LoadNext(c, p, "new.pop")

BadNewPop(c, b) ==
  /\ Runs(c, "new.pop")
  /\ Return(c, b) /\ UNCHANGED m
NewPop(c, b) ==
  /\ Runs(c, "new.pop")
  /\ m' = [m EXCEPT !.ptFreeList = ctx[c].ptLoad]
  /\ Return(c, b)

\* zero_strm_block_append: the tail decides between the first block of the
\* queue (tail, then head) and one more (the old tail's link, then tail).
AppendTest(c, b) ==
  /\ Runs(c, "append")
  /\ m' = [m EXCEPT !.ptNext[b] = NULL]
  /\ Goto(c, IF m.ptTail = NULL THEN "append.first" ELSE "append.link", b, m.ptTail)

AppendFirst(c, b) ==
  /\ Runs(c, "append.first")
  /\ m' = [m EXCEPT !.ptTail = b]
  /\ Goto(c, "append.head", b, NULL)

AppendHead(c, b) ==
  /\ Runs(c, "append.head")
  /\ \E p \in {b, m.ptTail} : m' = [m EXCEPT !.ptHead = p]
  /\ Return(c, NULL)

AppendLink(c, b) ==
  /\ Runs(c, "append.link")
  /\ \E p \in {ctx[c].ptLoad, m.ptTail} :
       IF p = NULL THEN Fault
       ELSE m' = [m EXCEPT !.ptNext[p] = b] /\ Goto(c, "append.tail", b, NULL)

AppendTail(c, b) ==
  /\ Runs(c, "append.tail")
  /\ m' = [m EXCEPT !.ptTail = b]
  /\ Return(c, NULL)

\* zero_strm_block_fetch: the last block takes the tail with it.
FetchHead(c) ==
  /\ Runs(c, "fetch")
  /\ \/ m.ptHead = NULL /\ Return(c, NULL)
     \/ m.ptHead # NULL /\ Goto(c, "fetch.test", m.ptHead, NULL)
  /\ UNCHANGED m

FetchTest(c, b) ==
  /\ Runs(c, "fetch.test")
  /\ \E p \in {b, m.ptHead} :
       Goto(c, IF p = m.ptTail THEN "fetch.last" ELSE "fetch.next", b, NULL)
  /\ UNCHANGED m

BadFetchLast(c, b) ==
  /\ Runs(c, "fetch.last")
  /\ Goto(c, "fetch.next", b, NULL) /\ UNCHANGED m
FetchLast(c, b) ==
  /\ Runs(c, "fetch.last")
  /\ m' = [m EXCEPT !.ptTail = NULL]
  /\ Goto(c, "fetch.next", b, NULL)

FetchNext(c, b) ==
  /\ Runs(c, "fetch.next")
  /\ \E p \in {b, m.ptHead} : LoadNext(c, p, "fetch.pop")

FetchPop(c, b) ==
  /\ Runs(c, "fetch.pop")
  /\ m' = [m EXCEPT !.ptHead = ctx[c].ptLoad]
  /\ Goto(c, "fetch.unlink", b, NULL)

FetchUnlink(c, b) ==
  /\ Runs(c, "fetch.unlink")
  /\ m' = [m EXCEPT !.ptNext[b] = NULL]
  /\ Return(c, b)

---------------------------------------------------------------------------
Step(c, b) ==
  \/ FreeLink(c, b) \/ FreePublish(c, b)
  \/ NewTest(c) \/ NewNext(c, b) \/ NewPop(c, b)
  \/ AppendTest(c, b) \/ AppendFirst(c, b) \/ AppendHead(c, b)
  \/ AppendLink(c, b) \/ AppendTail(c, b)
  \/ FetchHead(c) \/ FetchTest(c, b) \/ FetchLast(c, b)
  \/ FetchNext(c, b) \/ FetchPop(c, b) \/ FetchUnlink(c, b)

Next == \E c \in Contexts : Call(c) \/ Step(c, ctx[c].ptTemp)

Spec == Init /\ [][Next]_vars

---------------------------------------------------------------------------
(* Properties.                                                              *)

Chain(p) == Linked(m.ptNext, p)
FreeNow  == Chain(m.ptFreeList)
QueueNow == Chain(m.ptHead)

Idle == \A c \in Contexts : ctx[c].at = "idle"

\* Between calls every block is in exactly one place: on the free list once,
\* in the queue once, or in the hands of one context.
NoBlockLost ==
  Idle => /\ Distinct(FreeNow) /\ Distinct(QueueNow)
          /\ Elems(FreeNow) \intersect Elems(QueueNow) = {}
          /\ held["main"] \intersect held["isr"] = {}
          /\ (held["main"] \union held["isr"])
               = Blocks \ (Elems(FreeNow) \union Elems(QueueNow))

\* Between calls the tail is the end of the chain from the head, so that the
\* next append links to what fetch will reach.
TailIsLast == Idle => m.ptTail = LastOf(QueueNow)

\* Calls that are not interrupted are the abstract ones: each takes effect at
\* one store, the lists being what is linked from the two heads.
Store == INSTANCE BlockStore WITH
           freeList <- FreeNow, fifo <- QueueNow

StoreSpec == Store!Spec

---------------------------------------------------------------------------
(* Why, where no call is interrupted.                                       *)

Pointers == Blocks \union {NULL}
Statements ==
  {"idle", "free", "free.publish", "new", "new.next", "new.pop",
   "append", "append.first", "append.head", "append.link", "append.tail",
   "fetch", "fetch.test", "fetch.last", "fetch.next", "fetch.pop", "fetch.unlink"}

ListTypes ==
  /\ m \in [ptFreeList : Pointers, ptHead : Pointers, ptTail : Pointers,
            ptNext : [Blocks -> Pointers]]
  /\ ctx \in [Contexts -> [at : Statements, ptTemp : Pointers, ptLoad : Pointers]]
  /\ held \in [Contexts -> SUBSET Blocks]
  /\ ~fault

\* The block a call has in hand while it is on neither list.
Carrying == {"free", "free.publish", "append", "append.first", "append.head",
             "append.link", "fetch.unlink"}
InHand(c) == IF ctx[c].at \in Carrying THEN {ctx[c].ptTemp} ELSE {}
Carried == InHand("main") \union InHand("isr")

OnePlace ==
  /\ LinkedIn(Blocks, m.ptNext, FreeNow, m.ptFreeList)
  /\ LinkedIn(Blocks, m.ptNext, QueueNow, m.ptHead)
  /\ Elems(FreeNow) \intersect Elems(QueueNow) = {}
  /\ held["main"] \intersect held["isr"] = {}
  /\ Carried \subseteq Blocks \ (Elems(FreeNow) \union Elems(QueueNow))
  /\ (held["main"] \union held["isr"])
       = Blocks \ (Elems(FreeNow) \union Elems(QueueNow) \union Carried)

\* What a call under way knows of the lists, statement by statement.
MidCall(c) ==
  LET s == ctx[c].at   b == ctx[c].ptTemp   load == ctx[c].ptLoad
  IN  /\ s = "free.publish" => m.ptNext[b] = m.ptFreeList
      /\ s \in {"new.next", "new.pop"} => b = m.ptFreeList /\ b # NULL
      /\ s \in {"new.pop", "fetch.pop"} => load = m.ptNext[b]
      /\ s \in {"append.first", "append.head", "append.link"} => m.ptNext[b] = NULL
      /\ s \in {"append.first", "append.head"} => m.ptHead = NULL
      /\ s = "append.head" => m.ptTail = b
      /\ s = "append.link" => load = m.ptTail /\ load # NULL
      /\ s = "append.tail" => b = LastOf(QueueNow) /\ b # NULL
      /\ s \in {"fetch.test", "fetch.last", "fetch.next", "fetch.pop"} =>
           b = m.ptHead /\ b # NULL
      /\ s = "fetch.last" => m.ptTail = b
      /\ s \in {"fetch.next", "fetch.pop"} => m.ptTail = LastOf(Tail(QueueNow))
      /\ s \notin {"append.head", "append.tail", "fetch.next", "fetch.pop"} =>
           m.ptTail = LastOf(QueueNow)

\* One call at a time, and what it knows; with none, TailIsLast.
ListInv ==
  /\ ListTypes /\ OnePlace
  /\ \E c \in Contexts : MidCall(c) /\ \A d \in Contexts \ {c} : ctx[d].at = "idle"
=============================================================================
