-------------------------- MODULE BlockList_proofs --------------------------
(***************************************************************************)
(* The linked lists for any number of blocks, where no call interrupts     *)
(* another: what ptNext links from the two heads is the stack and the      *)
(* queue of BlockStore, and the tail ends the queue.                       *)
(***************************************************************************)
EXTENDS BlockList, Lists_proofs

---------------------------------------------------------------------------
(* What every step needs.                                                   *)

\* No block is at address 0, and there are finitely many.
LEMMA NullIsNoBlock == NULL \notin Blocks /\ IsFiniteSet(Blocks)
BY ListAssumption

USE NullIsNoBlock DEF Contexts

LEMMA ListFacts ==
  ASSUME ListInv
  PROVE  /\ m.ptFreeList \in Pointers /\ m.ptHead \in Pointers /\ m.ptTail \in Pointers
         /\ m.ptNext \in [Blocks -> Pointers]
         /\ m = [ptFreeList |-> m.ptFreeList, ptHead |-> m.ptHead, ptTail |-> m.ptTail,
                 ptNext |-> m.ptNext]
         /\ \A c \in Contexts : ctx[c].ptTemp \in Pointers /\ ctx[c].ptLoad \in Pointers
         /\ LinkedIn(Blocks, m.ptNext, FreeNow, m.ptFreeList)
         /\ LinkedIn(Blocks, m.ptNext, QueueNow, m.ptHead)
         /\ Elems(FreeNow) \subseteq Blocks /\ Elems(QueueNow) \subseteq Blocks
         /\ NULL \notin Blocks
BY LinkedFacts, ListAssumption DEF ListInv, ListTypes, OnePlace

\* Only one call is under way, and a statement run belongs to it.
LEMMA Running ==
  ASSUME ListInv, NEW c \in Contexts, NEW statement, Runs(c, statement),
         statement # "idle" \/ \A d \in Contexts : ctx[d].at = "idle"
  PROVE  /\ MidCall(c) /\ ctx[c].at = statement
         /\ \A d \in Contexts \ {c} : ctx[d].at = "idle"
         /\ Carried = InHand(c)
<1>1. PICK w \in Contexts : MidCall(w) /\ \A d \in Contexts \ {w} : ctx[d].at = "idle"
  BY DEF ListInv
<1>2. ctx[c].at = statement
  BY DEF Runs
<1>3. \A d \in Contexts \ {c} : ctx[d].at = "idle"
  BY <1>1, <1>2
<1>4. MidCall(c)
  <2>1. CASE w = c
    BY <1>1, <2>1
  <2>2. CASE w # c
    <3>1. ctx[c].at = "idle" /\ ctx[w].at = "idle"
      BY <1>1, <1>3, <2>2
    <3> QED BY <1>1, <3>1 DEF MidCall
  <2> QED BY <2>1, <2>2
<1>5. \A d \in Contexts \ {c} : InHand(d) = {}
  BY <1>3 DEF InHand, Carrying
<1>6. Carried = InHand(c)
  BY <1>5 DEF Carried
<1> QED BY <1>2, <1>3, <1>4, <1>6

\* The context of a call after a step of it.
LEMMA CtxAfter ==
  ASSUME ListInv, NEW c \in Contexts, NEW at \in Statements,
         NEW temp \in Pointers, NEW load \in Pointers,
         \A d \in Contexts \ {c} : ctx[d].at = "idle",
         ctx' = [ctx EXCEPT ![c] = [at |-> at, ptTemp |-> temp, ptLoad |-> load]]
  PROVE  /\ ctx' \in [Contexts -> [at : Statements, ptTemp : Pointers, ptLoad : Pointers]]
         /\ ctx'[c].at = at /\ ctx'[c].ptTemp = temp /\ ctx'[c].ptLoad = load
         /\ \A d \in Contexts \ {c} : ctx'[d].at = "idle"
         /\ Carried' = IF at \in Carrying THEN {temp} ELSE {}
<1>1. ctx \in [Contexts -> [at : Statements, ptTemp : Pointers, ptLoad : Pointers]]
  BY DEF ListInv, ListTypes
<1>2. /\ ctx' \in [Contexts -> [at : Statements, ptTemp : Pointers, ptLoad : Pointers]]
      /\ ctx'[c].at = at /\ ctx'[c].ptTemp = temp /\ ctx'[c].ptLoad = load
      /\ \A d \in Contexts \ {c} : ctx'[d].at = "idle"
  BY <1>1
<1>3. /\ InHand(c)' = (IF at \in Carrying THEN {temp} ELSE {})
      /\ \A d \in Contexts \ {c} : InHand(d)' = {}
  BY <1>2 DEF InHand, Carrying
<1>4. Carried' = IF at \in Carrying THEN {temp} ELSE {}
  <2>1. Carried' = InHand("main")' \union InHand("isr")'
    BY DEF Carried
  <2> QED BY <1>3, <2>1
<1> QED BY <1>2, <1>4

LEMMA GotoFacts ==
  ASSUME ListInv, NEW c \in Contexts, NEW at \in Statements,
         NEW temp \in Pointers, NEW load \in Pointers,
         \A d \in Contexts \ {c} : ctx[d].at = "idle", Goto(c, at, temp, load)
  PROVE  /\ ctx' \in [Contexts -> [at : Statements, ptTemp : Pointers, ptLoad : Pointers]]
         /\ ctx'[c].at = at /\ ctx'[c].ptTemp = temp /\ ctx'[c].ptLoad = load
         /\ \A d \in Contexts \ {c} : ctx'[d].at = "idle"
         /\ Carried' = (IF at \in Carrying THEN {temp} ELSE {})
         /\ held' = held /\ held' \in [Contexts -> SUBSET Blocks] /\ ~fault'
<1>1. ctx' = [ctx EXCEPT ![c] = [at |-> at, ptTemp |-> temp, ptLoad |-> load]]
  BY DEF Goto
<1>2. held' = held /\ held' \in [Contexts -> SUBSET Blocks] /\ ~fault'
  BY DEF Goto, ListInv, ListTypes
<1> QED BY <1>1, <1>2, CtxAfter

LEMMA ReturnFacts ==
  ASSUME ListInv, NEW c \in Contexts, NEW block \in Pointers,
         \A d \in Contexts \ {c} : ctx[d].at = "idle", Return(c, block),
         block \notin held["main"] \union held["isr"]
  PROVE  /\ ctx' \in [Contexts -> [at : Statements, ptTemp : Pointers, ptLoad : Pointers]]
         /\ ctx'[c].at = "idle"
         /\ \A d \in Contexts \ {c} : ctx'[d].at = "idle"
         /\ Carried' = {}
         /\ held' \in [Contexts -> SUBSET Blocks]
         /\ held'["main"] \intersect held'["isr"] = {}
         /\ held'["main"] \union held'["isr"]
              = (held["main"] \union held["isr"]) \union ({block} \ {NULL})
         /\ ~fault'
<1>1. ctx' = [ctx EXCEPT ![c] = [at |-> "idle", ptTemp |-> NULL, ptLoad |-> NULL]]
  BY DEF Return, Resting
<1>2. "idle" \in Statements /\ NULL \in Pointers /\ "idle" \notin Carrying
  BY DEF Statements, Pointers, Carrying
<1>3. held \in [Contexts -> SUBSET Blocks] /\ held["main"] \intersect held["isr"] = {}
  BY DEF ListInv, ListTypes, OnePlace
<1>4. /\ held' \in [Contexts -> SUBSET Blocks]
      /\ held'[c] = held[c] \union ({block} \ {NULL})
      /\ \A d \in Contexts \ {c} : held'[d] = held[d]
  BY <1>3 DEF Return, Pointers
<1>5. ~fault'
  BY DEF Return, ListInv, ListTypes
<1>6. /\ ctx' \in [Contexts -> [at : Statements, ptTemp : Pointers, ptLoad : Pointers]]
      /\ ctx'[c].at = "idle"
      /\ \A d \in Contexts \ {c} : ctx'[d].at = "idle"
      /\ Carried' = IF "idle" \in Carrying THEN {NULL} ELSE {}
  BY <1>1, <1>2, CtxAfter
<1>7. /\ held'["main"] \intersect held'["isr"] = {}
      /\ held'["main"] \union held'["isr"]
           = (held["main"] \union held["isr"]) \union ({block} \ {NULL})
  <2>1. CASE c = "main"
    BY <1>3, <1>4, <2>1
  <2>2. CASE c = "isr"
    BY <1>3, <1>4, <2>2
  <2> QED BY <2>1, <2>2
<1> QED BY <1>2, <1>4, <1>5, <1>6, <1>7

\* The lists after a step are what is threaded from the heads.
LEMMA NewLists ==
  ASSUME NEW f, NEW q, DOMAIN m'.ptNext = Blocks,
         LinkedIn(Blocks, m'.ptNext, f, m'.ptFreeList), LinkedIn(Blocks, m'.ptNext, q, m'.ptHead)
  PROVE  FreeNow' = f /\ QueueNow' = q
<1>1. Linked(m'.ptNext, m'.ptFreeList) = f /\ Linked(m'.ptNext, m'.ptHead) = q
  <2> DEFINE next == m'.ptNext
  <2>1. ASSUME NEW p, NEW list, LinkedIn(Blocks, next, list, p) PROVE Linked(next, p) = list
    <3> HIDE DEF next
    <3>1. DOMAIN next = Blocks BY DEF next
    <3> QED BY <2>1, <3>1, LinkedIsList
  <2> QED BY <2>1
<1> QED BY <1>1 DEF FreeNow, QueueNow, Chain

\* The parts of the invariant after a step of the call of c.
LEMMA InvAfter ==
  ASSUME NEW c \in Contexts, NEW f, NEW q,
         m' \in [ptFreeList : Pointers, ptHead : Pointers, ptTail : Pointers,
                 ptNext : [Blocks -> Pointers]],
         ctx' \in [Contexts -> [at : Statements, ptTemp : Pointers, ptLoad : Pointers]],
         held' \in [Contexts -> SUBSET Blocks], ~fault',
         \A d \in Contexts \ {c} : ctx'[d].at = "idle",
         LinkedIn(Blocks, m'.ptNext, f, m'.ptFreeList), LinkedIn(Blocks, m'.ptNext, q, m'.ptHead),
         Elems(f) \intersect Elems(q) = {},
         held'["main"] \intersect held'["isr"] = {},
         Carried' \subseteq Blocks \ (Elems(f) \union Elems(q)),
         held'["main"] \union held'["isr"]
           = Blocks \ (Elems(f) \union Elems(q) \union Carried'),
         FreeNow' = f /\ QueueNow' = q => MidCall(c)'
  PROVE  ListInv' /\ FreeNow' = f /\ QueueNow' = q
<1>1. FreeNow' = f /\ QueueNow' = q
  <2>1. DOMAIN m'.ptNext = Blocks
    OBVIOUS
  <2> QED BY <2>1, NewLists
<1>2. ListTypes'
  BY DEF ListTypes
<1>3. OnePlace'
  <2> HIDE DEF Contexts
  <2> QED BY <1>1 DEF OnePlace
<1>4. MidCall(c)'
  BY <1>1
<1> QED BY <1>1, <1>2, <1>3, <1>4 DEF ListInv


---------------------------------------------------------------------------
(* Statement by statement.                                                  *)

\* A call begins only when none is under way; a block it is given leaves its
\* caller's hands.
LEMMA CallKeeps ==
  ASSUME ListInv, Preempts = FALSE, NEW c \in Contexts, Call(c)
  PROVE  ListInv' /\ FreeNow' = FreeNow /\ QueueNow' = QueueNow
<1>1. \A d \in Contexts : ctx[d].at = "idle"
  BY DEF Call, Runs
<1>2. /\ MidCall(c) /\ ctx[c].at = "idle" /\ Carried = {}
      /\ \A d \in Contexts \ {c} : ctx[d].at = "idle"
  <2>1. Runs(c, "idle")
    BY DEF Call
  <2> QED BY <1>1, <2>1, Running DEF InHand, Carrying
<1>3. /\ m' = m /\ m.ptTail = LastOf(QueueNow)
  BY <1>2 DEF Call, MidCall
<1>4. /\ m' \in [ptFreeList : Pointers, ptHead : Pointers, ptTail : Pointers,
                 ptNext : [Blocks -> Pointers]]
      /\ LinkedIn(Blocks, m'.ptNext, FreeNow, m'.ptFreeList)
      /\ LinkedIn(Blocks, m'.ptNext, QueueNow, m'.ptHead)
  BY <1>3 DEF ListInv, ListTypes, OnePlace
<1>5. /\ Elems(FreeNow) \intersect Elems(QueueNow) = {}
      /\ held["main"] \intersect held["isr"] = {}
      /\ held["main"] \union held["isr"] = Blocks \ (Elems(FreeNow) \union Elems(QueueNow))
      /\ held \in [Contexts -> SUBSET Blocks]
      /\ ctx \in [Contexts -> [at : Statements, ptTemp : Pointers, ptLoad : Pointers]]
      /\ ~fault
  BY <1>2 DEF ListInv, ListTypes, OnePlace
<1>6. ASSUME NEW op \in {"new", "fetch"}, Goto(c, op, NULL, NULL)
      PROVE  ListInv' /\ FreeNow' = FreeNow /\ QueueNow' = QueueNow
  <2>1. op \in Statements /\ NULL \in Pointers /\ op \notin Carrying
    BY DEF Statements, Pointers, Carrying
  <2>2. /\ ctx' \in [Contexts -> [at : Statements, ptTemp : Pointers, ptLoad : Pointers]]
        /\ ctx'[c].at = op /\ \A d \in Contexts \ {c} : ctx'[d].at = "idle"
        /\ Carried' = {} /\ held' = held /\ ~fault'
    BY <1>2, <1>6, <2>1, GotoFacts
  <2>3. FreeNow' = FreeNow /\ QueueNow' = QueueNow => MidCall(c)'
    BY <1>3, <2>2 DEF MidCall
  <2> QED BY <1>4, <1>5, <2>2, <2>3, InvAfter
<1>7. ASSUME NEW op \in {"free", "append"}, NEW b \in held[c],
             ctx' = [ctx EXCEPT ![c] = [at |-> op, ptTemp |-> b, ptLoad |-> NULL]],
             held' = [held EXCEPT ![c] = @ \ {b}], fault' = fault
      PROVE  ListInv' /\ FreeNow' = FreeNow /\ QueueNow' = QueueNow
  <2>1. op \in Statements /\ op \in Carrying /\ b \in Blocks /\ b \in Pointers
    BY <1>5 DEF Statements, Carrying, Pointers
  <2>3. /\ ctx' \in [Contexts -> [at : Statements, ptTemp : Pointers, ptLoad : Pointers]]
        /\ ctx'[c].at = op /\ \A d \in Contexts \ {c} : ctx'[d].at = "idle"
        /\ Carried' = {b}
    <3>1. NULL \in Pointers
      BY DEF Pointers
    <3> QED BY <1>2, <1>7, <2>1, <3>1, CtxAfter
  <2>4. /\ held' \in [Contexts -> SUBSET Blocks]
        /\ held'["main"] \intersect held'["isr"] = {}
        /\ held'["main"] \union held'["isr"] = (held["main"] \union held["isr"]) \ {b}
    <3>1. CASE c = "main"
      BY <1>5, <1>7, <3>1
    <3>2. CASE c = "isr"
      BY <1>5, <1>7, <3>2
    <3> QED BY <3>1, <3>2
  <2>5. /\ Carried' \subseteq Blocks \ (Elems(FreeNow) \union Elems(QueueNow))
        /\ held'["main"] \union held'["isr"]
             = Blocks \ (Elems(FreeNow) \union Elems(QueueNow) \union Carried')
    <3>1. b \in held["main"] \union held["isr"]
      OBVIOUS
    <3> QED BY <1>5, <2>3, <2>4, <3>1
  <2>6. FreeNow' = FreeNow /\ QueueNow' = QueueNow => MidCall(c)'
    BY <1>3, <2>3 DEF MidCall
  <2>7. ~fault'
    BY <1>5, <1>7
  <2> QED BY <1>4, <1>5, <2>3, <2>4, <2>5, <2>6, <2>7, InvAfter
<1>8. PICK op \in IF c = "main" THEN MainOps ELSE IsrOps :
        \/ op \in {"new", "fetch"} /\ Goto(c, op, NULL, NULL)
        \/ /\ op \in {"free", "append"}
           /\ \E b \in held[c] :
                /\ ctx' = [ctx EXCEPT ![c] = [at |-> op, ptTemp |-> b, ptLoad |-> NULL]]
                /\ held' = [held EXCEPT ![c] = @ \ {b}]
           /\ UNCHANGED fault
  BY DEF Call
<1> QED BY <1>6, <1>7, <1>8

\* The calls for NULL, and a load of a link or of a head: nothing is stored.
LEMMA LooksKeep ==
  ASSUME ListInv, NEW c \in Contexts, NEW b, b = ctx[c].ptTemp,
         NewTest(c) \/ NewNext(c, b) \/ FetchHead(c) \/ FetchTest(c, b) \/ FetchNext(c, b)
  PROVE  ListInv' /\ FreeNow' = FreeNow /\ QueueNow' = QueueNow
<1>1. PICK s \in {"new", "new.next", "fetch", "fetch.test", "fetch.next"} : Runs(c, s)
  BY DEF NewTest, NewNext, FetchHead, FetchTest, FetchNext
<1>2. /\ MidCall(c) /\ ctx[c].at = s /\ Carried = {}
      /\ \A d \in Contexts \ {c} : ctx[d].at = "idle"
  BY <1>1, Running DEF InHand, Carrying
<1>3. /\ m.ptFreeList \in Pointers /\ m.ptHead \in Pointers /\ m.ptTail \in Pointers
      /\ m.ptNext \in [Blocks -> Pointers]
      /\ LinkedIn(Blocks, m.ptNext, FreeNow, m.ptFreeList)
      /\ LinkedIn(Blocks, m.ptNext, QueueNow, m.ptHead)
      /\ b \in Pointers /\ NULL \in Pointers /\ NULL \notin Blocks
  BY ListFacts DEF Pointers
<1>4. /\ s \in {"new", "fetch"} => m.ptTail = LastOf(QueueNow)
      /\ s = "new.next" => b = m.ptFreeList /\ b # NULL /\ m.ptTail = LastOf(QueueNow)
      /\ s = "fetch.test" => b = m.ptHead /\ b # NULL /\ m.ptTail = LastOf(QueueNow)
      /\ s = "fetch.next" => b = m.ptHead /\ b # NULL /\ m.ptTail = LastOf(Tail(QueueNow))
  BY <1>2 DEF MidCall
<1>5. \/ Return(c, NULL) /\ s \in {"new", "fetch"}
      \/ s = "new" /\ m.ptFreeList # NULL /\ Goto(c, "new.next", m.ptFreeList, NULL)
      \/ s = "new.next" /\ Goto(c, "new.pop", b, m.ptNext[b])
      \/ s = "fetch" /\ m.ptHead # NULL /\ Goto(c, "fetch.test", m.ptHead, NULL)
      \/ s = "fetch.test" /\ b = m.ptTail /\ Goto(c, "fetch.last", b, NULL)
      \/ s = "fetch.test" /\ b # m.ptTail /\ Goto(c, "fetch.next", b, NULL)
      \/ s = "fetch.next" /\ Goto(c, "fetch.pop", b, m.ptNext[b])
  BY <1>2, <1>4 DEF NewTest, NewNext, FetchHead, FetchTest, FetchNext, LoadNext, Runs
<1>6. m' = m
  BY <1>2, <1>4 DEF NewTest, NewNext, FetchHead, FetchTest, FetchNext, LoadNext, Runs
<1>7. /\ m' \in [ptFreeList : Pointers, ptHead : Pointers, ptTail : Pointers,
                 ptNext : [Blocks -> Pointers]]
      /\ LinkedIn(Blocks, m'.ptNext, FreeNow, m'.ptFreeList)
      /\ LinkedIn(Blocks, m'.ptNext, QueueNow, m'.ptHead)
  BY <1>6 DEF ListInv, ListTypes, OnePlace
<1>8. /\ Elems(FreeNow) \intersect Elems(QueueNow) = {}
      /\ held["main"] \intersect held["isr"] = {}
      /\ held["main"] \union held["isr"] = Blocks \ (Elems(FreeNow) \union Elems(QueueNow))
  BY <1>2 DEF ListInv, ListTypes, OnePlace
<1>9. /\ m.ptHead # NULL => /\ QueueNow # <<>> /\ m.ptHead = QueueNow[1]
                            /\ QueueNow \in Seq(Blocks) /\ Distinct(QueueNow)
      /\ \A p \in Blocks : m.ptNext[p] \in Pointers
  BY <1>3, LinkedFacts
<1>10. CASE Return(c, NULL) /\ s \in {"new", "fetch"}
  <2>1. NULL \notin held["main"] \union held["isr"]
    BY <1>3, <1>8
  <2>2. /\ ctx' \in [Contexts -> [at : Statements, ptTemp : Pointers, ptLoad : Pointers]]
        /\ ctx'[c].at = "idle"
        /\ \A d \in Contexts \ {c} : ctx'[d].at = "idle"
        /\ Carried' = {} /\ held' \in [Contexts -> SUBSET Blocks]
        /\ held'["main"] \intersect held'["isr"] = {}
        /\ held'["main"] \union held'["isr"]
              = (held["main"] \union held["isr"]) \union ({NULL} \ {NULL})
        /\ ~fault'
    BY <1>2, <1>3, <1>10, <2>1, ReturnFacts
  <2>3. FreeNow' = FreeNow /\ QueueNow' = QueueNow => MidCall(c)'
    BY <1>4, <1>6, <1>10, <2>2 DEF MidCall
  <2> QED BY <1>7, <1>8, <2>2, <2>3, InvAfter
<1>11. ASSUME NEW at \in {"new.next", "new.pop", "fetch.test", "fetch.last", "fetch.next", "fetch.pop"},
              NEW temp \in Pointers, NEW load \in Pointers, Goto(c, at, temp, load),
              at \in {"new.next", "new.pop"} =>
                temp = m.ptFreeList /\ temp # NULL /\ m.ptTail = LastOf(QueueNow),
              at \in {"fetch.test", "fetch.last", "fetch.next", "fetch.pop"} =>
                temp = m.ptHead /\ temp # NULL,
              at \in {"new.pop", "fetch.pop"} => load = m.ptNext[temp],
              at \in {"fetch.test", "fetch.last"} => m.ptTail = LastOf(QueueNow),
              at = "fetch.last" => m.ptTail = temp,
              at \in {"fetch.next", "fetch.pop"} => m.ptTail = LastOf(Tail(QueueNow))
       PROVE  ListInv' /\ FreeNow' = FreeNow /\ QueueNow' = QueueNow
  <2>1. at \in Statements /\ at \notin Carrying
    BY DEF Statements, Carrying
  <2>2. /\ ctx' \in [Contexts -> [at : Statements, ptTemp : Pointers, ptLoad : Pointers]]
        /\ ctx'[c].at = at /\ ctx'[c].ptTemp = temp /\ ctx'[c].ptLoad = load
        /\ \A d \in Contexts \ {c} : ctx'[d].at = "idle"
        /\ Carried' = {} /\ held' = held /\ held' \in [Contexts -> SUBSET Blocks] /\ ~fault'
    BY <1>2, <1>11, <2>1, GotoFacts
  <2>3. FreeNow' = FreeNow /\ QueueNow' = QueueNow => MidCall(c)'
    BY <1>6, <1>11, <2>2 DEF MidCall
  <2> QED BY <1>7, <1>8, <2>2, <2>3, InvAfter
<1>12. CASE s = "new" /\ m.ptFreeList # NULL /\ Goto(c, "new.next", m.ptFreeList, NULL)
  BY <1>3, <1>4, <1>11, <1>12
<1>13. CASE s = "new.next" /\ Goto(c, "new.pop", b, m.ptNext[b])
  <2>1. m.ptNext[b] \in Pointers
    BY <1>3, <1>4, <1>9, <1>13 DEF Pointers
  <2> QED BY <1>3, <1>4, <1>11, <1>13, <2>1
<1>14. CASE s = "fetch" /\ m.ptHead # NULL /\ Goto(c, "fetch.test", m.ptHead, NULL)
  BY <1>3, <1>4, <1>11, <1>14
<1>15. CASE s = "fetch.test" /\ b = m.ptTail /\ Goto(c, "fetch.last", b, NULL)
  BY <1>3, <1>4, <1>11, <1>15
<1>16. CASE s = "fetch.test" /\ b # m.ptTail /\ Goto(c, "fetch.next", b, NULL)
  <2>1. m.ptTail = LastOf(Tail(QueueNow))
    BY <1>4, <1>9, <1>16, LastOfLists
  <2> QED BY <1>3, <1>4, <1>11, <1>16, <2>1
<1>17. CASE s = "fetch.next" /\ Goto(c, "fetch.pop", b, m.ptNext[b])
  <2>1. m.ptNext[b] \in Pointers
    BY <1>3, <1>4, <1>9, <1>17 DEF Pointers
  <2> QED BY <1>3, <1>4, <1>11, <1>17, <2>1
<1> QED BY <1>5, <1>10, <1>12, <1>13, <1>14, <1>15, <1>16, <1>17


\* Stores that touch neither list: to a link of the block in hand, or to the
\* tail.  b comes back to its caller with the last of them.
LEMMA AsideKeeps ==
  ASSUME ListInv, NEW c \in Contexts, NEW b, b = ctx[c].ptTemp,
         \/ FreeLink(c, b) \/ AppendTest(c, b) \/ AppendFirst(c, b) \/ AppendTail(c, b)
         \/ FetchLast(c, b) \/ FetchUnlink(c, b)
  PROVE  ListInv' /\ FreeNow' = FreeNow /\ QueueNow' = QueueNow
<1>1. PICK s \in {"free", "append", "append.first", "append.tail", "fetch.last", "fetch.unlink"} :
        Runs(c, s)
  BY DEF FreeLink, AppendTest, AppendFirst, AppendTail, FetchLast, FetchUnlink
<1>2. /\ MidCall(c) /\ ctx[c].at = s /\ Carried = InHand(c)
      /\ \A d \in Contexts \ {c} : ctx[d].at = "idle"
  BY <1>1, Running
<1>3. /\ m.ptFreeList \in Pointers /\ m.ptHead \in Pointers /\ m.ptTail \in Pointers
      /\ m.ptNext \in [Blocks -> Pointers]
      /\ m = [ptFreeList |-> m.ptFreeList, ptHead |-> m.ptHead, ptTail |-> m.ptTail,
              ptNext |-> m.ptNext]
      /\ LinkedIn(Blocks, m.ptNext, FreeNow, m.ptFreeList)
      /\ LinkedIn(Blocks, m.ptNext, QueueNow, m.ptHead)
      /\ Elems(FreeNow) \subseteq Blocks /\ Elems(QueueNow) \subseteq Blocks
      /\ b \in Pointers /\ NULL \in Pointers /\ NULL \notin Blocks
  BY ListFacts DEF Pointers
<1>4. /\ Elems(FreeNow) \intersect Elems(QueueNow) = {}
      /\ held["main"] \intersect held["isr"] = {}
      /\ Carried \subseteq Blocks \ (Elems(FreeNow) \union Elems(QueueNow))
      /\ held["main"] \union held["isr"]
           = Blocks \ (Elems(FreeNow) \union Elems(QueueNow) \union Carried)
      /\ held \in [Contexts -> SUBSET Blocks] /\ ~fault
  BY DEF ListInv, ListTypes, OnePlace
<1>5. s \in Carrying => Carried = {b} /\ b \in Blocks \ (Elems(FreeNow) \union Elems(QueueNow))
  BY <1>2, <1>4 DEF InHand
<1>6. s \notin Carrying => Carried = {}
  BY <1>2 DEF InHand
<1>7. /\ s \in {"free", "append", "append.first", "fetch.last", "fetch.unlink"} =>
           (s # "fetch.last" => m.ptTail = LastOf(QueueNow))
      /\ s = "append.first" => m.ptNext[b] = NULL /\ m.ptHead = NULL
      /\ s = "append.tail" => b = LastOf(QueueNow) /\ b # NULL
      /\ s = "fetch.last" => b = m.ptHead /\ b # NULL /\ m.ptTail = b /\ m.ptTail = LastOf(QueueNow)
  BY <1>2 DEF MidCall
<1>8. ASSUME NEW next, NEW tail \in Pointers,
             \/ next = m.ptNext
             \/ \E x \in Pointers : /\ next = [m.ptNext EXCEPT ![b] = x]
                                    /\ b \in Blocks \ (Elems(FreeNow) \union Elems(QueueNow)),
             m' = [m EXCEPT !.ptNext = next, !.ptTail = tail]
      PROVE  /\ m' \in [ptFreeList : Pointers, ptHead : Pointers, ptTail : Pointers,
                        ptNext : [Blocks -> Pointers]]
             /\ LinkedIn(Blocks, m'.ptNext, FreeNow, m'.ptFreeList)
             /\ LinkedIn(Blocks, m'.ptNext, QueueNow, m'.ptHead)
             /\ m'.ptFreeList = m.ptFreeList /\ m'.ptHead = m.ptHead
             /\ m'.ptNext = next /\ m'.ptTail = tail
  <2>1. /\ m'.ptFreeList = m.ptFreeList /\ m'.ptHead = m.ptHead
        /\ m'.ptNext = next /\ m'.ptTail = tail
    BY <1>3, <1>8
  <2>2. /\ next \in [Blocks -> Pointers]
        /\ LinkedIn(Blocks, next, FreeNow, m.ptFreeList)
        /\ LinkedIn(Blocks, next, QueueNow, m.ptHead)
    BY <1>3, <1>8, OtherLink
  <2>3. m' \in [ptFreeList : Pointers, ptHead : Pointers, ptTail : Pointers,
                ptNext : [Blocks -> Pointers]]
    BY <1>3, <1>8, <2>2
  <2> QED BY <2>1, <2>2, <2>3
<1>9. ASSUME NEW at \in Statements, Goto(c, at, b, NULL) \/ Goto(c, at, b, m.ptTail),
             at \in Carrying <=> s \in Carrying
      PROVE  /\ ctx' \in [Contexts -> [at : Statements, ptTemp : Pointers, ptLoad : Pointers]]
             /\ ctx'[c].at = at /\ ctx'[c].ptTemp = b
             /\ Goto(c, at, b, m.ptTail) => ctx'[c].ptLoad = m.ptTail
             /\ \A d \in Contexts \ {c} : ctx'[d].at = "idle"
             /\ Carried' = Carried /\ held' = held
             /\ held' \in [Contexts -> SUBSET Blocks] /\ ~fault'
  <2>1. PICK load \in Pointers :
          Goto(c, at, b, load) /\ (Goto(c, at, b, m.ptTail) => load = m.ptTail)
    BY <1>3, <1>9
  <2>2. /\ ctx' \in [Contexts -> [at : Statements, ptTemp : Pointers, ptLoad : Pointers]]
        /\ ctx'[c].at = at /\ ctx'[c].ptTemp = b /\ ctx'[c].ptLoad = load
        /\ \A d \in Contexts \ {c} : ctx'[d].at = "idle"
        /\ Carried' = (IF at \in Carrying THEN {b} ELSE {})
        /\ held' = held /\ held' \in [Contexts -> SUBSET Blocks] /\ ~fault'
    BY <1>2, <1>3, <2>1, GotoFacts
  <2>3. Carried' = Carried
    BY <1>5, <1>6, <1>9, <2>2
  <2> QED BY <2>1, <2>2, <2>3
<1> USE DEF Carrying, Statements
<1>10. CASE FreeLink(c, b)
  <2>1. s = "free" /\ Goto(c, "free.publish", b, NULL)
        /\ m' = [m EXCEPT !.ptNext[b] = m.ptFreeList]
    BY <1>2, <1>10 DEF FreeLink, Runs
  <2>2. m' = [m EXCEPT !.ptNext = [m.ptNext EXCEPT ![b] = m.ptFreeList], !.ptTail = m.ptTail]
    BY <1>3, <2>1
  <2>3. b \in Blocks \ (Elems(FreeNow) \union Elems(QueueNow))
    BY <1>5, <2>1
  <2>4. /\ m' \in [ptFreeList : Pointers, ptHead : Pointers, ptTail : Pointers,
                   ptNext : [Blocks -> Pointers]]
        /\ LinkedIn(Blocks, m'.ptNext, FreeNow, m'.ptFreeList)
        /\ LinkedIn(Blocks, m'.ptNext, QueueNow, m'.ptHead)
        /\ m'.ptFreeList = m.ptFreeList /\ m'.ptTail = m.ptTail
        /\ m'.ptNext = [m.ptNext EXCEPT ![b] = m.ptFreeList]
    BY <1>3, <1>8, <2>2, <2>3
  <2>5. m'.ptNext[b] = m'.ptFreeList
    BY <1>3, <2>3, <2>4
  <2>6. FreeNow' = FreeNow /\ QueueNow' = QueueNow => MidCall(c)'
    BY <1>7, <1>9, <2>1, <2>4, <2>5 DEF MidCall
  <2> QED BY <1>4, <1>9, <2>1, <2>4, <2>6, InvAfter
<1>11. CASE AppendTest(c, b)
  <2>1. s = "append" /\ m' = [m EXCEPT !.ptNext[b] = NULL]
        /\ Goto(c, IF m.ptTail = NULL THEN "append.first" ELSE "append.link", b, m.ptTail)
    BY <1>2, <1>11 DEF AppendTest, Runs
  <2>2. m' = [m EXCEPT !.ptNext = [m.ptNext EXCEPT ![b] = NULL], !.ptTail = m.ptTail]
    BY <1>3, <2>1
  <2>3. b \in Blocks \ (Elems(FreeNow) \union Elems(QueueNow))
    BY <1>5, <2>1
  <2>4. /\ m' \in [ptFreeList : Pointers, ptHead : Pointers, ptTail : Pointers,
                   ptNext : [Blocks -> Pointers]]
        /\ LinkedIn(Blocks, m'.ptNext, FreeNow, m'.ptFreeList)
        /\ LinkedIn(Blocks, m'.ptNext, QueueNow, m'.ptHead)
        /\ m'.ptHead = m.ptHead /\ m'.ptTail = m.ptTail
        /\ m'.ptNext = [m.ptNext EXCEPT ![b] = NULL]
    BY <1>3, <1>8, <2>2, <2>3
  <2>5. m'.ptNext[b] = NULL
    BY <1>3, <2>3, <2>4
  <2>6. m.ptTail = LastOf(QueueNow) /\ (m.ptTail = NULL => m.ptHead = NULL)
    <3>1. m.ptTail = LastOf(QueueNow)
      BY <1>7, <2>1
    <3> QED BY <1>3, <3>1, LinkedFacts, LastOfLists
  <2>7. CASE m.ptTail = NULL
    <3>1. Goto(c, "append.first", b, m.ptTail)
      BY <2>1, <2>7
    <3>2. FreeNow' = FreeNow /\ QueueNow' = QueueNow => MidCall(c)'
      BY <1>9, <2>1, <2>4, <2>5, <2>6, <2>7, <3>1 DEF MidCall
    <3> QED BY <1>4, <1>9, <2>1, <2>4, <3>1, <3>2, InvAfter
  <2>8. CASE m.ptTail # NULL
    <3>1. Goto(c, "append.link", b, m.ptTail)
      BY <2>1, <2>8
    <3>2. FreeNow' = FreeNow /\ QueueNow' = QueueNow => MidCall(c)'
      BY <1>9, <2>1, <2>4, <2>5, <2>6, <2>8, <3>1 DEF MidCall
    <3> QED BY <1>4, <1>9, <2>1, <2>4, <3>1, <3>2, InvAfter
  <2> QED BY <2>7, <2>8
<1>12. CASE AppendFirst(c, b)
  <2>1. s = "append.first" /\ Goto(c, "append.head", b, NULL) /\ m' = [m EXCEPT !.ptTail = b]
    BY <1>2, <1>12 DEF AppendFirst, Runs
  <2>2. m' = [m EXCEPT !.ptNext = m.ptNext, !.ptTail = b]
    BY <1>3, <2>1
  <2>3. /\ m' \in [ptFreeList : Pointers, ptHead : Pointers, ptTail : Pointers,
                   ptNext : [Blocks -> Pointers]]
        /\ LinkedIn(Blocks, m'.ptNext, FreeNow, m'.ptFreeList)
        /\ LinkedIn(Blocks, m'.ptNext, QueueNow, m'.ptHead)
        /\ m'.ptHead = m.ptHead /\ m'.ptTail = b /\ m'.ptNext = m.ptNext
    BY <1>3, <1>8, <2>2
  <2>4. FreeNow' = FreeNow /\ QueueNow' = QueueNow => MidCall(c)'
    BY <1>7, <1>9, <2>1, <2>3 DEF MidCall
  <2> QED BY <1>4, <1>9, <2>1, <2>3, <2>4, InvAfter
<1>13. CASE FetchLast(c, b)
  <2>1. s = "fetch.last" /\ Goto(c, "fetch.next", b, NULL) /\ m' = [m EXCEPT !.ptTail = NULL]
    BY <1>2, <1>13 DEF FetchLast, Runs
  <2>2. m' = [m EXCEPT !.ptNext = m.ptNext, !.ptTail = NULL]
    BY <1>3, <2>1
  <2>3. /\ m' \in [ptFreeList : Pointers, ptHead : Pointers, ptTail : Pointers,
                   ptNext : [Blocks -> Pointers]]
        /\ LinkedIn(Blocks, m'.ptNext, FreeNow, m'.ptFreeList)
        /\ LinkedIn(Blocks, m'.ptNext, QueueNow, m'.ptHead)
        /\ m'.ptHead = m.ptHead /\ m'.ptTail = NULL
    BY <1>3, <1>8, <2>2
  <2>4. LastOf(Tail(QueueNow)) = NULL
    BY <1>3, <1>7, <2>1, LinkedFacts, LastOfLists
  <2>5. FreeNow' = FreeNow /\ QueueNow' = QueueNow => MidCall(c)'
    BY <1>7, <1>9, <2>1, <2>3, <2>4 DEF MidCall
  <2> QED BY <1>4, <1>9, <2>1, <2>3, <2>5, InvAfter
<1>14. CASE AppendTail(c, b)
  <2>1. s = "append.tail" /\ Return(c, NULL) /\ m' = [m EXCEPT !.ptTail = b]
    BY <1>2, <1>14 DEF AppendTail, Runs
  <2>2. m' = [m EXCEPT !.ptNext = m.ptNext, !.ptTail = b]
    BY <1>3, <2>1
  <2>3. /\ m' \in [ptFreeList : Pointers, ptHead : Pointers, ptTail : Pointers,
                   ptNext : [Blocks -> Pointers]]
        /\ LinkedIn(Blocks, m'.ptNext, FreeNow, m'.ptFreeList)
        /\ LinkedIn(Blocks, m'.ptNext, QueueNow, m'.ptHead)
        /\ m'.ptTail = b
    BY <1>3, <1>8, <2>2
  <2>4. NULL \notin held["main"] \union held["isr"]
    BY <1>3, <1>4
  <2>5. /\ ctx' \in [Contexts -> [at : Statements, ptTemp : Pointers, ptLoad : Pointers]]
        /\ ctx'[c].at = "idle"
        /\ \A d \in Contexts \ {c} : ctx'[d].at = "idle"
        /\ Carried' = {} /\ held' \in [Contexts -> SUBSET Blocks]
        /\ held'["main"] \intersect held'["isr"] = {}
        /\ held'["main"] \union held'["isr"]
              = (held["main"] \union held["isr"]) \union ({NULL} \ {NULL})
        /\ ~fault'
    BY <1>2, <1>3, <2>1, <2>4, ReturnFacts
  <2>6. FreeNow' = FreeNow /\ QueueNow' = QueueNow => MidCall(c)'
    BY <1>7, <2>1, <2>3, <2>5 DEF MidCall
  <2> QED BY <1>4, <1>6, <2>1, <2>3, <2>5, <2>6, InvAfter
<1>15. CASE FetchUnlink(c, b)
  <2>1. s = "fetch.unlink" /\ Return(c, b) /\ m' = [m EXCEPT !.ptNext[b] = NULL]
    BY <1>2, <1>15 DEF FetchUnlink, Runs
  <2>2. m' = [m EXCEPT !.ptNext = [m.ptNext EXCEPT ![b] = NULL], !.ptTail = m.ptTail]
    BY <1>3, <2>1
  <2>3. b \in Blocks \ (Elems(FreeNow) \union Elems(QueueNow)) /\ Carried = {b}
    BY <1>5, <2>1
  <2>4. /\ m' \in [ptFreeList : Pointers, ptHead : Pointers, ptTail : Pointers,
                   ptNext : [Blocks -> Pointers]]
        /\ LinkedIn(Blocks, m'.ptNext, FreeNow, m'.ptFreeList)
        /\ LinkedIn(Blocks, m'.ptNext, QueueNow, m'.ptHead)
        /\ m'.ptTail = m.ptTail
    BY <1>3, <1>8, <2>2, <2>3
  <2>5. /\ ctx' \in [Contexts -> [at : Statements, ptTemp : Pointers, ptLoad : Pointers]]
        /\ ctx'[c].at = "idle"
        /\ \A d \in Contexts \ {c} : ctx'[d].at = "idle"
        /\ Carried' = {} /\ held' \in [Contexts -> SUBSET Blocks]
        /\ held'["main"] \intersect held'["isr"] = {}
        /\ held'["main"] \union held'["isr"]
              = (held["main"] \union held["isr"]) \union ({b} \ {NULL})
        /\ ~fault'
    <3>1. b \notin held["main"] \union held["isr"]
      BY <1>4, <2>3
    <3> QED BY <1>2, <1>3, <2>1, <3>1, ReturnFacts
  <2>6. held'["main"] \union held'["isr"]
          = Blocks \ (Elems(FreeNow) \union Elems(QueueNow) \union Carried')
    BY <1>3, <1>4, <2>3, <2>5
  <2>7. FreeNow' = FreeNow /\ QueueNow' = QueueNow => MidCall(c)'
    BY <1>7, <2>1, <2>4, <2>5 DEF MidCall
  <2> QED BY <1>4, <2>4, <2>5, <2>6, <2>7, InvAfter
<1> QED BY <1>10, <1>11, <1>12, <1>13, <1>14, <1>15


\* The store that frees a block.
LEMMA FreePublishKeeps ==
  ASSUME ListInv, NEW c \in Contexts, NEW b, b = ctx[c].ptTemp, FreePublish(c, b)
  PROVE  /\ ListInv'
         /\ b \in Blocks \ (Elems(FreeNow) \union Elems(QueueNow))
         /\ FreeNow' = <<b>> \o FreeNow /\ QueueNow' = QueueNow
<1>1. /\ MidCall(c) /\ ctx[c].at = "free.publish" /\ Carried = {b}
      /\ \A d \in Contexts \ {c} : ctx[d].at = "idle"
  BY Running DEF FreePublish, InHand, Carrying
<1>2. /\ m.ptNext[b] = m.ptFreeList /\ m.ptTail = LastOf(QueueNow)
  BY <1>1 DEF MidCall
<1>3. /\ m.ptHead \in Pointers /\ m.ptTail \in Pointers /\ m.ptNext \in [Blocks -> Pointers]
      /\ m = [ptFreeList |-> m.ptFreeList, ptHead |-> m.ptHead, ptTail |-> m.ptTail,
              ptNext |-> m.ptNext]
      /\ LinkedIn(Blocks, m.ptNext, FreeNow, m.ptFreeList)
      /\ LinkedIn(Blocks, m.ptNext, QueueNow, m.ptHead)
      /\ NULL \in Pointers /\ NULL \notin Blocks
  BY ListFacts DEF Pointers
<1>4. /\ Elems(FreeNow) \intersect Elems(QueueNow) = {}
      /\ b \in Blocks \ (Elems(FreeNow) \union Elems(QueueNow)) /\ b \in Pointers
      /\ held["main"] \union held["isr"]
           = Blocks \ (Elems(FreeNow) \union Elems(QueueNow) \union {b})
  BY <1>1 DEF ListInv, OnePlace, Pointers
<1>5. m' = [m EXCEPT !.ptFreeList = b] /\ Return(c, NULL)
  BY DEF FreePublish
<1>6. /\ m'.ptFreeList = b /\ m'.ptHead = m.ptHead /\ m'.ptTail = m.ptTail /\ m'.ptNext = m.ptNext
      /\ m' \in [ptFreeList : Pointers, ptHead : Pointers, ptTail : Pointers,
                 ptNext : [Blocks -> Pointers]]
  BY <1>3, <1>4, <1>5
<1> DEFINE f == <<b>> \o FreeNow
<1>7. LinkedIn(Blocks, m.ptNext, f, b) /\ Elems(f) = Elems(FreeNow) \union {b}
  BY <1>2, <1>3, <1>4, LinkedPush
<1> HIDE DEF f
<1>8. /\ ctx' \in [Contexts -> [at : Statements, ptTemp : Pointers, ptLoad : Pointers]]
      /\ ctx'[c].at = "idle"
      /\ \A d \in Contexts \ {c} : ctx'[d].at = "idle"
      /\ Carried' = {} /\ held' \in [Contexts -> SUBSET Blocks]
      /\ held'["main"] \intersect held'["isr"] = {}
      /\ held'["main"] \union held'["isr"]
            = (held["main"] \union held["isr"]) \union ({NULL} \ {NULL})
      /\ ~fault'
  <2>1. NULL \notin held["main"] \union held["isr"]
    BY <1>3, <1>4
  <2> QED BY <1>1, <1>3, <1>5, <2>1, ReturnFacts
<1>9. /\ Elems(f) \intersect Elems(QueueNow) = {}
      /\ held'["main"] \union held'["isr"]
           = Blocks \ (Elems(f) \union Elems(QueueNow) \union Carried')
  BY <1>4, <1>7, <1>8
<1>10. FreeNow' = f /\ QueueNow' = QueueNow => MidCall(c)'
  BY <1>2, <1>6, <1>8 DEF MidCall
<1>11. ListInv' /\ FreeNow' = f /\ QueueNow' = QueueNow
  BY <1>3, <1>6, <1>7, <1>8, <1>9, <1>10, InvAfter
<1> QED BY <1>4, <1>11 DEF f

\* The store that takes a free block.
LEMMA NewPopKeeps ==
  ASSUME ListInv, NEW c \in Contexts, NEW b, b = ctx[c].ptTemp, NewPop(c, b)
  PROVE  /\ ListInv'
         /\ FreeNow # <<>> /\ FreeNow' = Tail(FreeNow) /\ QueueNow' = QueueNow
<1>1. /\ MidCall(c) /\ ctx[c].at = "new.pop" /\ Carried = {}
      /\ \A d \in Contexts \ {c} : ctx[d].at = "idle"
  BY Running DEF NewPop, InHand, Carrying
<1>2. /\ b = m.ptFreeList /\ b # NULL /\ ctx[c].ptLoad = m.ptNext[b]
      /\ m.ptTail = LastOf(QueueNow)
  BY <1>1 DEF MidCall
<1>3. /\ m.ptHead \in Pointers /\ m.ptTail \in Pointers /\ m.ptNext \in [Blocks -> Pointers]
      /\ m = [ptFreeList |-> m.ptFreeList, ptHead |-> m.ptHead, ptTail |-> m.ptTail,
              ptNext |-> m.ptNext]
      /\ LinkedIn(Blocks, m.ptNext, FreeNow, m.ptFreeList)
      /\ LinkedIn(Blocks, m.ptNext, QueueNow, m.ptHead)
      /\ ctx[c].ptLoad \in Pointers
  BY ListFacts DEF Pointers
<1> DEFINE f == Tail(FreeNow)
<1>4. /\ LinkedIn(Blocks, m.ptNext, f, m.ptNext[b]) /\ FreeNow # <<>> /\ b \in Blocks
      /\ Elems(FreeNow) = Elems(f) \union {b} /\ b \notin Elems(f)
  BY <1>2, <1>3, LinkedPop
<1> HIDE DEF f
<1>5. m' = [m EXCEPT !.ptFreeList = ctx[c].ptLoad] /\ Return(c, b)
  BY DEF NewPop
<1>6. /\ m'.ptFreeList = m.ptNext[b] /\ m'.ptHead = m.ptHead /\ m'.ptTail = m.ptTail
      /\ m'.ptNext = m.ptNext
      /\ m' \in [ptFreeList : Pointers, ptHead : Pointers, ptTail : Pointers,
                 ptNext : [Blocks -> Pointers]]
  BY <1>2, <1>3, <1>5
<1>7. /\ Elems(FreeNow) \intersect Elems(QueueNow) = {}
      /\ held["main"] \union held["isr"] = Blocks \ (Elems(FreeNow) \union Elems(QueueNow))
  BY <1>1 DEF ListInv, OnePlace
<1>8. /\ ctx' \in [Contexts -> [at : Statements, ptTemp : Pointers, ptLoad : Pointers]]
      /\ ctx'[c].at = "idle"
      /\ \A d \in Contexts \ {c} : ctx'[d].at = "idle"
      /\ Carried' = {} /\ held' \in [Contexts -> SUBSET Blocks]
      /\ held'["main"] \intersect held'["isr"] = {}
      /\ held'["main"] \union held'["isr"]
            = (held["main"] \union held["isr"]) \union ({b} \ {NULL})
      /\ ~fault'
  <2>1. b \notin held["main"] \union held["isr"] /\ b \in Pointers
    BY <1>4, <1>7 DEF Pointers
  <2> QED BY <1>1, <1>5, <2>1, ReturnFacts
<1>9. /\ Elems(f) \intersect Elems(QueueNow) = {}
      /\ held'["main"] \union held'["isr"]
           = Blocks \ (Elems(f) \union Elems(QueueNow) \union Carried')
  BY <1>2, <1>4, <1>7, <1>8
<1>10. FreeNow' = f /\ QueueNow' = QueueNow => MidCall(c)'
  BY <1>2, <1>6, <1>8 DEF MidCall
<1>11. ListInv' /\ FreeNow' = f /\ QueueNow' = QueueNow
  BY <1>3, <1>4, <1>6, <1>8, <1>9, <1>10, InvAfter
<1> QED BY <1>4, <1>11 DEF f

\* The stores that append: the head of an empty queue, or the last block's link.
LEMMA AppendKeeps ==
  ASSUME ListInv, NEW c \in Contexts, NEW b, b = ctx[c].ptTemp,
         AppendHead(c, b) \/ AppendLink(c, b)
  PROVE  /\ ListInv'
         /\ b \in Blocks \ (Elems(FreeNow) \union Elems(QueueNow))
         /\ QueueNow' = Append(QueueNow, b) /\ FreeNow' = FreeNow
<1>1. PICK s \in {"append.head", "append.link"} : Runs(c, s)
  BY DEF AppendHead, AppendLink
<1>2. /\ MidCall(c) /\ ctx[c].at = s /\ Carried = {b}
      /\ \A d \in Contexts \ {c} : ctx[d].at = "idle"
  BY <1>1, Running DEF InHand, Carrying
<1>3. /\ m.ptFreeList \in Pointers /\ m.ptHead \in Pointers /\ m.ptTail \in Pointers
      /\ m.ptNext \in [Blocks -> Pointers]
      /\ m = [ptFreeList |-> m.ptFreeList, ptHead |-> m.ptHead, ptTail |-> m.ptTail,
              ptNext |-> m.ptNext]
      /\ LinkedIn(Blocks, m.ptNext, FreeNow, m.ptFreeList)
      /\ LinkedIn(Blocks, m.ptNext, QueueNow, m.ptHead)
      /\ NULL \in Pointers /\ NULL \notin Blocks
      /\ QueueNow \in Seq(Blocks) /\ Distinct(QueueNow)
      /\ (m.ptHead = NULL <=> QueueNow = <<>>)
  BY ListFacts, LinkedFacts DEF Pointers
<1>4. /\ Elems(FreeNow) \intersect Elems(QueueNow) = {}
      /\ held["main"] \intersect held["isr"] = {}
      /\ b \in Blocks \ (Elems(FreeNow) \union Elems(QueueNow)) /\ b \in Pointers
      /\ held["main"] \union held["isr"]
           = Blocks \ (Elems(FreeNow) \union Elems(QueueNow) \union {b})
  BY <1>2 DEF ListInv, OnePlace, Pointers
<1> DEFINE q == Append(QueueNow, b)
<1>5. /\ LastOf(q) = b
      /\ m.ptNext[b] = NULL
      /\ s = "append.head" => QueueNow = <<>> /\ m.ptTail = b
      /\ s = "append.link" => /\ m.ptTail = LastOf(QueueNow) /\ ctx[c].ptLoad = m.ptTail
                              /\ m.ptTail # NULL /\ QueueNow # <<>>
  BY <1>2, <1>3, <1>4, LastOfLists DEF MidCall
<1>6. CASE s = "append.head"
  <2>1. m' = [m EXCEPT !.ptHead = b] /\ Return(c, NULL)
    BY <1>2, <1>5, <1>6 DEF AppendHead, AppendLink, Runs
  <2>2. /\ m'.ptFreeList = m.ptFreeList /\ m'.ptHead = b /\ m'.ptTail = b /\ m'.ptNext = m.ptNext
        /\ m' \in [ptFreeList : Pointers, ptHead : Pointers, ptTail : Pointers,
                   ptNext : [Blocks -> Pointers]]
    BY <1>3, <1>4, <1>5, <1>6, <2>1
  <2>3. q = <<b>>
    BY <1>5, <1>6
  <2>4. LinkedIn(Blocks, m.ptNext, q, b) /\ Elems(q) = {b}
    <3>1. LinkedIn(Blocks, m.ptNext, <<b>>, b)
      BY <1>4, <1>5, LinkedOne
    <3>2. Elems(<<b>>) = {b}
      BY DEF Elems
    <3> QED BY <2>3, <3>1, <3>2
  <2> HIDE DEF q
  <2>5. /\ ctx' \in [Contexts -> [at : Statements, ptTemp : Pointers, ptLoad : Pointers]]
        /\ ctx'[c].at = "idle"
        /\ \A d \in Contexts \ {c} : ctx'[d].at = "idle"
        /\ Carried' = {} /\ held' \in [Contexts -> SUBSET Blocks]
        /\ held'["main"] \intersect held'["isr"] = {}
        /\ held'["main"] \union held'["isr"]
              = (held["main"] \union held["isr"]) \union ({NULL} \ {NULL})
        /\ ~fault'
    <3>1. NULL \notin held["main"] \union held["isr"]
      BY <1>3, <1>4
    <3> QED BY <1>2, <1>3, <2>1, <3>1, ReturnFacts
  <2>6. /\ Elems(FreeNow) \intersect Elems(q) = {}
        /\ held'["main"] \union held'["isr"]
             = Blocks \ (Elems(FreeNow) \union Elems(q) \union Carried')
    <3>1. Elems(QueueNow) = {}
      BY <1>5, <1>6, EmptyList
    <3> QED BY <1>4, <2>4, <2>5, <3>1
  <2>7. FreeNow' = FreeNow /\ QueueNow' = q => MidCall(c)'
    BY <1>5, <2>2, <2>5 DEF MidCall
  <2>8. /\ LinkedIn(Blocks, m'.ptNext, FreeNow, m'.ptFreeList)
        /\ LinkedIn(Blocks, m'.ptNext, q, m'.ptHead)
        /\ held'["main"] \intersect held'["isr"] = {}
        /\ Carried' \subseteq Blocks \ (Elems(FreeNow) \union Elems(q))
        /\ \A d \in Contexts \ {c} : ctx'[d].at = "idle"
    <3>1. LinkedIn(Blocks, m'.ptNext, FreeNow, m'.ptFreeList)
      BY <1>3, <2>2
    <3>2. LinkedIn(Blocks, m'.ptNext, q, m'.ptHead)
      BY <2>2, <2>4
    <3> QED BY <2>5, <3>1, <3>2
  <2>9. ListInv' /\ FreeNow' = FreeNow /\ QueueNow' = q
    BY <2>2, <2>5, <2>6, <2>7, <2>8, InvAfter
  <2> QED BY <1>4, <2>9 DEF q
<1>7. CASE s = "append.link"
  <2> DEFINE next == [m.ptNext EXCEPT ![LastOf(QueueNow)] = b]
  <2>1. m' = [m EXCEPT !.ptNext[LastOf(QueueNow)] = b] /\ Goto(c, "append.tail", b, NULL)
    BY <1>2, <1>5, <1>7 DEF AppendHead, AppendLink, Runs
  <2>2. /\ LinkedIn(Blocks, next, q, m.ptHead) /\ Elems(q) = Elems(QueueNow) \union {b}
        /\ LastOf(QueueNow) \in Elems(QueueNow) /\ LastOf(QueueNow) \in Blocks
    <3> DEFINE links == m.ptNext
    <3>1. /\ links \in [Blocks -> Pointers] /\ LinkedIn(Blocks, links, QueueNow, m.ptHead)
          /\ b \in Blocks /\ b \notin Elems(QueueNow) /\ links[b] = NULL
          /\ QueueNow # <<>> /\ DOMAIN links = Blocks
      BY <1>3, <1>4, <1>5, <1>7
    <3>2. next = [links EXCEPT ![LastOf(QueueNow)] = b]
      OBVIOUS
    <3> HIDE DEF links, next
    <3>3. LinkedIn(Blocks, [links EXCEPT ![LastOf(QueueNow)] = b], Append(QueueNow, b), m.ptHead)
      BY <3>1, LinkedAppend, Zenon
    <3>4. LastOf(QueueNow) \in Elems(QueueNow) /\ LastOf(QueueNow) \in Blocks
      BY <3>1, LinkedAppend
    <3>5. Elems(q) = Elems(QueueNow) \union {b}
      <4>1. QueueNow \in Seq(Blocks)
        BY <3>1, LinkedFacts
      <4> QED BY <3>1, <4>1, AppendedLast
    <3> QED BY <3>2, <3>3, <3>4, <3>5
  <2>3. LinkedIn(Blocks, next, FreeNow, m.ptFreeList)
    <3>1. LastOf(QueueNow) \notin Elems(FreeNow)
      BY <1>4, <2>2
    <3> QED BY <1>3, <2>2, <3>1, OtherLink
  <2>4. next \in [Blocks -> Pointers]
    BY <1>3, <1>4
  <2>5. m' = [m EXCEPT !.ptNext = next]
    BY <1>3, <2>1
  <2> HIDE DEF next, q
  <2>6. /\ m'.ptFreeList = m.ptFreeList /\ m'.ptHead = m.ptHead /\ m'.ptTail = m.ptTail
        /\ m'.ptNext = next
        /\ m' \in [ptFreeList : Pointers, ptHead : Pointers, ptTail : Pointers,
                   ptNext : [Blocks -> Pointers]]
    BY <1>3, <2>4, <2>5
  <2>7. /\ ctx' \in [Contexts -> [at : Statements, ptTemp : Pointers, ptLoad : Pointers]]
        /\ ctx'[c].at = "append.tail" /\ ctx'[c].ptTemp = b
        /\ \A d \in Contexts \ {c} : ctx'[d].at = "idle"
        /\ Carried' = {}
        /\ held' = held /\ held' \in [Contexts -> SUBSET Blocks] /\ ~fault'
    <3>1. "append.tail" \in Statements /\ "append.tail" \notin Carrying
      BY DEF Statements, Carrying
    <3> QED BY <1>2, <1>3, <1>4, <2>1, <3>1, GotoFacts
  <2>8. /\ Elems(FreeNow) \intersect Elems(q) = {}
        /\ held'["main"] \union held'["isr"]
             = Blocks \ (Elems(FreeNow) \union Elems(q) \union Carried')
    BY <1>4, <2>2, <2>7
  <2>9. FreeNow' = FreeNow /\ QueueNow' = q => MidCall(c)'
    BY <1>3, <1>4, <1>5, <2>7 DEF MidCall
  <2>10. /\ LinkedIn(Blocks, m'.ptNext, FreeNow, m'.ptFreeList)
         /\ LinkedIn(Blocks, m'.ptNext, q, m'.ptHead)
         /\ held'["main"] \intersect held'["isr"] = {}
         /\ Carried' \subseteq Blocks \ (Elems(FreeNow) \union Elems(q))
         /\ \A d \in Contexts \ {c} : ctx'[d].at = "idle"
    <3>1. LinkedIn(Blocks, m'.ptNext, FreeNow, m'.ptFreeList)
      BY <2>3, <2>6
    <3>2. LinkedIn(Blocks, m'.ptNext, q, m'.ptHead)
      BY <2>2, <2>6
    <3> QED BY <1>4, <2>7, <3>1, <3>2
  <2>11. ListInv' /\ FreeNow' = FreeNow /\ QueueNow' = q
    BY <2>6, <2>7, <2>8, <2>9, <2>10, InvAfter
  <2> QED BY <1>4, <2>11 DEF q
<1> QED BY <1>6, <1>7

\* The store that takes the first block of the queue.
LEMMA FetchPopKeeps ==
  ASSUME ListInv, NEW c \in Contexts, NEW b, b = ctx[c].ptTemp, FetchPop(c, b)
  PROVE  /\ ListInv'
         /\ QueueNow # <<>> /\ QueueNow' = Tail(QueueNow) /\ FreeNow' = FreeNow
<1>1. /\ MidCall(c) /\ ctx[c].at = "fetch.pop" /\ Carried = {}
      /\ \A d \in Contexts \ {c} : ctx[d].at = "idle"
  BY Running DEF FetchPop, InHand, Carrying
<1>2. /\ b = m.ptHead /\ b # NULL /\ ctx[c].ptLoad = m.ptNext[b]
      /\ m.ptTail = LastOf(Tail(QueueNow))
  BY <1>1 DEF MidCall
<1>3. /\ m.ptFreeList \in Pointers /\ m.ptTail \in Pointers /\ m.ptNext \in [Blocks -> Pointers]
      /\ m = [ptFreeList |-> m.ptFreeList, ptHead |-> m.ptHead, ptTail |-> m.ptTail,
              ptNext |-> m.ptNext]
      /\ LinkedIn(Blocks, m.ptNext, FreeNow, m.ptFreeList)
      /\ LinkedIn(Blocks, m.ptNext, QueueNow, m.ptHead)
      /\ ctx[c].ptLoad \in Pointers /\ NULL \in Pointers
  BY ListFacts DEF Pointers
<1> DEFINE q == Tail(QueueNow)
<1>4. /\ LinkedIn(Blocks, m.ptNext, q, m.ptNext[b]) /\ QueueNow # <<>> /\ b \in Blocks /\ b \in Pointers
      /\ Elems(QueueNow) = Elems(q) \union {b} /\ b \notin Elems(q)
  BY <1>2, <1>3, LinkedPop DEF Pointers
<1>5. m.ptTail = LastOf(q)
  BY <1>2
<1> HIDE DEF q
<1>6. m' = [m EXCEPT !.ptHead = ctx[c].ptLoad] /\ Goto(c, "fetch.unlink", b, NULL)
  BY DEF FetchPop
<1>7. /\ m'.ptFreeList = m.ptFreeList /\ m'.ptHead = m.ptNext[b] /\ m'.ptTail = m.ptTail
      /\ m'.ptNext = m.ptNext
      /\ m' \in [ptFreeList : Pointers, ptHead : Pointers, ptTail : Pointers,
                 ptNext : [Blocks -> Pointers]]
  BY <1>2, <1>3, <1>6
<1>8. /\ Elems(FreeNow) \intersect Elems(QueueNow) = {}
      /\ held["main"] \intersect held["isr"] = {}
      /\ held["main"] \union held["isr"] = Blocks \ (Elems(FreeNow) \union Elems(QueueNow))
  BY <1>1 DEF ListInv, OnePlace
<1>9. /\ ctx' \in [Contexts -> [at : Statements, ptTemp : Pointers, ptLoad : Pointers]]
      /\ ctx'[c].at = "fetch.unlink" /\ ctx'[c].ptTemp = b
      /\ \A d \in Contexts \ {c} : ctx'[d].at = "idle"
      /\ Carried' = {b}
      /\ held' = held /\ held' \in [Contexts -> SUBSET Blocks] /\ ~fault'
  <2>1. "fetch.unlink" \in Statements /\ "fetch.unlink" \in Carrying
    BY DEF Statements, Carrying
  <2> QED BY <1>1, <1>3, <1>4, <1>6, <2>1, GotoFacts
<1>10. /\ Elems(FreeNow) \intersect Elems(q) = {}
       /\ Carried' \subseteq Blocks \ (Elems(FreeNow) \union Elems(q))
       /\ held'["main"] \union held'["isr"]
            = Blocks \ (Elems(FreeNow) \union Elems(q) \union Carried')
  BY <1>4, <1>8, <1>9
<1>11. FreeNow' = FreeNow /\ QueueNow' = q => MidCall(c)'
  BY <1>5, <1>7, <1>9 DEF MidCall
<1>12. ListInv' /\ FreeNow' = FreeNow /\ QueueNow' = q
  BY <1>3, <1>4, <1>7, <1>8, <1>9, <1>10, <1>11, InvAfter
<1> QED BY <1>4, <1>12 DEF q


---------------------------------------------------------------------------
(* The invariant, and what follows from it.                                 *)

LEMMA ListInit == Init => ListInv /\ FreeNow = <<>> /\ QueueNow = <<>>
<1> SUFFICES ASSUME Init PROVE ListInv /\ FreeNow = <<>> /\ QueueNow = <<>>
  OBVIOUS
<1>1. /\ LinkedIn(Blocks, m.ptNext, <<>>, m.ptFreeList)
      /\ LinkedIn(Blocks, m.ptNext, <<>>, m.ptHead)
      /\ m.ptTail = NULL
  BY LinkedOne DEF Init
<1>2. FreeNow = <<>> /\ QueueNow = <<>>
  <2>1. Linked(m.ptNext, m.ptFreeList) = <<>> /\ Linked(m.ptNext, m.ptHead) = <<>>
    <3> DEFINE next == m.ptNext
    <3>1. /\ DOMAIN next = Blocks
          /\ LinkedIn(Blocks, next, <<>>, m.ptFreeList) /\ LinkedIn(Blocks, next, <<>>, m.ptHead)
      BY <1>1 DEF Init
    <3> HIDE DEF next
    <3> QED BY <3>1, LinkedIsList DEF next
  <2> QED BY <2>1 DEF FreeNow, QueueNow, Chain
<1>3. ListTypes
  BY DEF Init, Resting, ListTypes, Pointers, Statements
<1>4. /\ Elems(FreeNow) = {} /\ Elems(QueueNow) = {} /\ Carried = {}
      /\ \A c \in Contexts : ctx[c].at = "idle"
  BY <1>2, EmptyList DEF Init, Resting, Carried, InHand, Carrying
<1>5. OnePlace
  <2>1. held["main"] = Blocks /\ held["isr"] = {}
    BY DEF Init
  <2> QED BY <1>1, <1>2, <1>4, <2>1 DEF OnePlace
<1>6. MidCall("main")
  BY <1>1, <1>2, <1>4 DEF MidCall, LastOf
<1> QED BY <1>2, <1>3, <1>4, <1>5, <1>6 DEF ListInv

\* A step keeps the invariant, and is a call of the abstract store or is none.
LEMMA ListStep ==
  ASSUME ListInv, Preempts = FALSE, [Next]_vars
  PROVE  /\ ListInv'
         /\ [Store!Free \/ Store!New \/ Store!AppendBlock \/ Store!Fetch]_<<FreeNow, QueueNow>>
<1>1. CASE UNCHANGED vars
  <2>1. m' = m /\ ctx' = ctx /\ held' = held /\ fault' = fault
    BY <1>1 DEF vars
  <2>2. FreeNow' = FreeNow /\ QueueNow' = QueueNow /\ Carried' = Carried
    BY <2>1 DEF FreeNow, QueueNow, Chain, Carried, InHand
  <2>3. \A c \in Contexts : MidCall(c) => MidCall(c)'
    BY <2>1, <2>2 DEF MidCall
  <2>4. ListTypes' /\ OnePlace'
    BY <2>1, <2>2 DEF ListInv, ListTypes, OnePlace
  <2>5. ListInv'
    BY <2>1, <2>3, <2>4 DEF ListInv
  <2> QED BY <2>2, <2>5
<1>2. CASE Next
  <2>1. PICK c \in Contexts : Call(c) \/ Step(c, ctx[c].ptTemp)
    BY <1>2 DEF Next
  <2>2. CASE Call(c)
    <3>1. ListInv' /\ FreeNow' = FreeNow /\ QueueNow' = QueueNow
      BY <2>2, CallKeeps
    <3> QED BY <3>1
  <2>3. CASE Step(c, ctx[c].ptTemp)
    <3> DEFINE b == ctx[c].ptTemp
    <3>1. CASE NewTest(c) \/ NewNext(c, b) \/ FetchHead(c) \/ FetchTest(c, b) \/ FetchNext(c, b)
      <4>1. ListInv' /\ FreeNow' = FreeNow /\ QueueNow' = QueueNow
        BY <3>1, LooksKeep
      <4> QED BY <4>1
    <3>2. CASE \/ FreeLink(c, b) \/ AppendTest(c, b) \/ AppendFirst(c, b) \/ AppendTail(c, b)
               \/ FetchLast(c, b) \/ FetchUnlink(c, b)
      <4>1. ListInv' /\ FreeNow' = FreeNow /\ QueueNow' = QueueNow
        BY <3>2, AsideKeeps
      <4> QED BY <4>1
    <3>3. CASE FreePublish(c, b)
      <4>1. /\ ListInv' /\ b \in Blocks \ (Elems(FreeNow) \union Elems(QueueNow))
            /\ FreeNow' = <<b>> \o FreeNow /\ QueueNow' = QueueNow
        BY <3>3, FreePublishKeeps
      <4>2. Store!Free
        BY <4>1 DEF Store!Free, Store!Outside, Store!Elems, Elems
      <4> QED BY <4>1, <4>2
    <3>4. CASE NewPop(c, b)
      <4>1. ListInv' /\ FreeNow # <<>> /\ FreeNow' = Tail(FreeNow) /\ QueueNow' = QueueNow
        BY <3>4, NewPopKeeps
      <4>2. Store!New
        BY <4>1 DEF Store!New
      <4> QED BY <4>1, <4>2
    <3>5. CASE AppendHead(c, b) \/ AppendLink(c, b)
      <4>1. /\ ListInv' /\ b \in Blocks \ (Elems(FreeNow) \union Elems(QueueNow))
            /\ QueueNow' = Append(QueueNow, b) /\ FreeNow' = FreeNow
        BY <3>5, AppendKeeps
      <4>2. Append(QueueNow, b) = QueueNow \o <<b>>
        <5>1. QueueNow \in Seq(Blocks)
          BY LinkedFacts DEF ListInv, OnePlace
        <5> QED BY <4>1, <5>1
      <4>3. Store!AppendBlock
        BY <4>1, <4>2 DEF Store!AppendBlock, Store!Outside, Store!Elems, Elems
      <4> QED BY <4>1, <4>3
    <3>6. CASE FetchPop(c, b)
      <4>1. ListInv' /\ QueueNow # <<>> /\ QueueNow' = Tail(QueueNow) /\ FreeNow' = FreeNow
        BY <3>6, FetchPopKeeps
      <4>2. Store!Fetch
        BY <4>1 DEF Store!Fetch
      <4> QED BY <4>1, <4>2
    <3> QED BY <2>3, <3>1, <3>2, <3>3, <3>4, <3>5, <3>6 DEF Step
  <2> QED BY <2>1, <2>2, <2>3
<1> QED BY <1>1, <1>2

\* While no call is interrupted, the lists are always threaded through ptNext,
\* each block in one place, and a call under way knows what it needs to finish.
THEOREM ListAlways ==
  ASSUME Preempts = FALSE
  PROVE  Spec => []ListInv
<1>1. Init => ListInv
  BY ListInit
<1>2. ListInv /\ [Next]_vars => ListInv'
  BY ListStep
<1> QED BY <1>1, <1>2, PTL DEF Spec

\* Between calls the tail is the end of the chain from the head: what append
\* links is what fetch will reach, for any number of blocks.
THEOREM TailAlwaysLast ==
  ASSUME Preempts = FALSE
  PROVE  Spec => []TailIsLast
<1>1. ListInv => TailIsLast
  BY DEF ListInv, TailIsLast, Idle, MidCall
<1> QED BY <1>1, ListAlways, PTL

\* Between calls each block is on the free list once, in the queue once, or in
\* the hands of one context: no call loses a block or doubles it, and none
\* dereferences NULL.
THEOREM NothingIsLost ==
  ASSUME Preempts = FALSE
  PROVE  Spec => [](NoBlockLost /\ ~fault)
<1>1. ListInv => NoBlockLost /\ ~fault
  <2> SUFFICES ASSUME ListInv PROVE NoBlockLost /\ ~fault
    OBVIOUS
  <2>1. Idle => Carried = {}
    BY DEF Idle, Carried, InHand, Carrying
  <2>2. Distinct(FreeNow) /\ Distinct(QueueNow) /\ ~fault
    BY LinkedFacts DEF ListInv, ListTypes, OnePlace
  <2>3. ASSUME Idle PROVE NoBlockLost
    <3>1. held["main"] \union held["isr"]
            = Blocks \ (Elems(FreeNow) \union Elems(QueueNow))
      BY <2>1, <2>3 DEF ListInv, OnePlace
    <3> QED BY <2>2, <3>1 DEF ListInv, OnePlace, NoBlockLost
  <2> QED BY <2>2, <2>3 DEF NoBlockLost
<1> QED BY <1>1, ListAlways, PTL

\* The pointers implement the two lists: each call of src/common/block takes
\* effect at one store, as one operation of a stack and a queue.
THEOREM ListsAreStore ==
  ASSUME Preempts = FALSE
  PROVE  Spec => StoreSpec
<1>1. Init => Store!Init
  BY ListInit DEF Store!Init
<1>2. ListInv /\ [Next]_vars =>
        [Store!Free \/ Store!New \/ Store!AppendBlock \/ Store!Fetch]_<<FreeNow, QueueNow>>
  BY ListStep
<1> QED BY <1>1, <1>2, ListAlways, PTL DEF Spec, StoreSpec, Store!Spec
=============================================================================
