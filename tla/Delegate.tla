------------------------------ MODULE Delegate ------------------------------
(***************************************************************************)
(* src/common/utilities/delegate.c: an event with a list of handlers still *)
(* to run and a list of those that have finished.  Each invocation runs    *)
(* one handler and moves a cursor, which is the address of a link: of the  *)
(* list head ("event") or of a handler's ptNext (the handler's name).      *)
(* Handlers are registered and unregistered between invocations, and by    *)
(* the handler that runs.  NULL arguments, refused at once, are left out.  *)
(***************************************************************************)
EXTENDS Links

CONSTANTS
  Handlers,
  Registers,    \* environment: which handlers are passed to register: "new" ones,
                \* on no list; ones registered already and "inner" or "last" there
  Nested,       \* environment: the calls made by running handlers, of
                \* "register", "unregister" (of another) and "leave" (of itself)
  MaxChanges    \* bound: calls to register and unregister

ASSUME DelegateAssumption ==
  /\ IsFiniteSet(Handlers) /\ NULL \notin Handlers
  /\ {"event", "blocked"} \intersect (Handlers \union {NULL}) = {}
  /\ Registers \subseteq {"new", "inner", "last"}
  /\ Nested \subseteq {"register", "unregister", "leave"}
  /\ MaxChanges \in Nat

VARIABLES
  ptEvent, ptBlockedList, ptNext,
  pptHandler,   \* the cursor
  running,      \* the handler whose fnHandler has been called and not returned
  changes,
  registered,   \* history: handlers whose registration was accepted
  overtaken     \* history: <<g, h>> if g was called since h was last, h waiting

listVars == <<ptEvent, ptBlockedList, ptNext>>
delegateVars == <<listVars, pptHandler, running, changes, registered, overtaken>>

Pointers == Handlers \union {NULL}

\* The handlers linked from pointer p on.
Chain(p) == Linked(ptNext, p)

Ready   == Elems(Chain(ptEvent))
Blocked == Elems(Chain(ptBlockedList))

\* *link, and *link = p.
LinkOf(link) == CASE link = "event" -> ptEvent
              [] link = "blocked" -> ptBlockedList
              [] OTHER -> ptNext[link]
StoreAt(link, p, next) ==
  /\ ptEvent' = IF link = "event" THEN p ELSE ptEvent
  /\ ptBlockedList' = IF link = "blocked" THEN p ELSE ptBlockedList
  /\ ptNext' = IF link \in Handlers THEN [next EXCEPT ![link] = p] ELSE next

\* search_list from the head `first': the link that leads to h, NULL if none.
SearchList(first, h) ==
  LET list == Chain(LinkOf(first))
      at == {i \in 1 .. Len(list) : list[i] = h}
      i == CHOOSE i \in at : \A j \in at : i <= j
  IN  IF at = {} THEN NULL ELSE IF i = 1 THEN first ELSE list[i - 1]

\* delegate_init, delegate_handler_init.
DelegateInit ==
  /\ ptEvent = NULL /\ ptBlockedList = NULL
  /\ ptNext = [h \in Handlers |-> NULL]
  /\ pptHandler = "event" /\ running = NULL
  /\ changes = 0 /\ registered = {} /\ overtaken = {}

\* A call that changes the lists may come from main or from the running handler.
Changing(call) ==
  /\ changes < MaxChanges
  /\ changes' = changes + 1
  /\ running = NULL \/ call \in Nested
  /\ UNCHANGED running

---------------------------------------------------------------------------
\* What the caller of register_delegate_handler passes.
Kind(h) == IF h \notin Ready \union Blocked THEN "new"
           ELSE IF ptNext[h] # NULL THEN "inner" ELSE "last"

\* The handler goes to the front of the ready list.
PushFront(h, next) ==
  /\ ptNext' = [next EXCEPT ![h] = ptEvent]
  /\ ptEvent' = h
  /\ registered' = registered \union {h}
  /\ overtaken' = {p \in overtaken : h \notin {p[1], p[2]}}

\* A handler with no successor is taken for one that is on no list.
Register(h) ==
  /\ Kind(h) \in Registers /\ Changing("register")
  /\ ptNext[h] = NULL
  /\ PushFront(h, ptNext)
  /\ UNCHANGED <<ptBlockedList, pptHandler>>

\* One with a successor moves from the blocked list to the ready list.
RegisterBlocked(h) ==
  /\ Kind(h) \in Registers /\ Changing("register")
  /\ ptNext[h] # NULL
  /\ LET link == SearchList("blocked", h) IN
       /\ link # NULL
       /\ PushFront(h, IF link = "blocked" THEN ptNext
                       ELSE [ptNext EXCEPT ![link] = ptNext[h]])
       /\ ptBlockedList' = IF link = "blocked" THEN ptNext[h] ELSE ptBlockedList
  /\ UNCHANGED pptHandler

\* GSF_ERR_REQ_ALREADY_REGISTERED.
RegisterRefused(h) ==
  /\ Kind(h) \in Registers /\ Changing("register")
  /\ ptNext[h] # NULL /\ SearchList("blocked", h) = NULL
  /\ UNCHANGED <<listVars, pptHandler, registered, overtaken>>

\* The cursor leaves the handler that goes.
CursorAfter(h, link) == IF pptHandler = h THEN link ELSE pptHandler

\* unregister_delegate_handler: the ready list first, then the blocked one.
Unregister(h) ==
  /\ h \in Ready \union Blocked
  /\ Changing(IF h = running THEN "leave" ELSE "unregister")
  /\ LET inReady == SearchList("event", h)
         link == IF inReady # NULL THEN inReady ELSE SearchList("blocked", h)
     IN  /\ StoreAt(link, ptNext[h], [ptNext EXCEPT ![h] = NULL])
         /\ pptHandler' = CursorAfter(h, link)
  /\ registered' = registered \ {h}
  /\ overtaken' = {p \in overtaken : h \notin {p[1], p[2]}}

---------------------------------------------------------------------------
\* The first invocation after a completed one: all handlers are ready again.
Restart ==
  /\ ptEvent = NULL /\ ptBlockedList # NULL
  /\ ptEvent' = ptBlockedList
  /\ ptBlockedList' = NULL
  /\ pptHandler' = "event"

\* invoke_delegate up to the call of the handler at the cursor.
BadInvokeHandler ==
  /\ running = NULL
  /\ \/ ptEvent # NULL /\ UNCHANGED <<ptEvent, ptBlockedList>> /\ pptHandler' = "event"
     \/ Restart
  /\ running' = IF ptEvent = NULL THEN ptBlockedList ELSE ptEvent
  /\ overtaken' = overtaken \union
                    {<<running', h>> : h \in (IF ptEvent = NULL THEN Blocked ELSE Ready) \ {running'}}
  /\ UNCHANGED <<ptNext, changes, registered>>
InvokeHandler ==
  /\ running = NULL
  /\ \/ ptEvent # NULL /\ UNCHANGED <<ptEvent, ptBlockedList, pptHandler>>
     \/ Restart
  /\ running' = IF ptEvent = NULL THEN ptBlockedList ELSE LinkOf(pptHandler)
  /\ running' # NULL
  /\ LET others == (IF ptEvent = NULL THEN Blocked ELSE Ready) \ {running'} IN
       overtaken' = {p \in overtaken : p[2] # running'} \union {<<running', h>> : h \in others}
  /\ UNCHANGED <<ptNext, changes, registered>>

\* The end of the ready list: the invocation only takes the cursor back.
InvokeAtEnd ==
  /\ running = NULL /\ ptEvent # NULL /\ LinkOf(pptHandler) = NULL
  /\ pptHandler' = "event"
  /\ UNCHANGED <<listVars, running, changes, registered, overtaken>>

\* No handler at all: the invocation has completed at once.
InvokeNothing == running = NULL /\ ptEvent = NULL /\ ptBlockedList = NULL /\ UNCHANGED delegateVars

\* fsm_rt_on_going: the handler stays, the cursor goes on.
HandlerOnGoing ==
  /\ running # NULL
  /\ pptHandler' = running
  /\ running' = NULL
  /\ UNCHANGED <<listVars, changes, registered, overtaken>>

\* EVENT_RT_UNREGISTER: the handler goes.
HandlerLeaves ==
  /\ running # NULL
  /\ StoreAt(pptHandler, ptNext[running], [ptNext EXCEPT ![running] = NULL])
  /\ registered' = registered \ {running}
  /\ overtaken' = {p \in overtaken : running \notin {p[1], p[2]}}
  /\ running' = NULL
  /\ UNCHANGED <<pptHandler, changes>>

\* __move_to_block_list.
BadMoveToBlockList(h) ==
  /\ ptNext' = [ptNext EXCEPT ![h] = ptBlockedList]
  /\ ptEvent' = IF pptHandler = "event" THEN ptNext[h] ELSE ptEvent
  /\ ptBlockedList' = h
MoveToBlockList(h) ==
  /\ ptEvent' = IF pptHandler = "event" THEN ptNext[h] ELSE ptEvent
  /\ ptNext' = [(IF pptHandler \in Handlers THEN [ptNext EXCEPT ![pptHandler] = ptNext[h]]
                 ELSE ptNext) EXCEPT ![h] = ptBlockedList]
  /\ ptBlockedList' = h

\* Any other result: the handler has finished.
HandlerFinished ==
  /\ running # NULL
  /\ MoveToBlockList(running)
  /\ overtaken' = {p \in overtaken : p[2] # running}
  /\ running' = NULL
  /\ UNCHANGED <<pptHandler, changes, registered>>

---------------------------------------------------------------------------
Invoke  == InvokeHandler \/ InvokeAtEnd \/ InvokeNothing
HandlerReturns == HandlerOnGoing \/ HandlerLeaves \/ HandlerFinished

DelegateNext ==
  \/ \E h \in Handlers : \/ Register(h) \/ RegisterBlocked(h)
                         \/ RegisterRefused(h) \/ Unregister(h)
  \/ Invoke \/ HandlerReturns

DelegateSpec == DelegateInit /\ [][DelegateNext]_delegateVars

---------------------------------------------------------------------------
(* Properties.                                                              *)

\* Every registered handler is on exactly one of the two lists, once; nothing
\* else is, and both lists end.
NoneLost ==
  LET ready == Chain(ptEvent)
      blocked == Chain(ptBlockedList)
  IN  /\ Cardinality(Ready) = Len(ready) /\ Cardinality(Blocked) = Len(blocked)
      /\ Ready \intersect Blocked = {}
      /\ Ready \union Blocked = registered

\* When the handler returns the cursor still is the link that leads to it, so
\* that taking it out of the list takes out nothing else; and between
\* invocations the cursor is a link of the ready list.
CursorLeadsToHandler ==
  IF running # NULL THEN LinkOf(pptHandler) = running ELSE pptHandler \in Ready \union {"event"}

\* Lists and cursor stay together through every change, by running handlers too.
ListsAndCursor == NoneLost /\ CursorLeadsToHandler

\* No handler is called twice while another one, ready all the time, waits.
NoneOvertaken ==
  [][running = NULL /\ running' # NULL =>
       \A h \in Ready : <<running', h>> \notin overtaken]_delegateVars
=============================================================================
