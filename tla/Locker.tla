------------------------------- MODULE Locker -------------------------------
(***************************************************************************)
(* The critical sections and lockers of src/common/utilities/arm/signal.c, *)
(* arm/signal.h and avr/signal.h on one processor: the main program and    *)
(* interrupt handlers, each taken on top of a context of lower priority    *)
(* while interrupts are enabled.  A step is a read of the locker or of the *)
(* mask, or both in a row, or a store; LOCK releases its locker in the     *)
(* step that restores the mask, as nothing runs between the two.           *)
(*                                                                         *)
(* A handler starts as on a Cortex-M, with interrupts enabled.  One of the *)
(* AVR starts with the I bit clear: the AVR's macros are modelled in the   *)
(* main program, and in handlers from where they have set it.              *)
(***************************************************************************)
EXTENDS Integers, Sequences, FiniteSets

CONSTANTS
  Priorities,   \* the handlers, by priority: 1 .. n
  MaxNest       \* bound: sections one context has open

ASSUME LockerAssumption == Priorities \in Nat /\ MaxNest \in Nat \ {0}

Main == 0
Contexts == Main .. Priorities

\* "region": SAFE_ATOM_CODE and __SAFE_ATOM_CODE; "none":
\* DEFAULT_CODE_REGION_NONE; "plain": ATOM_CODE of the AVR; "enter": the
\* __IRQ_SAFE of enter_lock; "lock": LOCK of the AVR.
Kinds == {"region", "none", "plain", "enter", "lock"}

VARIABLES
  bMasked,      \* PRIMASK set, or the I bit of SREG clear
  active,       \* the contexts started and not ended, the running one last
  pc,           \* [Contexts -> step inside an entry or an exit, or "body"]
  regions,      \* [Contexts -> the sections entered: kind and saved state]
  tLock,        \* the locker_t: TRUE is LOCKED
  owners        \* ghost: who got TRUE from enter_lock or the body of LOCK

lockerVars == <<bMasked, active, pc, regions, tLock, owners>>

LockerInit ==
  /\ bMasked = FALSE
  /\ active = <<Main>>
  /\ pc = [c \in Contexts |-> "body"]
  /\ regions = [c \in Contexts |-> <<>>]
  /\ tLock = FALSE /\ owners = {}                              \* init_lock

current == active[Len(active)]
open == regions[current]
inner == open[Len(open)]

AtStep(step) == pc[current] = step
GoTo(step) == pc' = [pc EXCEPT ![current] = step]
Opened(kind, tState) ==
  regions' = [regions EXCEPT ![current] =
                Append(@, [kind |-> kind, tState |-> tState])]
Closed == regions' = [regions EXCEPT ![current] = SubSeq(@, 1, Len(@) - 1)]

\* The section of c that is innermost masks from Disable on.
Masks(c, i) ==
  /\ regions[c][i].kind # "none"
  /\ ~(i = Len(regions[c]) /\ pc[c] = "disable")
InAtom(c) == \E i \in 1 .. Len(regions[c]) : Masks(c, i)

---------------------------------------------------------------------------

\* The mask is read first, disabled after: a handler may come in between.
BadSavedState == TRUE
SavedState == bMasked

\* ATOM_CODE saves nothing: programs use it outside every other section.
MayOpen(kind) ==
  /\ AtStep("body") /\ Len(open) < MaxNest
  /\ kind = "plain" => ~InAtom(current)

ReadState(kind) ==
  /\ MayOpen(kind)
  /\ kind = "enter" => tLock = FALSE        \* else enter_lock returns false
  /\ Opened(kind, SavedState)
  /\ GoTo(IF kind = "none" THEN "body" ELSE "disable")
  /\ UNCHANGED <<bMasked, active, tLock, owners>>

Disable ==
  /\ AtStep("disable")
  /\ bMasked' = TRUE
  /\ GoTo(IF inner.kind \in {"enter", "lock"} THEN "test" ELSE "body")
  /\ UNCHANGED <<active, regions, tLock, owners>>

\* enter_lock tests the locker again with interrupts disabled; LOCK only there.
BadFree == TRUE
Free == tLock = FALSE

LockTest ==
  /\ AtStep("test")
  /\ tLock' = TRUE
  /\ owners' = IF Free THEN owners \union {current} ELSE owners
  /\ GoTo(IF inner.kind = "lock" /\ Free THEN "body" ELSE "restore")
  /\ UNCHANGED <<bMasked, active, regions>>

\* SET_GLOBAL_INTERRUPT_STATE of the saved state; ATOM_CODE just enables.
Restored(section) ==
  CASE section.kind = "none" -> bMasked
    [] section.kind = "plain" -> FALSE
    [] OTHER -> section.tState

\* The end of enter_lock, or of a LOCK that found the locker taken.
Restore ==
  /\ AtStep("restore")
  /\ bMasked' = Restored(inner)
  /\ Closed /\ GoTo("body")
  /\ UNCHANGED <<active, tLock, owners>>

\* The end of a section, by its brace or EXIT_SAFE_ATOM_CODE; LOCK and EXIT_LOCK
\* release the locker first.
LeaveSection ==
  /\ AtStep("body") /\ open # <<>>
  /\ bMasked' = Restored(inner)
  /\ IF inner.kind = "lock"
     THEN tLock' = FALSE /\ owners' = owners \ {current}
     ELSE UNCHANGED <<tLock, owners>>
  /\ Closed
  /\ UNCHANGED <<active, pc>>

\* leave_lock, by the context that entered; a handler may have returned since.
LeaveLock ==
  /\ AtStep("body") /\ current \in owners
  /\ \A i \in 1 .. Len(open) : open[i].kind # "lock"
  /\ tLock' = FALSE /\ owners' = owners \ {current}
  /\ UNCHANGED <<bMasked, active, pc, regions>>

\* The processor: a handler starts over a context of lower priority.
Preempts(h) == ~bMasked /\ h > current

Interrupt(h) ==
  /\ Preempts(h)
  /\ active' = Append(active, h)
  /\ UNCHANGED <<bMasked, pc, regions, tLock, owners>>

ReturnFromInterrupt ==
  /\ current # Main /\ AtStep("body") /\ open = <<>>
  /\ active' = SubSeq(active, 1, Len(active) - 1)
  /\ UNCHANGED <<bMasked, pc, regions, tLock, owners>>

LockerNext ==
  \/ \E kind \in Kinds : ReadState(kind)
  \/ Disable \/ LockTest \/ Restore \/ LeaveSection \/ LeaveLock
  \/ \E h \in 1 .. Priorities : Interrupt(h)
  \/ ReturnFromInterrupt

LockerSpec == LockerInit /\ [][LockerNext]_lockerVars

---------------------------------------------------------------------------
(* Properties.                                                              *)

\* However sections nest and wherever handlers come in, interrupts are disabled
\* exactly while the running context is inside one: none is opened by the end of
\* an inner one, and none leaves interrupts disabled for good.
MaskIsNesting ==
  /\ bMasked = InAtom(current)
  /\ \A c \in Contexts \ {current} : ~InAtom(c)

\* enter_lock lets one context in, although it tests the locker unmasked and a
\* handler may enter and leave it before the test is repeated.
LockExclusive ==
  /\ Cardinality(owners) <= 1
  /\ tLock = (owners # {})

---------------------------------------------------------------------------
(* Why: what the steps keep, for the proofs.                                *)

Steps == {"body", "disable", "test", "restore"}
Section == [kind : Kinds, tState : BOOLEAN]

LockerTyped ==
  /\ bMasked \in BOOLEAN /\ tLock \in BOOLEAN
  /\ active \in Seq(Contexts) /\ active # <<>>
  /\ pc \in [Contexts -> Steps]
  /\ regions \in [Contexts -> Seq(Section)]
  /\ owners \subseteq Contexts

IsActive(c) == \E i \in 1 .. Len(active) : active[i] = c

\* Handlers lie over the main program in the order of their priorities, and one
\* that is not active has left nothing open.
ActiveInOrder ==
  /\ active[1] = Main
  /\ \A i, j \in 1 .. Len(active) : i < j => active[i] < active[j]
  /\ \A c \in Contexts : ~IsActive(c) => pc[c] = "body" /\ regions[c] = <<>>

\* A step inside an entry or an exit of c is one of its innermost section.
StepsOfInner(c) ==
  /\ pc[c] # "body" => regions[c] # <<>>
  /\ \A i \in 1 .. Len(regions[c]) :
       LET kind == regions[c][i].kind
           isInner == i = Len(regions[c]) IN
       /\ isInner /\ pc[c] = "disable" => kind # "none"
       /\ isInner /\ pc[c] \in {"test", "restore"} => kind \in {"enter", "lock"}
       /\ kind = "enter" => isInner /\ pc[c] # "body"

\* Interrupts are disabled outside section i of c.
OuterMasks(c, i) == \E j \in 1 .. i - 1 : regions[c][j].kind # "none"

\* What a section saved is whether a section around it disables interrupts.
SavedIsOuter(c) ==
  \A i \in 1 .. Len(regions[c]) :
    /\ regions[c][i].kind \in {"region", "enter", "lock"} =>
         regions[c][i].tState = OuterMasks(c, i)
    /\ regions[c][i].kind = "plain" => ~OuterMasks(c, i)

\* Section i of c is a LOCK that found the locker free.
Holds(c, i) == regions[c][i].kind = "lock" /\ (i < Len(regions[c]) \/ pc[c] = "body")

\* It is the one section that will release the locker.
HolderOwns(c) ==
  \A i \in 1 .. Len(regions[c]) :
    Holds(c, i) => /\ c \in owners
                   /\ \A j \in 1 .. Len(regions[c]) : Holds(c, j) => j = i

OneOwner == tLock = (owners # {}) /\ \A c, d \in owners : c = d

LockerInv ==
  /\ LockerTyped /\ ActiveInOrder
  /\ \A c \in Contexts : StepsOfInner(c) /\ SavedIsOuter(c) /\ HolderOwns(c)
  /\ OneOwner /\ MaskIsNesting
=============================================================================
