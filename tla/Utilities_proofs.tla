-------------------------- MODULE Utilities_proofs --------------------------
(***************************************************************************)
(* Four utilities, for every value of their constants: the FSMs of         *)
(* simple_fsm.h, for any number of machines of any number of states, the   *)
(* critical sections and lockers of signal.c, for any number of priorities *)
(* and any depth, the statements of language_extension.h and signal.h, for *)
(* arrays of any length, and the printers of tiny_fsm.h, for any number of *)
(* instances and strings of any length.                                    *)
(***************************************************************************)
EXTENDS SimpleFsm, Locker, CodeRegion, TinyFsm, Delegate, Lists_proofs,
        SequenceTheorems

---------------------------------------------------------------------------
(* SimpleFsm.  That a machine is at START whenever the one before it is     *)
(* outside CALLS is kept by the chain of calls under way, all in CALLS, and *)
(* by what a returned fsm_rt_cpl says of the machine it came from.          *)

\* The machines before the one running wait for it in CALLS.
ChainWaits == \A m \in Fsms : m < fsm => chState[m] = CALLS /\ got[m] = NONE

\* A machine that has returned fsm_rt_cpl has been reset.
CplIsReset == \A m \in Fsms : got[m] = "cpl" /\ m < Depth => chState[m + 1] = START

FsmInv == FsmsTyped /\ InnerStartsFresh /\ ChainWaits /\ CplIsReset

\* Some values that a step compares.
LEMMA FsmFacts ==
  /\ Depth \in Nat \ {0} /\ LastState \in Nat /\ CALLS \in 1 .. LastState
  /\ NONE \notin fsm_rt_t /\ NONE # "cpl" /\ CALLS # START
  /\ FirstState \in States /\ ResetFsm = START
BY FsmAssumption DEF START, States, FirstState, ResetFsm, fsm_rt_t

\* The initialised machines satisfy the invariant.
LEMMA FsmInit == FsmsInit => FsmInv
BY FsmFacts DEF FsmsInit, FsmInv, FsmsTyped, InnerStartsFresh, ChainWaits, CplIsReset,
   Fsms, START

\* A running machine and the value it returns keep the chain, when the machine
\* is at START or its value is not fsm_rt_cpl.
LEMMA ReturnKeeps ==
  ASSUME FsmInv, fsm \in Fsms, NEW value \in fsm_rt_t, Return(value),
         NEW s \in {START} \union States,
         chState' = [chState EXCEPT ![fsm] = s],
         value = "cpl" => s = START,
         fsm < Depth /\ s # CALLS => chState[fsm + 1] = START
  PROVE  FsmInv'
<1> USE FsmFacts DEF FsmInv, FsmsTyped, Return, Fsms
<1>1. FsmsTyped' OBVIOUS
<1>2. InnerStartsFresh'
  BY DEF InnerStartsFresh, ChainWaits
<1>3. ChainWaits'
  BY DEF ChainWaits
<1>4. CplIsReset'
  <2> SUFFICES ASSUME NEW m \in Fsms, got'[m] = "cpl", m < Depth
               PROVE  chState'[m + 1] = START
    BY DEF CplIsReset
  <2>1. CASE m = fsm - 1 BY <2>1
  <2>2. CASE m = fsm BY <2>2
  <2>3. CASE m # fsm - 1 /\ m # fsm BY <2>3 DEF CplIsReset
  <2> QED BY <2>1, <2>2, <2>3
<1> QED BY <1>1, <1>2, <1>3, <1>4

\* A transition of the running machine that is free to make it keeps the chain.
LEMMA MoveKeeps ==
  ASSUME FsmInv, fsm \in Fsms, NEW s \in States,
         chState' = [chState EXCEPT ![fsm] = s],
         got' = got \/ got' = [got EXCEPT ![fsm] = NONE], fsm' = fsm,
         fsm < Depth /\ s # CALLS => chState[fsm + 1] = START
  PROVE  FsmInv'
<1> USE FsmFacts DEF FsmInv, FsmsTyped, Fsms
<1>1. FsmsTyped' OBVIOUS
<1>2. InnerStartsFresh'
  BY DEF InnerStartsFresh, ChainWaits
<1>3. ChainWaits'
  BY DEF ChainWaits
<1>4. CplIsReset'
  <2> SUFFICES ASSUME NEW m \in Fsms, got'[m] = "cpl", m < Depth
               PROVE  chState'[m + 1] = START
    BY DEF CplIsReset
  <2>1. got[m] = "cpl" OBVIOUS
  <2>2. m + 1 # fsm BY <2>1 DEF ChainWaits
  <2> QED BY <2>1, <2>2 DEF CplIsReset
<1> QED BY <1>1, <1>2, <1>3, <1>4

\* A machine leaves a state other than CALLS, or CALLS after the next machine
\* has completed: either way the next machine is at START.
LEMMA GoesFresh ==
  ASSUME FsmInv, NEW s, Goes(s)
  PROVE  fsm \in Fsms /\ (fsm < Depth => chState[fsm + 1] = START)
<1>1. fsm \in Fsms BY DEF Goes
<1>2. CASE Calling
  BY <1>1, <1>2 DEF Goes, InnerCompleted, FsmInv, CplIsReset
<1>3. CASE ~Calling
  BY <1>1, <1>3, FsmFacts DEF Calling, InState, FsmInv, InnerStartsFresh, Fsms
<1> QED BY <1>1, <1>2, <1>3

\* Every step keeps the invariant.
LEMMA FsmStep == FsmInv /\ [FsmsNext]_fsmVars => FsmInv'
<1> SUFFICES ASSUME FsmInv, [FsmsNext]_fsmVars PROVE FsmInv' OBVIOUS
<1> USE FsmFacts
<1>1. CASE CallFirst
  BY <1>1 DEF CallFirst, FsmInv, FsmsTyped, InnerStartsFresh, ChainWaits, CplIsReset, Fsms
<1>2. CASE InitFsms
  BY <1>2 DEF InitFsms, FsmInv, FsmsTyped, InnerStartsFresh, ChainWaits, CplIsReset, Fsms, START
<1>3. CASE OnStart
  <2>1. fsm \in Fsms /\ chState[fsm] = START /\ (fsm < Depth => chState[fsm + 1] = START)
    BY <1>3 DEF OnStart, InState, FsmInv, InnerStartsFresh, Fsms
  <2>2. CASE MoveTo(FirstState) /\ Return("on_going")
    BY <2>1, <2>2, ReturnKeeps DEF MoveTo, fsm_rt_t
  <2>3. CASE \E s \in States : MoveTo(s) /\ UNCHANGED <<fsm, got>>
    BY <2>1, <2>3, MoveKeeps DEF MoveTo
  <2> QED BY <1>3, <2>2, <2>3 DEF OnStart
<1>4. CASE CallInner
  BY <1>4 DEF CallInner, Calling, InState, FsmInv, FsmsTyped, InnerStartsFresh,
     ChainWaits, CplIsReset, Fsms
<1>5. CASE InnerNotCompleted
  <2>1. fsm \in Fsms /\ chState[fsm] = CALLS /\ Return("on_going")
    BY <1>5 DEF InnerNotCompleted, Calling, InState
  <2>2. chState' = [chState EXCEPT ![fsm] = CALLS]
    BY <1>5, <2>1 DEF InnerNotCompleted, FsmInv, FsmsTyped
  <2> QED BY <2>1, <2>2, ReturnKeeps DEF fsm_rt_t, States
<1>6. ASSUME NEW s \in States, UpdateStateTo(s) PROVE FsmInv'
  BY <1>6, GoesFresh, MoveKeeps DEF UpdateStateTo, MoveTo
<1>7. ASSUME NEW s \in States, TransferTo(s) PROVE FsmInv'
  BY <1>7, GoesFresh, ReturnKeeps DEF TransferTo, MoveTo, fsm_rt_t
<1>8. ASSUME NEW value \in {"on_going", "wait_for_obj"}, Yield(value) PROVE FsmInv'
  <2>1. fsm \in Fsms /\ chState[fsm] \in States /\ Return(value) /\ UNCHANGED chState
    BY <1>8 DEF Yield, Goes
  <2>2. chState' = [chState EXCEPT ![fsm] = chState[fsm]]
    BY <2>1 DEF FsmInv, FsmsTyped
  <2>3. fsm < Depth => chState[fsm + 1] = START
    BY <1>8, GoesFresh DEF Yield
  <2> QED BY <2>1, <2>2, <2>3, ReturnKeeps DEF fsm_rt_t
<1>9. ASSUME NEW value \in {"cpl", "err"}, End(value) PROVE FsmInv'
  <2>1. Goes(START) /\ Return(value) /\ chState' = [chState EXCEPT ![fsm] = START]
    BY <1>9 DEF End
  <2>2. fsm \in Fsms /\ (fsm < Depth => chState[fsm + 1] = START)
    BY <2>1, GoesFresh
  <2> QED BY <2>1, <2>2, ReturnKeeps DEF fsm_rt_t
<1>10. CASE UNCHANGED fsmVars
  BY <1>10 DEF fsmVars, FsmInv, FsmsTyped, InnerStartsFresh, ChainWaits, CplIsReset
<1> QED
  BY <1>1, <1>2, <1>3, <1>4, <1>5, <1>6, <1>7, <1>8, <1>9, <1>10 DEF FsmsNext

\* The switch on chState always finds its case.
THEOREM FsmTypes == FsmsSpec => []FsmsTyped
<1>1. FsmInv => FsmsTyped BY DEF FsmInv
<1> QED BY <1>1, FsmInit, FsmStep, PTL DEF FsmsSpec

\* No machine is resumed half way by a later run of the one that calls it.
THEOREM InnerAlwaysStartsFresh == FsmsSpec => []InnerStartsFresh
<1>1. FsmInv => InnerStartsFresh BY DEF FsmInv
<1> QED BY <1>1, FsmInit, FsmStep, PTL DEF FsmsSpec


---------------------------------------------------------------------------
(* One completion of the inner machine for each stay in CALLS.              *)

\* A value waits only for the machine running, in CALLS, and what `completed'
\* has counted is the fsm_rt_cpl among these values.
CompletedOnce ==
  /\ completed \in [Fsms -> Nat]
  /\ \A m \in Fsms : got[m] # NONE => m = fsm /\ m < Depth /\ chState[m] = CALLS
  /\ \A m \in Fsms : completed[m] = IF got[m] = "cpl" THEN 1 ELSE 0

LEMMA CompletedInit == FsmsInit => CompletedOnce
BY FsmFacts DEF FsmsInit, CompletedOnce

\* A value is returned to the machine before, which waits in CALLS.
LEMMA ReturnCounts ==
  ASSUME FsmInv, CompletedOnce, fsm \in Fsms, NEW value \in fsm_rt_t, Return(value),
         NEW s \in {START} \union States,
         chState' = [chState EXCEPT ![fsm] = s],
         completed' = [m \in Fsms |->
                         IF m = fsm THEN 0
                         ELSE IF m = fsm - 1 /\ value = "cpl" THEN completed[m] + 1
                         ELSE completed[m]]
  PROVE  CompletedOnce'
<1> USE FsmFacts DEF FsmInv, FsmsTyped, Return, Fsms
<1>1. completed' \in [Fsms -> Nat]
  BY DEF CompletedOnce
<1>2. ASSUME NEW m \in Fsms, got'[m] # NONE PROVE m = fsm' /\ m < Depth /\ chState'[m] = CALLS
  <2>1. CASE m = fsm - 1
    BY <2>1 DEF ChainWaits
  <2>2. CASE m # fsm - 1
    <3>1. m # fsm /\ got[m] # NONE
      BY <1>2, <2>2
    <3> QED BY <3>1 DEF CompletedOnce
  <2> QED BY <2>1, <2>2
<1>3. ASSUME NEW m \in Fsms PROVE completed'[m] = IF got'[m] = "cpl" THEN 1 ELSE 0
  <2>1. completed[m] = IF got[m] = "cpl" THEN 1 ELSE 0
    BY DEF CompletedOnce
  <2>2. CASE m = fsm - 1
    <3>1. got[m] = NONE
      BY <2>2 DEF ChainWaits
    <3> QED BY <2>1, <2>2, <3>1
  <2>3. CASE m # fsm - 1
    BY <2>1, <2>3
  <2> QED BY <2>2, <2>3
<1> QED BY <1>1, <1>2, <1>3 DEF CompletedOnce

\* A transition within a call.
LEMMA MoveCounts ==
  ASSUME FsmInv, CompletedOnce, fsm \in Fsms, NEW s \in States, MoveTo(s), fsm' = fsm,
         \/ got' = got /\ got[fsm] = NONE
         \/ got' = [got EXCEPT ![fsm] = NONE]
  PROVE  CompletedOnce'
<1> USE FsmFacts DEF FsmInv, FsmsTyped, MoveTo, Fsms, CompletedOnce
<1>1. got'[fsm] = NONE /\ completed'[fsm] = 0
  OBVIOUS
<1>2. ASSUME NEW m \in Fsms, m # fsm
      PROVE  got'[m] = got[m] /\ got[m] = NONE /\ completed'[m] = completed[m]
  BY <1>2
<1>3. completed' \in [Fsms -> Nat]
  OBVIOUS
<1> QED BY <1>1, <1>2, <1>3

LEMMA CompletedStep == FsmInv /\ CompletedOnce /\ [FsmsNext]_fsmVars => CompletedOnce'
<1> SUFFICES ASSUME FsmInv, CompletedOnce, [FsmsNext]_fsmVars PROVE CompletedOnce'
  OBVIOUS
<1> USE FsmFacts
<1>0. /\ chState \in [Fsms -> {START} \union States] /\ got \in [Fsms -> fsm_rt_t \union {NONE}]
      /\ completed \in [Fsms -> Nat] /\ fsm \in 0 .. Depth
      /\ \A m \in Fsms : got[m] # NONE => m = fsm /\ m < Depth /\ chState[m] = CALLS
  BY DEF FsmInv, FsmsTyped, CompletedOnce
<1>1. CASE CallFirst \/ CallInner
  <2>1. fsm \notin Fsms \/ got[fsm] = NONE
    BY <1>1 DEF CallFirst, CallInner, Fsms
  <2>2. \A m \in Fsms : got[m] = NONE
    BY <1>0, <2>1
  <2> QED BY <1>1, <2>2 DEF CallFirst, CallInner, CompletedOnce
<1>2. CASE InitFsms
  <2>1. \A m \in Fsms : got[m] = NONE
    BY <1>0, <1>2 DEF InitFsms, Fsms
  <2> QED BY <1>2, <2>1 DEF InitFsms, CompletedOnce
<1>3. CASE OnStart
  <2>1. fsm \in Fsms /\ chState[fsm] = START
    BY <1>3 DEF OnStart, InState
  <2>2. got[fsm] = NONE
    BY <1>0, <2>1
  <2>3. CASE MoveTo(FirstState) /\ Return("on_going")
    <3>1. completed' = [m \in Fsms |-> IF m = fsm THEN 0
                                       ELSE IF m = fsm - 1 /\ "on_going" = "cpl"
                                            THEN completed[m] + 1 ELSE completed[m]]
      BY <1>0, <2>3 DEF MoveTo
    <3> QED BY <2>1, <2>3, <3>1, ReturnCounts DEF MoveTo, fsm_rt_t
  <2>4. CASE \E s \in States : MoveTo(s) /\ UNCHANGED <<fsm, got>>
    BY <2>1, <2>2, <2>4, MoveCounts
  <2> QED BY <1>3, <2>3, <2>4 DEF OnStart
<1>4. CASE InnerNotCompleted
  <2>1. /\ fsm \in Fsms /\ chState[fsm] = CALLS /\ Return("on_going") /\ got[fsm] # "cpl"
        /\ UNCHANGED <<chState, completed>>
    BY <1>4 DEF InnerNotCompleted, InnerCompleted, Calling, InState
  <2>2. chState' = [chState EXCEPT ![fsm] = CALLS] /\ completed[fsm] = 0
    BY <1>0, <2>1 DEF CompletedOnce
  <2>3. completed' = [m \in Fsms |-> IF m = fsm THEN 0
                                     ELSE IF m = fsm - 1 /\ "on_going" = "cpl"
                                          THEN completed[m] + 1 ELSE completed[m]]
    BY <1>0, <2>1, <2>2
  <2> QED BY <2>1, <2>2, <2>3, ReturnCounts DEF fsm_rt_t, States
<1>5. ASSUME NEW s \in States, UpdateStateTo(s) PROVE CompletedOnce'
  <2>1. fsm \in Fsms
    BY <1>5 DEF UpdateStateTo, Goes
  <2> QED BY <1>5, <2>1, MoveCounts DEF UpdateStateTo
<1>6. ASSUME NEW s \in States, TransferTo(s) PROVE CompletedOnce'
  <2>1. fsm \in Fsms /\ MoveTo(s) /\ Return("on_going")
    BY <1>6 DEF TransferTo, Goes
  <2>2. completed' = [m \in Fsms |-> IF m = fsm THEN 0
                                     ELSE IF m = fsm - 1 /\ "on_going" = "cpl"
                                          THEN completed[m] + 1 ELSE completed[m]]
    BY <1>0, <2>1 DEF MoveTo
  <2> QED BY <2>1, <2>2, ReturnCounts DEF MoveTo, fsm_rt_t
<1>7. ASSUME NEW value \in {"on_going", "wait_for_obj"}, Yield(value) PROVE CompletedOnce'
  <2>1. /\ fsm \in Fsms /\ chState[fsm] \in States /\ Return(value)
        /\ Goes(chState[fsm]) /\ UNCHANGED <<chState, completed>>
    BY <1>7 DEF Yield, Goes
  <2>2. ~Calling
    BY <2>1 DEF Goes, Calling, InState
  <2>3. got[fsm] = NONE /\ completed[fsm] = 0
    BY <1>0, <2>1, <2>2 DEF Calling, InState, CompletedOnce
  <2>4. /\ chState' = [chState EXCEPT ![fsm] = chState[fsm]]
        /\ completed' = [m \in Fsms |-> IF m = fsm THEN 0
                                        ELSE IF m = fsm - 1 /\ value = "cpl"
                                             THEN completed[m] + 1 ELSE completed[m]]
    BY <1>0, <2>1, <2>3
  <2> QED BY <2>1, <2>4, ReturnCounts DEF fsm_rt_t
<1>8. ASSUME NEW value \in {"cpl", "err"}, End(value) PROVE CompletedOnce'
  <2>1. /\ fsm \in Fsms /\ Return(value) /\ value \in fsm_rt_t
        /\ chState' = [chState EXCEPT ![fsm] = START]
    BY <1>8 DEF End, Goes, fsm_rt_t
  <2> QED BY <1>8, <2>1, ReturnCounts DEF End
<1>9. CASE UNCHANGED fsmVars
  BY <1>9 DEF fsmVars, CompletedOnce
<1> QED
  BY <1>1, <1>2, <1>3, <1>4, <1>5, <1>6, <1>7, <1>8, <1>9 DEF FsmsNext


\* A machine leaves its call of the next one after exactly one completion of it,
\* however many calls that took.
THEOREM LeavesWhenCompleted == FsmsSpec => LeavesCompleted
<1> DEFINE AfterCalls == \A m \in 1 .. Depth - 1 :
             fsm # 0 /\ chState[m] = CALLS /\ chState'[m] # CALLS => completed[m] = 1
<1>1. FsmInv /\ CompletedOnce /\ [FsmsNext]_fsmVars => [AfterCalls]_fsmVars
  <2> SUFFICES ASSUME FsmInv, CompletedOnce, FsmsNext, NEW m \in 1 .. Depth - 1,
                      fsm # 0, chState[m] = CALLS, chState'[m] # CALLS
               PROVE  completed[m] = 1
    OBVIOUS
  <2>1. m \in Fsms /\ m < Depth /\ chState \in [Fsms -> {START} \union States]
    BY FsmFacts DEF Fsms, FsmInv, FsmsTyped
  <2>2. fsm = m
    BY <2>1 DEF FsmsNext, CallFirst, InitFsms, OnStart, CallInner, InnerNotCompleted,
       UpdateStateTo, TransferTo, Yield, End, MoveTo
  <2>3. got[m] = "cpl"
    <3>1. Calling
      BY <2>1, <2>2 DEF Calling, InState
    <3>2. \E s : Goes(s)
      BY <2>1, <2>2, FsmFacts DEF FsmsNext, CallFirst, InitFsms, OnStart, InState, CallInner,
         InnerNotCompleted, UpdateStateTo, TransferTo, Yield, End
    <3> QED BY <2>2, <3>1, <3>2 DEF Goes, InnerCompleted
  <2> QED BY <2>1, <2>3 DEF CompletedOnce
<1> HIDE DEF AfterCalls
<1>2. LeavesCompleted <=> [][AfterCalls]_fsmVars
  BY PTL DEF LeavesCompleted, AfterCalls
<1> QED BY <1>1, <1>2, FsmInit, FsmStep, CompletedInit, CompletedStep, PTL DEF FsmsSpec

---------------------------------------------------------------------------
(* Locker.  Interrupts are disabled exactly inside a section, and one       *)
(* context at most has the locker; neither is inductive.  The mask is       *)
(* restored from what each section saved (SavedIsOuter), and a handler      *)
(* leaves a context it came in over as it was because that context was in   *)
(* no section.  A locker is released only by the section that took it       *)
(* (HolderOwns).                                                            *)

\* The running context is one of the contexts.
LEMMA CurrentType ==
  ASSUME LockerTyped
  PROVE  /\ Contexts \subseteq Nat /\ Main \in Contexts
         /\ Len(active) \in Nat \ {0} /\ current \in Contexts
         /\ open \in Seq(Section) /\ Len(open) \in Nat
<1>1. Contexts \subseteq Nat /\ Main \in Contexts
  BY LockerAssumption DEF Contexts, Main
<1>2. Len(active) \in Nat \ {0} /\ current \in Contexts
  BY DEF LockerTyped, current
<1> QED BY <1>1, <1>2 DEF LockerTyped, open

\* Once a context is past DISABLE_GLOBAL_INTERRUPT it is masked by any of its
\* sections, before that by those around the one it enters.
LEMMA InAtomByOuter ==
  ASSUME LockerTyped, NEW c \in Contexts
  PROVE  /\ pc[c] # "disable" => (InAtom(c) <=> OuterMasks(c, Len(regions[c]) + 1))
         /\ StepsOfInner(c) /\ pc[c] = "disable" =>
              (InAtom(c) <=> OuterMasks(c, Len(regions[c])))
<1>1. Len(regions[c]) \in Nat
  BY DEF LockerTyped
<1>2. regions[c] = <<>> => Len(regions[c]) = 0
  OBVIOUS
<1> QED BY <1>1, <1>2 DEF InAtom, Masks, OuterMasks, StepsOfInner

\* A context that is suspended holds no locker by a LOCK.
LEMMA SuspendedHoldsNothing ==
  ASSUME LockerTyped, NEW d \in Contexts, ~InAtom(d), NEW i \in 1 .. Len(regions[d])
  PROVE  ~Holds(d, i)
BY DEF LockerTyped, InAtom, Masks, Holds

\* A step leaves a context alone.
LEMMA SameContext ==
  ASSUME NEW d \in Contexts, regions'[d] = regions[d], pc'[d] = pc[d]
  PROVE  /\ StepsOfInner(d) => StepsOfInner(d)'
         /\ SavedIsOuter(d) => SavedIsOuter(d)'
         /\ InAtom(d)' = InAtom(d)
         /\ \A i \in 1 .. Len(regions[d]) : Holds(d, i)' = Holds(d, i)
<1>1. StepsOfInner(d) => StepsOfInner(d)'
  BY DEF StepsOfInner
<1>2. SavedIsOuter(d) => SavedIsOuter(d)'
  BY DEF SavedIsOuter, OuterMasks
<1>3. InAtom(d)' = InAtom(d)
  BY DEF InAtom, Masks
<1>4. \A i \in 1 .. Len(regions[d]) : Holds(d, i)' = Holds(d, i)
  BY DEF Holds
<1> QED BY <1>1, <1>2, <1>3, <1>4

\* A step of the running context does nothing to the others.
LEMMA OwnStep ==
  ASSUME LockerInv, NEW c \in Contexts, c = current, active' = active, LockerTyped',
         \A d \in Contexts : d # c => regions'[d] = regions[d] /\ pc'[d] = pc[d],
         StepsOfInner(c)', SavedIsOuter(c)', HolderOwns(c)', OneOwner',
         bMasked' = InAtom(c)'
  PROVE  LockerInv'
<1>1. current' = c
  BY DEF current
<1>2. ASSUME NEW d \in Contexts, d # c
      PROVE  StepsOfInner(d)' /\ SavedIsOuter(d)' /\ HolderOwns(d)' /\ ~InAtom(d)'
  <2>1. regions'[d] = regions[d] /\ pc'[d] = pc[d]
    BY <1>2
  <2>2. StepsOfInner(d) /\ SavedIsOuter(d) /\ ~InAtom(d) /\ LockerTyped
    BY <1>2 DEF LockerInv, MaskIsNesting
  <2>3. StepsOfInner(d)' /\ SavedIsOuter(d)' /\ ~InAtom(d)'
    BY <2>1, <2>2, SameContext
  <2>4. \A i \in 1 .. Len(regions[d]) : ~Holds(d, i)'
    BY <2>1, <2>2, SameContext, SuspendedHoldsNothing
  <2>5. HolderOwns(d)'
    BY <2>1, <2>4 DEF HolderOwns
  <2> QED BY <2>3, <2>5
<1>3. ActiveInOrder'
  <2>1. IsActive(c)
    BY CurrentType DEF LockerInv, IsActive, current
  <2>2. \A d \in Contexts : IsActive(d)' = IsActive(d)
    BY DEF IsActive
  <2>3. active[1] = Main /\ \A i, j \in 1 .. Len(active) : i < j => active[i] < active[j]
    BY DEF LockerInv, ActiveInOrder
  <2>4. \A d \in Contexts : ~IsActive(d)' => pc'[d] = "body" /\ regions'[d] = <<>>
    BY <2>1, <2>2 DEF LockerInv, ActiveInOrder
  <2> QED BY <2>3, <2>4 DEF ActiveInOrder
<1>4. MaskIsNesting'
  BY <1>1, <1>2 DEF MaskIsNesting
<1>5. \A d \in Contexts : StepsOfInner(d)' /\ SavedIsOuter(d)' /\ HolderOwns(d)'
  BY <1>2
<1> QED BY <1>3, <1>4, <1>5 DEF LockerInv

\* Entering a section and leaving it, as changes to the sections of c.
LEMMA OpenedIs ==
  ASSUME LockerTyped, NEW c \in Contexts, c = current,
         NEW kind \in Kinds, NEW tState \in BOOLEAN, Opened(kind, tState)
  PROVE  /\ regions' \in [Contexts -> Seq(Section)]
         /\ Len(regions'[c]) = Len(regions[c]) + 1 /\ Len(regions[c]) \in Nat
         /\ \A i \in 1 .. Len(regions[c]) : regions'[c][i] = regions[c][i]
         /\ regions'[c][Len(regions[c]) + 1] = [kind |-> kind, tState |-> tState]
         /\ \A d \in Contexts : d # c => regions'[d] = regions[d]
<1> DEFINE s == [kind |-> kind, tState |-> tState]
<1>1. s \in Section /\ regions[c] \in Seq(Section) /\ regions \in [Contexts -> Seq(Section)]
  BY DEF Section, LockerTyped
<1> HIDE DEF s
<1>2. regions' = [regions EXCEPT ![c] = Append(regions[c], s)]
  BY DEF Opened, s
<1>3. Append(regions[c], s) \in Seq(Section)
  BY <1>1
<1>4. regions'[c] = Append(regions[c], s) /\ \A d \in Contexts : d # c => regions'[d] = regions[d]
  BY <1>1, <1>2
<1>5. regions' \in [Contexts -> Seq(Section)]
  BY <1>1, <1>2, <1>3
<1>6. /\ Len(Append(regions[c], s)) = Len(regions[c]) + 1 /\ Len(regions[c]) \in Nat
      /\ \A i \in 1 .. Len(regions[c]) : Append(regions[c], s)[i] = regions[c][i]
      /\ Append(regions[c], s)[Len(regions[c]) + 1] = s
  BY <1>1
<1> QED BY <1>4, <1>5, <1>6 DEF s

LEMMA AllButLast ==
  ASSUME NEW S, NEW s \in Seq(S), s # <<>>
  PROVE  /\ Len(s) \in Nat \ {0} /\ SubSeq(s, 1, Len(s) - 1) \in Seq(S)
         /\ Len(SubSeq(s, 1, Len(s) - 1)) = Len(s) - 1
         /\ \A i \in 1 .. Len(s) - 1 : SubSeq(s, 1, Len(s) - 1)[i] = s[i]
<1>1. PICK n \in Nat : n = Len(s) /\ n # 0
  OBVIOUS
<1>2. \A i \in 1 .. n - 1 : i \in 1 .. Len(s) /\ s[i] \in S
  BY <1>1
<1>3. /\ Len(SubSeq(s, 1, n - 1)) = n - 1
      /\ \A i \in 1 .. n - 1 : SubSeq(s, 1, n - 1)[i] = s[i]
  BY <1>1
<1>4. SubSeq(s, 1, n - 1) \in Seq(S)
  BY <1>1, <1>2
<1> QED BY <1>1, <1>3, <1>4

LEMMA ClosedIs ==
  ASSUME LockerTyped, NEW c \in Contexts, c = current, open # <<>>, Closed
  PROVE  /\ regions' \in [Contexts -> Seq(Section)]
         /\ Len(regions'[c]) = Len(regions[c]) - 1 /\ Len(regions[c]) \in Nat \ {0}
         /\ \A i \in 1 .. Len(regions[c]) - 1 : regions'[c][i] = regions[c][i]
         /\ \A d \in Contexts : d # c => regions'[d] = regions[d]
<1> DEFINE r == SubSeq(regions[c], 1, Len(regions[c]) - 1)
<1>1. /\ regions[c] \in Seq(Section) /\ regions[c] # <<>>
      /\ regions \in [Contexts -> Seq(Section)]
  BY DEF open, LockerTyped
<1>2. regions' = [regions EXCEPT ![c] = r]
  BY DEF Closed
<1>3. /\ Len(r) = Len(regions[c]) - 1 /\ Len(regions[c]) \in Nat \ {0} /\ r \in Seq(Section)
      /\ \A i \in 1 .. Len(regions[c]) - 1 : r[i] = regions[c][i]
  BY <1>1, AllButLast
<1> HIDE DEF r
<1>4. regions'[c] = r /\ \A d \in Contexts : d # c => regions'[d] = regions[d]
  BY <1>1, <1>2
<1>5. regions' \in [Contexts -> Seq(Section)]
  BY <1>1, <1>2, <1>3
<1> QED BY <1>3, <1>4, <1>5

\* The step of the running context changes.
LEMMA StepIs ==
  ASSUME LockerTyped, NEW c \in Contexts, c = current, NEW step \in Steps, GoTo(step)
  PROVE  /\ pc' \in [Contexts -> Steps] /\ pc'[c] = step
         /\ \A d \in Contexts : d # c => pc'[d] = pc[d]
BY DEF LockerTyped, GoTo

\* GET_GLOBAL_INTERRUPT_STATE on entry: the section saves what is outside it.
LEMMA ReadStateKeeps ==
  ASSUME LockerInv, NEW kind \in Kinds, ReadState(kind)
  PROVE  LockerInv'
<1>1. PICK c \in Contexts : c = current
  BY CurrentType DEF LockerInv
<1>2. PICK n \in Nat : n = Len(regions[c])
  BY <1>1 DEF LockerInv, LockerTyped
<1>3. PICK tState \in BOOLEAN : tState = bMasked
  BY DEF LockerInv, LockerTyped
<1>4. PICK step \in Steps : step = IF kind = "none" THEN "body" ELSE "disable"
  BY DEF Steps
<1>5. /\ LockerTyped /\ StepsOfInner(c) /\ SavedIsOuter(c) /\ HolderOwns(c) /\ OneOwner
      /\ bMasked = InAtom(c)
  BY <1>1 DEF LockerInv, MaskIsNesting
<1>6. /\ pc[c] = "body" /\ Opened(kind, tState) /\ GoTo(step)
      /\ kind = "plain" => ~InAtom(c)
      /\ UNCHANGED <<bMasked, active, tLock, owners>>
  BY <1>1, <1>3, <1>4 DEF ReadState, MayOpen, AtStep, SavedState
<1>7. /\ regions' \in [Contexts -> Seq(Section)] /\ Len(regions'[c]) = n + 1
      /\ \A i \in 1 .. n : regions'[c][i] = regions[c][i]
      /\ regions'[c][n + 1].kind = kind /\ regions'[c][n + 1].tState = tState
      /\ \A d \in Contexts : d # c => regions'[d] = regions[d]
  <2>1. /\ regions' \in [Contexts -> Seq(Section)] /\ Len(regions'[c]) = n + 1
        /\ \A i \in 1 .. n : regions'[c][i] = regions[c][i]
        /\ regions'[c][n + 1] = [kind |-> kind, tState |-> tState]
        /\ \A d \in Contexts : d # c => regions'[d] = regions[d]
    BY <1>1, <1>2, <1>5, <1>6, OpenedIs
  <2> QED BY <2>1
<1>8. /\ pc' \in [Contexts -> Steps] /\ pc'[c] = step
      /\ \A d \in Contexts : d # c => pc'[d] = pc[d]
  BY <1>1, <1>5, <1>6, StepIs
<1>9. LockerTyped'
  BY <1>5, <1>6, <1>7, <1>8 DEF LockerTyped
<1>10. StepsOfInner(c)'
  <2>1. regions'[c] # <<>>
    BY <1>7
  <2>2. ASSUME NEW i \in 1 .. n PROVE regions'[c][i].kind # "enter"
    BY <1>2, <1>5, <1>6, <1>7, <2>2 DEF StepsOfInner
  <2>3. kind = "none" => step = "body"
    BY <1>4
  <2>4. kind # "none" => step = "disable"
    BY <1>4
  <2> QED BY <1>7, <1>8, <2>1, <2>2, <2>3, <2>4 DEF StepsOfInner
<1>11. ASSUME NEW i \in 1 .. n + 1 PROVE OuterMasks(c, i)' <=> OuterMasks(c, i)
  <2>1. \A j \in 1 .. i - 1 : regions'[c][j] = regions[c][j]
    BY <1>7
  <2> QED BY <2>1 DEF OuterMasks
<1>12. InAtom(c) <=> OuterMasks(c, n + 1)
  BY <1>2, <1>5, <1>6, InAtomByOuter
<1>13. SavedIsOuter(c)'
  <2>1. ASSUME NEW i \in 1 .. n
        PROVE  /\ regions'[c][i].kind \in {"region", "enter", "lock"} =>
                    (regions'[c][i].tState <=> OuterMasks(c, i)')
               /\ regions'[c][i].kind = "plain" => ~OuterMasks(c, i)'
    <3>1. regions'[c][i] = regions[c][i] /\ i \in 1 .. Len(regions[c]) /\ i \in 1 .. n + 1
      BY <1>2, <1>7
    <3>2. OuterMasks(c, i)' <=> OuterMasks(c, i)
      BY <1>11, <3>1
    <3> QED BY <1>5, <3>1, <3>2 DEF SavedIsOuter
  <2>2. (tState <=> OuterMasks(c, n + 1)') /\ (kind = "plain" => ~OuterMasks(c, n + 1)')
    BY <1>3, <1>5, <1>6, <1>11, <1>12
  <2>3. \A i \in 1 .. n + 1 : i \in 1 .. n \/ i = n + 1
    OBVIOUS
  <2>4. ASSUME NEW i \in 1 .. n + 1 PROVE regions'[c][i].tState \in BOOLEAN
    <3>1. regions'[c] \in Seq(Section) /\ i \in 1 .. Len(regions'[c])
      BY <1>7
    <3>2. regions'[c][i] \in Section
      BY <3>1
    <3> QED BY <3>2 DEF Section
  <2>5. ASSUME NEW i \in 1 .. n + 1
        PROVE  /\ regions'[c][i].kind \in {"region", "enter", "lock"} =>
                    regions'[c][i].tState = OuterMasks(c, i)'
               /\ regions'[c][i].kind = "plain" => ~OuterMasks(c, i)'
    <3>1. OuterMasks(c, i)' \in BOOLEAN
      BY DEF OuterMasks
    <3>2. CASE i \in 1 .. n
      BY <2>1, <2>4, <3>1, <3>2
    <3>3. CASE i = n + 1
      BY <1>7, <2>2, <2>4, <3>1, <3>3
    <3> QED BY <2>3, <3>2, <3>3
  <2> QED BY <1>7, <2>5 DEF SavedIsOuter
<1>14. HolderOwns(c)'
  <2>1. ~Holds(c, n + 1)' /\ \A i \in 1 .. n : Holds(c, i)' <=> Holds(c, i)
    BY <1>2, <1>4, <1>6, <1>7, <1>8 DEF Holds
  <2> QED BY <1>2, <1>5, <1>6, <1>7, <2>1 DEF HolderOwns
<1>15. InAtom(c)' <=> InAtom(c)
  <2>10. ASSUME kind # "none", NEW i \in 1 .. n + 1
         PROVE  Masks(c, i)' <=> regions'[c][i].kind # "none" /\ i # n + 1
    BY <1>4, <1>7, <1>8, <2>10 DEF Masks
  <2>11. kind # "none" => (InAtom(c)' <=> \E i \in 1 .. n : regions'[c][i].kind # "none")
    <3>1. \A i : i \in 1 .. n <=> i \in 1 .. n + 1 /\ i # n + 1
      OBVIOUS
    <3> QED BY <1>7, <2>10, <3>1 DEF InAtom
  <2>1. kind # "none" => (InAtom(c)' <=> OuterMasks(c, n + 1)')
    BY <1>7, <2>11 DEF OuterMasks
  <2>2. kind = "none" => (InAtom(c)' <=> \E i \in 1 .. n + 1 : regions'[c][i].kind # "none")
    BY <1>4, <1>7, <1>8 DEF InAtom, Masks
  <2>3. kind = "none" => (InAtom(c)' <=> OuterMasks(c, n + 1)')
    BY <1>7, <2>2 DEF OuterMasks
  <2> QED BY <1>11, <1>12, <2>1, <2>3
<1>16. bMasked' = InAtom(c)' /\ OneOwner'
  <2>1. InAtom(c)' \in BOOLEAN /\ InAtom(c) \in BOOLEAN
    BY DEF InAtom
  <2> QED BY <1>5, <1>6, <1>15, <2>1 DEF OneOwner
<1> QED BY <1>1, <1>6, <1>7, <1>8, <1>9, <1>10, <1>13, <1>14, <1>16, OwnStep

\* DISABLE_GLOBAL_INTERRUPT: from here on the innermost section masks.
LEMMA DisableKeeps ==
  ASSUME LockerInv, Disable
  PROVE  LockerInv'
<1>1. PICK c \in Contexts : c = current
  BY CurrentType DEF LockerInv
<1>2. PICK n \in Nat : n = Len(regions[c])
  BY <1>1 DEF LockerInv, LockerTyped
<1>3. /\ LockerTyped /\ StepsOfInner(c) /\ SavedIsOuter(c) /\ HolderOwns(c) /\ OneOwner
      /\ bMasked = InAtom(c)
  BY <1>1 DEF LockerInv, MaskIsNesting
<1>4. PICK step \in Steps : step = IF inner.kind \in {"enter", "lock"} THEN "test" ELSE "body"
  BY DEF Steps
<1>5. /\ pc[c] = "disable" /\ GoTo(step) /\ bMasked' = TRUE
      /\ UNCHANGED <<active, regions, tLock, owners>>
  BY <1>1, <1>4 DEF Disable, AtStep
<1>6. /\ pc' \in [Contexts -> Steps] /\ pc'[c] = step
      /\ \A d \in Contexts : d # c => pc'[d] = pc[d]
  BY <1>1, <1>3, <1>5, StepIs
<1>7. n # 0 /\ regions[c][n] = inner /\ regions[c][n].kind # "none"
  <2>1. regions[c] # <<>> /\ regions[c] \in Seq(Section)
    BY <1>3, <1>5 DEF StepsOfInner, LockerTyped
  <2>2. n # 0
    BY <1>2, <2>1
  <2> QED BY <1>1, <1>2, <1>3, <1>5, <2>2 DEF StepsOfInner, open, inner
<1>8. LockerTyped' /\ OneOwner'
  BY <1>3, <1>5, <1>6 DEF LockerTyped, OneOwner
<1>9. StepsOfInner(c)'
  <2>1. \A i \in 1 .. n : regions[c][i].kind = "enter" => i = n
    BY <1>2, <1>3 DEF StepsOfInner
  <2> QED BY <1>2, <1>4, <1>5, <1>6, <1>7, <2>1 DEF StepsOfInner
<1>10. SavedIsOuter(c)'
  BY <1>3, <1>5 DEF SavedIsOuter, OuterMasks
<1>11. HolderOwns(c)'
  <2>1. \A i \in 1 .. n : Holds(c, i)' <=> Holds(c, i)
    BY <1>2, <1>4, <1>5, <1>6, <1>7 DEF Holds
  <2> QED BY <1>2, <1>3, <1>5, <2>1 DEF HolderOwns
<1>12. InAtom(c)'
  BY <1>2, <1>4, <1>5, <1>6, <1>7 DEF InAtom, Masks
<1>13. bMasked' = InAtom(c)'
  BY <1>5, <1>12 DEF InAtom
<1> QED BY <1>1, <1>5, <1>6, <1>8, <1>9, <1>10, <1>11, <1>13, OwnStep

\* The test of the locker with interrupts disabled: whoever takes it is alone.
LEMMA LockTestKeeps ==
  ASSUME LockerInv, LockTest
  PROVE  LockerInv'
<1>1. PICK c \in Contexts : c = current
  BY CurrentType DEF LockerInv
<1>2. PICK n \in Nat : n = Len(regions[c])
  BY <1>1 DEF LockerInv, LockerTyped
<1>3. /\ LockerTyped /\ StepsOfInner(c) /\ SavedIsOuter(c) /\ HolderOwns(c) /\ OneOwner
      /\ bMasked = InAtom(c)
  BY <1>1 DEF LockerInv, MaskIsNesting
<1>4. PICK step \in Steps : step = IF inner.kind = "lock" /\ Free THEN "body" ELSE "restore"
  BY DEF Steps
<1>5. /\ pc[c] = "test" /\ GoTo(step) /\ tLock' = TRUE
      /\ owners' = IF Free THEN owners \union {c} ELSE owners
      /\ UNCHANGED <<bMasked, active, regions>>
  BY <1>1, <1>4 DEF LockTest, AtStep
<1>6. /\ pc' \in [Contexts -> Steps] /\ pc'[c] = step
      /\ \A d \in Contexts : d # c => pc'[d] = pc[d]
  BY <1>1, <1>3, <1>5, StepIs
<1>7. n # 0 /\ regions[c][n] = inner /\ regions[c][n].kind \in {"enter", "lock"}
  <2>1. regions[c] # <<>> /\ regions[c] \in Seq(Section)
    BY <1>3, <1>5 DEF StepsOfInner, LockerTyped
  <2>2. n # 0
    BY <1>2, <2>1
  <2> QED BY <1>1, <1>2, <1>3, <1>5, <2>2 DEF StepsOfInner, open, inner
<1>8. owners' \subseteq Contexts /\ OneOwner'
  <2>1. Free => owners = {} /\ owners' = {c}
    BY <1>3, <1>5 DEF Free, OneOwner
  <2>2. ~Free => owners # {} /\ owners' = owners
    BY <1>3, <1>5 DEF Free, OneOwner, LockerTyped
  <2> QED BY <1>3, <1>5, <2>1, <2>2 DEF OneOwner, LockerTyped
<1>9. LockerTyped'
  BY <1>3, <1>5, <1>6, <1>8 DEF LockerTyped
<1>10. StepsOfInner(c)'
  <2>1. \A i \in 1 .. n : regions[c][i].kind = "enter" => i = n
    BY <1>2, <1>3 DEF StepsOfInner
  <2> QED BY <1>2, <1>4, <1>5, <1>6, <1>7, <2>1 DEF StepsOfInner
<1>11. SavedIsOuter(c)'
  BY <1>3, <1>5 DEF SavedIsOuter, OuterMasks
<1>12. HolderOwns(c)'
  <2>1. CASE Free
    <3>1. owners = {} /\ c \in owners'
      BY <1>3, <1>5, <2>1 DEF Free, OneOwner
    <3>2. \A i \in 1 .. n : ~Holds(c, i)
      BY <1>2, <1>3, <3>1 DEF HolderOwns
    <3>3. \A i \in 1 .. n : Holds(c, i)' => i = n
      BY <1>2, <1>5, <1>6, <3>2 DEF Holds
    <3> QED BY <1>2, <1>5, <3>1, <3>3 DEF HolderOwns
  <2>2. CASE ~Free
    <3>1. \A i \in 1 .. n : Holds(c, i)' <=> Holds(c, i)
      BY <1>2, <1>4, <1>5, <1>6, <2>2 DEF Holds
    <3> QED BY <1>2, <1>3, <1>5, <2>2, <3>1 DEF HolderOwns
  <2> QED BY <2>1, <2>2
<1>13. InAtom(c)' <=> InAtom(c)
  BY <1>2, <1>4, <1>5, <1>6 DEF InAtom, Masks
<1>14. bMasked' = InAtom(c)'
  BY <1>3, <1>5, <1>13 DEF InAtom
<1> QED BY <1>1, <1>5, <1>6, <1>8, <1>9, <1>10, <1>11, <1>12, <1>14, OwnStep

\* The end of a section restores the mask of what is around it.
LEMMA CloseRestores ==
  ASSUME LockerInv, NEW c \in Contexts, c = current, pc[c] \in {"restore", "body"},
         open # <<>>, bMasked' = Restored(inner), Closed,
         pc' \in [Contexts -> Steps], pc'[c] = "body"
  PROVE  /\ regions' \in [Contexts -> Seq(Section)] /\ bMasked' \in BOOLEAN
         /\ \A d \in Contexts : d # c => regions'[d] = regions[d]
         /\ StepsOfInner(c)' /\ SavedIsOuter(c)' /\ bMasked' = InAtom(c)'
         /\ \A i \in 1 .. Len(regions'[c]) : /\ i \in 1 .. Len(regions[c]) /\ i # Len(regions[c])
                                             /\ Holds(c, i)' => Holds(c, i)
<1>1. PICK n \in Nat : n = Len(regions[c])
  BY DEF LockerInv, LockerTyped
<1>2. LockerTyped /\ StepsOfInner(c) /\ SavedIsOuter(c) /\ bMasked = InAtom(c)
  BY DEF LockerInv, MaskIsNesting
<1>3. /\ regions' \in [Contexts -> Seq(Section)]
      /\ Len(regions'[c]) = n - 1 /\ n # 0
      /\ \A i \in 1 .. n - 1 : regions'[c][i] = regions[c][i]
      /\ \A d \in Contexts : d # c => regions'[d] = regions[d]
  BY <1>1, <1>2, ClosedIs
<1>4. inner = regions[c][n] /\ inner \in Section
  <2>1. regions[c] \in Seq(Section) /\ n \in 1 .. Len(regions[c])
    BY <1>1, <1>2, <1>3 DEF LockerTyped
  <2> QED BY <1>1, <2>1 DEF open, inner
<1>5. StepsOfInner(c)'
  <2>1. \A i \in 1 .. n - 1 : regions[c][i].kind # "enter"
    BY <1>1, <1>2 DEF StepsOfInner
  <2> QED BY <1>3, <2>1 DEF StepsOfInner
<1>6. ASSUME NEW i \in 1 .. n PROVE OuterMasks(c, i)' <=> OuterMasks(c, i)
  <2>1. \A j \in 1 .. i - 1 : regions'[c][j] = regions[c][j]
    BY <1>3
  <2> QED BY <2>1 DEF OuterMasks
<1>7. SavedIsOuter(c)'
  <2>1. ASSUME NEW i \in 1 .. n - 1
        PROVE  /\ regions'[c][i].kind \in {"region", "enter", "lock"} =>
                    regions'[c][i].tState = OuterMasks(c, i)'
               /\ regions'[c][i].kind = "plain" => ~OuterMasks(c, i)'
    <3>1. regions'[c][i] = regions[c][i] /\ i \in 1 .. Len(regions[c]) /\ i \in 1 .. n
      BY <1>1, <1>3
    <3>2. OuterMasks(c, i)' = OuterMasks(c, i)
      BY <1>6, <3>1 DEF OuterMasks
    <3> QED BY <1>2, <3>1, <3>2 DEF SavedIsOuter
  <2> QED BY <1>3, <2>1 DEF SavedIsOuter
<1>8. InAtom(c)' <=> OuterMasks(c, n)
  <2>1. InAtom(c)' <=> \E i \in 1 .. n - 1 : regions'[c][i].kind # "none"
    BY <1>3 DEF InAtom, Masks
  <2> QED BY <1>3, <2>1 DEF OuterMasks
<1>9. bMasked' <=> OuterMasks(c, n)
  <2>1. n \in 1 .. Len(regions[c])
    BY <1>1, <1>3
  <2>2. CASE inner.kind = "none"
    <3>1. bMasked' = bMasked
      BY <2>2 DEF Restored
    <3>2. InAtom(c) <=> OuterMasks(c, n + 1)
      BY <1>1, <1>2, InAtomByOuter
    <3>3. OuterMasks(c, n + 1) <=> OuterMasks(c, n)
      BY <1>4, <2>2 DEF OuterMasks
    <3> QED BY <1>2, <3>1, <3>2, <3>3
  <2>3. CASE inner.kind = "plain"
    BY <1>2, <1>4, <2>1, <2>3 DEF Restored, SavedIsOuter
  <2>4. CASE inner.kind \in {"region", "enter", "lock"}
    BY <1>2, <1>4, <2>1, <2>4 DEF Restored, SavedIsOuter
  <2> QED BY <1>4, <2>2, <2>3, <2>4 DEF Section, Kinds
<1>10. bMasked' \in BOOLEAN
  BY <1>2, <1>4 DEF Restored, Section, LockerTyped
<1>11. bMasked' = InAtom(c)'
  BY <1>8, <1>9, <1>10 DEF InAtom
<1>12. \A i \in 1 .. n - 1 : Holds(c, i)' => Holds(c, i)
  BY <1>1, <1>3 DEF Holds
<1>13. \A i \in 1 .. n - 1 : i \in 1 .. n /\ i # n
  OBVIOUS
<1> QED BY <1>1, <1>3, <1>5, <1>7, <1>10, <1>11, <1>12, <1>13

\* Fewer sections that hold the locker are still one at most.
LEMMA FewerHold ==
  ASSUME NEW c \in Contexts, HolderOwns(c), owners' = owners,
         \A i \in 1 .. Len(regions'[c]) : /\ i \in 1 .. Len(regions[c]) /\ i # Len(regions[c])
                                          /\ Holds(c, i)' => Holds(c, i)
  PROVE  HolderOwns(c)'
<1> SUFFICES ASSUME NEW i \in 1 .. Len(regions'[c]), Holds(c, i)'
             PROVE  /\ c \in owners'
                    /\ \A j \in 1 .. Len(regions'[c]) : Holds(c, j)' => j = i
  BY DEF HolderOwns
<1>1. i \in 1 .. Len(regions[c]) /\ Holds(c, i)
  BY DEF Holds
<1>2. c \in owners
  BY <1>1 DEF HolderOwns
<1>3. ASSUME NEW j \in 1 .. Len(regions'[c]), Holds(c, j)' PROVE j = i
  <2>1. j \in 1 .. Len(regions[c]) /\ Holds(c, j)
    BY <1>3 DEF Holds
  <2> QED BY <1>1, <2>1 DEF HolderOwns
<1> QED BY <1>2, <1>3 DEF Holds

\* The end of enter_lock, and of a LOCK that found the locker taken.
LEMMA RestoreKeeps ==
  ASSUME LockerInv, Restore
  PROVE  LockerInv'
<1>1. PICK c \in Contexts : c = current
  BY CurrentType DEF LockerInv
<1>2. /\ LockerTyped /\ StepsOfInner(c) /\ HolderOwns(c) /\ OneOwner
      /\ Len(regions[c]) \in Nat
  BY <1>1 DEF LockerInv, LockerTyped
<1>3. /\ pc[c] = "restore" /\ GoTo("body") /\ bMasked' = Restored(inner) /\ Closed
      /\ UNCHANGED <<active, tLock, owners>>
  BY <1>1 DEF Restore, AtStep
<1>4. /\ pc' \in [Contexts -> Steps] /\ pc'[c] = "body"
      /\ \A d \in Contexts : d # c => pc'[d] = pc[d]
  BY <1>1, <1>2, <1>3, StepIs DEF Steps
<1>5. open # <<>>
  BY <1>1, <1>2, <1>3 DEF StepsOfInner, open
<1>6. /\ regions' \in [Contexts -> Seq(Section)] /\ bMasked' \in BOOLEAN
      /\ \A d \in Contexts : d # c => regions'[d] = regions[d]
      /\ StepsOfInner(c)' /\ SavedIsOuter(c)' /\ bMasked' = InAtom(c)'
      /\ \A i \in 1 .. Len(regions'[c]) : /\ i \in 1 .. Len(regions[c]) /\ i # Len(regions[c])
                                          /\ Holds(c, i)' => Holds(c, i)
  BY <1>1, <1>3, <1>4, <1>5, CloseRestores
<1>7. LockerTyped' /\ OneOwner'
  BY <1>2, <1>3, <1>4, <1>6 DEF LockerTyped, OneOwner
<1>8. HolderOwns(c)'
  BY <1>2, <1>3, <1>6, FewerHold
<1> QED BY <1>1, <1>3, <1>4, <1>6, <1>7, <1>8, OwnStep

\* The end of a section; that of a LOCK releases the locker, which is its own.
LEMMA LeaveSectionKeeps ==
  ASSUME LockerInv, LeaveSection
  PROVE  LockerInv'
<1>1. PICK c \in Contexts : c = current
  BY CurrentType DEF LockerInv
<1>2. /\ LockerTyped /\ HolderOwns(c) /\ OneOwner
      /\ Len(regions[c]) \in Nat /\ owners \subseteq Contexts
  BY <1>1 DEF LockerInv, LockerTyped
<1>3. /\ pc[c] = "body" /\ open # <<>> /\ bMasked' = Restored(inner) /\ Closed
      /\ UNCHANGED <<active, pc>>
      /\ IF inner.kind = "lock"
         THEN tLock' = FALSE /\ owners' = owners \ {c}
         ELSE UNCHANGED <<tLock, owners>>
  BY <1>1 DEF LeaveSection, AtStep
<1>4. /\ pc' \in [Contexts -> Steps] /\ pc'[c] = "body"
      /\ \A d \in Contexts : d # c => pc'[d] = pc[d]
  BY <1>2, <1>3 DEF LockerTyped
<1>5. /\ regions' \in [Contexts -> Seq(Section)] /\ bMasked' \in BOOLEAN
      /\ \A d \in Contexts : d # c => regions'[d] = regions[d]
      /\ StepsOfInner(c)' /\ SavedIsOuter(c)' /\ bMasked' = InAtom(c)'
      /\ \A i \in 1 .. Len(regions'[c]) : /\ i \in 1 .. Len(regions[c]) /\ i # Len(regions[c])
                                          /\ Holds(c, i)' => Holds(c, i)
  BY <1>1, <1>3, <1>4, CloseRestores
<1>6. OneOwner' /\ HolderOwns(c)' /\ owners' \subseteq Contexts /\ tLock' \in BOOLEAN
  <2>1. CASE inner.kind = "lock"
    <3>1. PICK n \in Nat : n = Len(regions[c]) /\ n \in 1 .. Len(regions[c])
      <4>1. regions[c] # <<>> /\ regions[c] \in Seq(Section)
        BY <1>1, <1>2, <1>3 DEF open, LockerTyped
      <4> QED BY <4>1
    <3>2. Holds(c, n)
      BY <1>1, <1>3, <2>1, <3>1 DEF Holds, inner, open
    <3>3. c \in owners /\ \A j \in 1 .. Len(regions[c]) : Holds(c, j) => j = n
      BY <1>2, <3>1, <3>2 DEF HolderOwns
    <3>4. owners' = {} /\ tLock' = FALSE
      BY <1>2, <1>3, <2>1, <3>3 DEF OneOwner
    <3>5. ASSUME NEW i \in 1 .. Len(regions'[c]) PROVE ~Holds(c, i)'
      <4>1. i \in 1 .. Len(regions[c]) /\ i # n /\ (Holds(c, i)' => Holds(c, i))
        BY <1>5, <3>1 DEF Holds
      <4> QED BY <3>3, <4>1
    <3> QED BY <3>4, <3>5 DEF OneOwner, HolderOwns
  <2>2. CASE inner.kind # "lock"
    <3>1. UNCHANGED <<tLock, owners>>
      BY <1>3, <2>2
    <3>2. HolderOwns(c)'
      BY <1>2, <1>5, <3>1, FewerHold
    <3> QED BY <1>2, <3>1, <3>2 DEF OneOwner, LockerTyped
  <2> QED BY <2>1, <2>2
<1>7. LockerTyped'
  BY <1>2, <1>3, <1>4, <1>5, <1>6 DEF LockerTyped
<1> QED BY <1>1, <1>3, <1>4, <1>5, <1>6, <1>7, OwnStep

\* leave_lock by the owner.
LEMMA LeaveLockKeeps ==
  ASSUME LockerInv, LeaveLock
  PROVE  LockerInv'
<1>1. PICK c \in Contexts : c = current
  BY CurrentType DEF LockerInv
<1>2. /\ LockerTyped /\ StepsOfInner(c) /\ SavedIsOuter(c) /\ OneOwner /\ bMasked = InAtom(c)
  BY <1>1 DEF LockerInv, MaskIsNesting
<1>3. /\ c \in owners /\ tLock' = FALSE /\ owners' = owners \ {c}
      /\ \A i \in 1 .. Len(regions[c]) : regions[c][i].kind # "lock"
      /\ UNCHANGED <<bMasked, active, pc, regions>>
  BY <1>1 DEF LeaveLock, open
<1>4. owners' = {} /\ OneOwner'
  BY <1>2, <1>3 DEF OneOwner
<1>5. LockerTyped'
  BY <1>2, <1>3, <1>4 DEF LockerTyped
<1>6. StepsOfInner(c)' /\ SavedIsOuter(c)' /\ bMasked' = InAtom(c)'
  BY <1>2, <1>3, SameContext
<1>7. HolderOwns(c)'
  BY <1>3 DEF HolderOwns, Holds
<1> QED BY <1>1, <1>3, <1>4, <1>5, <1>6, <1>7, OwnStep

\* A handler comes in over a context that is inside no section.
LEMMA InterruptKeeps ==
  ASSUME LockerInv, NEW h \in 1 .. Priorities, Interrupt(h)
  PROVE  LockerInv'
<1>1. PICK c \in Contexts : c = current
  BY CurrentType DEF LockerInv
<1>2. PICK m \in Nat : m = Len(active) /\ m # 0 /\ active[m] = c
  BY <1>1, CurrentType DEF LockerInv, current
<1>3. /\ LockerTyped /\ OneOwner /\ bMasked = InAtom(c)
      /\ \A d \in Contexts : d # c => ~InAtom(d)
  BY <1>1 DEF LockerInv, MaskIsNesting
<1>4. /\ bMasked = FALSE /\ h > c /\ active' = Append(active, h)
      /\ UNCHANGED <<bMasked, pc, regions, tLock, owners>>
  BY <1>1, <1>3 DEF Interrupt, Preempts, LockerTyped
<1>5. h \in Contexts /\ Contexts \subseteq Nat /\ active \in Seq(Contexts)
  BY <1>3, LockerAssumption DEF Contexts, Main, LockerTyped
<1>6. /\ active' \in Seq(Contexts) /\ Len(active') = m + 1 /\ active'[m + 1] = h
      /\ \A i \in 1 .. m : active'[i] = active[i] /\ active[i] \in Nat
  <2>1. /\ Append(active, h) \in Seq(Contexts) /\ Len(Append(active, h)) = Len(active) + 1
        /\ Append(active, h)[Len(active) + 1] = h
        /\ \A i \in 1 .. Len(active) : Append(active, h)[i] = active[i] /\ active[i] \in Contexts
    BY <1>5
  <2>2. \A i \in 1 .. m : active[i] \in Nat
    BY <1>2, <1>5, <2>1
  <2> QED BY <1>2, <1>4, <2>1, <2>2
<1>7. LockerTyped' /\ OneOwner'
  <2>1. active' # <<>>
    BY <1>2, <1>6
  <2> QED BY <1>3, <1>4, <1>6, <2>1 DEF LockerTyped, OneOwner
<1>8. \A i \in 1 .. m : active[i] <= c
  BY <1>2, <1>5, <1>6 DEF LockerInv, ActiveInOrder
<1>9. regions[h] = <<>>
  <2>1. ~IsActive(h)
    BY <1>2, <1>4, <1>5, <1>6, <1>8 DEF IsActive
  <2> QED BY <1>5, <2>1 DEF LockerInv, ActiveInOrder
<1>10. ActiveInOrder'
  <2>1. active'[1] = Main
    BY <1>2, <1>6 DEF LockerInv, ActiveInOrder
  <2>2. \A i, j \in 1 .. m : i < j => active[i] < active[j]
    BY <1>2 DEF LockerInv, ActiveInOrder
  <2>3. ASSUME NEW i \in 1 .. m + 1, NEW j \in 1 .. m + 1, i < j
        PROVE  active'[i] < active'[j]
    <3>1. i \in 1 .. m /\ active'[i] = active[i]
      BY <1>6, <2>3
    <3>2. CASE j \in 1 .. m
      BY <1>6, <2>2, <2>3, <3>1, <3>2
    <3>3. CASE j = m + 1
      <4>1. active[i] \in Nat /\ active[i] <= c /\ c \in Nat /\ h > c /\ h \in Nat
        BY <1>4, <1>5, <1>6, <1>8, <3>1
      <4> QED BY <1>6, <3>1, <3>3, <4>1
    <3> QED BY <3>2, <3>3
  <2>4. ASSUME NEW d \in Contexts, IsActive(d) PROVE IsActive(d)'
    BY <1>2, <1>6, <2>4 DEF IsActive
  <2>5. \A d \in Contexts : ~IsActive(d) => pc[d] = "body" /\ regions[d] = <<>>
    BY DEF LockerInv, ActiveInOrder
  <2> QED BY <1>4, <1>6, <2>1, <2>3, <2>4, <2>5 DEF ActiveInOrder
<1>11. MaskIsNesting'
  <2>1. \A d \in Contexts : InAtom(d)' = InAtom(d)
    BY <1>4, SameContext
  <2>2. \A d \in Contexts : ~InAtom(d)
    BY <1>3, <1>4
  <2>3. current' = h
    BY <1>6 DEF current
  <2>4. InAtom(h)' = FALSE
    BY <1>5, <2>1, <2>2 DEF InAtom
  <2> QED BY <1>4, <2>1, <2>2, <2>3, <2>4 DEF MaskIsNesting
<1>12. \A d \in Contexts : StepsOfInner(d)' /\ SavedIsOuter(d)'
  BY <1>4, SameContext DEF LockerInv
<1>13. \A d \in Contexts : HolderOwns(d)'
  BY <1>4 DEF LockerInv, HolderOwns, Holds
<1> QED BY <1>7, <1>10, <1>11, <1>12, <1>13 DEF LockerInv

\* It returns when it has left all it entered, and the context below it was
\* inside no section when it came in.
LEMMA InterruptEndKeeps ==
  ASSUME LockerInv, ReturnFromInterrupt
  PROVE  LockerInv'
<1>1. PICK c \in Contexts : c = current
  BY CurrentType DEF LockerInv
<1>2. PICK m \in Nat : m = Len(active) /\ m # 0 /\ active[m] = c
  BY <1>1, CurrentType DEF LockerInv, current
<1>3. /\ LockerTyped /\ OneOwner /\ bMasked = InAtom(c)
      /\ \A d \in Contexts : d # c => ~InAtom(d)
  BY <1>1 DEF LockerInv, MaskIsNesting
<1>4. /\ c # Main /\ pc[c] = "body" /\ regions[c] = <<>>
      /\ active' = SubSeq(active, 1, Len(active) - 1)
      /\ UNCHANGED <<bMasked, pc, regions, tLock, owners>>
  BY <1>1 DEF ReturnFromInterrupt, AtStep, open
<1>5. m - 1 # 0
  BY <1>2, <1>4 DEF LockerInv, ActiveInOrder
<1>6. /\ active' \in Seq(Contexts) /\ Len(active') = m - 1
      /\ \A i \in 1 .. m - 1 : active'[i] = active[i]
  <2>1. active \in Seq(Contexts) /\ active # <<>>
    BY <1>3 DEF LockerTyped
  <2> QED BY <1>2, <1>4, <2>1, AllButLast
<1>7. LockerTyped' /\ OneOwner'
  <2>1. active' # <<>>
    BY <1>2, <1>5, <1>6
  <2> QED BY <1>3, <1>4, <1>6, <2>1 DEF LockerTyped, OneOwner
<1>8. ActiveInOrder'
  <2>1. active'[1] = Main
    BY <1>2, <1>5, <1>6 DEF LockerInv, ActiveInOrder
  <2>2. \A i, j \in 1 .. m : i < j => active[i] < active[j]
    BY <1>2 DEF LockerInv, ActiveInOrder
  <2>3. \A i, j \in 1 .. m - 1 : i < j => active'[i] < active'[j]
    BY <1>6, <2>2
  <2>4. ASSUME NEW d \in Contexts, IsActive(d), d # c PROVE IsActive(d)'
    <3>1. PICK i \in 1 .. m : active[i] = d
      BY <1>2, <2>4 DEF IsActive
    <3>2. i \in 1 .. m - 1
      BY <1>2, <2>4, <3>1
    <3> QED BY <1>6, <3>1, <3>2 DEF IsActive
  <2>5. \A d \in Contexts : ~IsActive(d) => pc[d] = "body" /\ regions[d] = <<>>
    BY DEF LockerInv, ActiveInOrder
  <2> QED BY <1>4, <1>6, <2>1, <2>3, <2>4, <2>5 DEF ActiveInOrder
<1>9. MaskIsNesting'
  <2>1. \A d \in Contexts : InAtom(d)' = InAtom(d)
    BY <1>4, SameContext
  <2>2. ~InAtom(c)
    BY <1>4 DEF InAtom
  <2>3. bMasked' = FALSE /\ \A d \in Contexts : ~InAtom(d)'
    BY <1>3, <1>4, <2>1, <2>2 DEF LockerTyped
  <2>4. current' \in Contexts
    BY <1>2, <1>5, <1>6 DEF current
  <2>5. InAtom(current)' = FALSE
    <3>1. PICK d \in Contexts : d = current'
      BY <2>4
    <3>2. InAtom(d)' = InAtom(current)'
      BY <3>1 DEF InAtom, Masks
    <3>3. InAtom(d)' \in BOOLEAN
      BY DEF InAtom
    <3> QED BY <2>3, <3>1, <3>2, <3>3
  <2> QED BY <2>3, <2>5 DEF MaskIsNesting
<1>10. \A d \in Contexts : StepsOfInner(d)' /\ SavedIsOuter(d)'
  BY <1>4, SameContext DEF LockerInv
<1>11. \A d \in Contexts : HolderOwns(d)'
  BY <1>4 DEF LockerInv, HolderOwns, Holds
<1> QED BY <1>7, <1>8, <1>9, <1>10, <1>11 DEF LockerInv

LEMMA LockerInitInv == LockerInit => LockerInv
<1> SUFFICES ASSUME LockerInit PROVE LockerInv
  OBVIOUS
<1>1. Main \in Contexts /\ Contexts \subseteq Nat
  BY LockerAssumption DEF Main, Contexts
<1>2. LockerTyped
  <2>1. <<Main>> \in Seq(Contexts) /\ <<Main>> # <<>> /\ <<>> \in Seq(Section)
    BY <1>1
  <2>2. pc \in [Contexts -> Steps] /\ regions \in [Contexts -> Seq(Section)]
    BY <2>1 DEF LockerInit, Steps
  <2> QED BY <2>1, <2>2 DEF LockerInit, LockerTyped
<1>3. Len(active) = 1 /\ active[1] = Main /\ current = Main
  BY DEF LockerInit, current
<1>4. \A c \in Contexts : pc[c] = "body" /\ regions[c] = <<>> /\ Len(regions[c]) = 0
  BY DEF LockerInit
<1>5. ActiveInOrder
  BY <1>3, <1>4 DEF ActiveInOrder
<1>6. \A c \in Contexts : StepsOfInner(c) /\ SavedIsOuter(c) /\ HolderOwns(c)
  BY <1>4 DEF StepsOfInner, SavedIsOuter, HolderOwns
<1>7. \A c \in Contexts : ~InAtom(c)
  BY <1>4 DEF InAtom
<1>8. MaskIsNesting
  BY <1>1, <1>3, <1>7 DEF MaskIsNesting, LockerInit, InAtom
<1>9. OneOwner
  BY DEF LockerInit, OneOwner
<1> QED BY <1>2, <1>5, <1>6, <1>8, <1>9 DEF LockerInv

LEMMA LockerNextKeeps == LockerInv /\ [LockerNext]_lockerVars => LockerInv'
<1> SUFFICES ASSUME LockerInv, [LockerNext]_lockerVars PROVE LockerInv'
  OBVIOUS
<1>1. CASE \E kind \in Kinds : ReadState(kind)
  BY <1>1, ReadStateKeeps
<1>2. CASE Disable
  BY <1>2, DisableKeeps
<1>3. CASE LockTest
  BY <1>3, LockTestKeeps
<1>4. CASE Restore
  BY <1>4, RestoreKeeps
<1>5. CASE LeaveSection
  BY <1>5, LeaveSectionKeeps
<1>6. CASE LeaveLock
  BY <1>6, LeaveLockKeeps
<1>7. CASE \E h \in 1 .. Priorities : Interrupt(h)
  BY <1>7, InterruptKeeps
<1>8. CASE ReturnFromInterrupt
  BY <1>8, InterruptEndKeeps
<1>9. CASE UNCHANGED lockerVars
  <2>1. UNCHANGED <<bMasked, active, pc, regions, tLock, owners>>
    BY <1>9 DEF lockerVars
  <2>2. PICK c \in Contexts : c = current
    BY CurrentType DEF LockerInv
  <2>3. LockerTyped' /\ OneOwner' /\ HolderOwns(c)'
    BY <2>1 DEF LockerInv, LockerTyped, OneOwner, HolderOwns, Holds
  <2>4. StepsOfInner(c)' /\ SavedIsOuter(c)' /\ bMasked' = InAtom(c)'
    BY <2>1, <2>2, SameContext DEF LockerInv, MaskIsNesting
  <2> QED BY <2>1, <2>2, <2>3, <2>4, OwnStep
<1> QED BY <1>1, <1>2, <1>3, <1>4, <1>5, <1>6, <1>7, <1>8, <1>9 DEF LockerNext

LEMMA LockerInvHolds == LockerSpec => []LockerInv
<1> QED BY LockerInitInv, LockerNextKeeps, PTL DEF LockerSpec

\* SAFE_ATOM_CODE, LOCK, enter_lock and ATOM_CODE, nested in any way and with
\* handlers of any number of priorities: interrupts are disabled exactly while
\* the running context is inside a section, and a suspended one is inside none.
THEOREM MaskIsAlwaysNesting == LockerSpec => []MaskIsNesting
<1>1. LockerInv => MaskIsNesting
  BY DEF LockerInv
<1> QED BY <1>1, LockerInvHolds, PTL

\* enter_lock and LOCK let one context in at a time, and the locker says so.
THEOREM LockAlwaysExclusive == LockerSpec => []LockExclusive
<1>1. LockerInv => LockExclusive
  <2> SUFFICES ASSUME LockerInv PROVE LockExclusive
    OBVIOUS
  <2>1. OneOwner
    BY DEF LockerInv
  <2>2. CASE owners = {}
    BY <2>1, <2>2, FS_EmptySet DEF LockExclusive, OneOwner
  <2>3. CASE owners # {}
    <3>1. PICK c : owners = {c}
      BY <2>1, <2>3 DEF OneOwner
    <3> QED BY <2>1, <3>1, FS_Singleton DEF LockExclusive, OneOwner
  <2> QED BY <2>2, <2>3
<1> QED BY <1>1, LockerInvHolds, PTL

---------------------------------------------------------------------------
(* CodeRegion.  What a statement has executed so far is known at every step *)
(* of its loops: for foreach the elements visited and those still counted   *)
(* are all there are.                                                       *)

\* Traces are put together event by event.
LEMMA Events ==
  ASSUME NEW a, NEW b, NEW c
  PROVE  /\ Append(<<>>, a) = <<a>>
         /\ Append(<<a>>, b) = <<a, b>>
         /\ Append(<<a, b>>, c) = <<a, b, c>>
         /\ <<a, b>> \o <<c>> = <<a, b, c>>
         /\ <<a, b>> \o <<>> = <<a, b>>
<1> DEFINE S == {a, b, c}
<1>1. a \in S /\ b \in S /\ c \in S OBVIOUS
<1> HIDE DEF S
<1>2. /\ <<>> \in Seq(S) /\ <<a>> \in Seq(S) /\ <<c>> \in Seq(S)
      /\ <<a, b>> \in Seq(S) /\ <<a, b, c>> \in Seq(S)
  BY <1>1
<1>3. Append(<<>>, a) = <<a>> /\ <<a, b>> \o <<>> = <<a, b>> OBVIOUS
<1>4. Append(<<a>>, b) = <<a, b>>
  <2>1. Append(<<a>>, b) \in Seq(S) BY <1>1, <1>2
  <2>2. Len(Append(<<a>>, b)) = Len(<<a, b>>) BY <1>1, <1>2
  <2>3. \A i \in 1 .. Len(<<a, b>>) : Append(<<a>>, b)[i] = <<a, b>>[i] BY <1>1, <1>2
  <2> QED BY <2>1, <2>2, <2>3, <1>2, SeqEqual
<1>5. Append(<<a, b>>, c) = <<a, b, c>>
  <2>1. Append(<<a, b>>, c) \in Seq(S) BY <1>1, <1>2
  <2>2. Len(Append(<<a, b>>, c)) = Len(<<a, b, c>>) BY <1>1, <1>2
  <2>3. \A i \in 1 .. Len(<<a, b, c>>) : Append(<<a, b>>, c)[i] = <<a, b, c>>[i]
    BY <1>1, <1>2
  <2> QED BY <2>1, <2>2, <2>3, <1>2, SeqEqual
<1>6. <<a, b>> \o <<c>> = <<a, b, c>>
  <2>1. <<a, b>> \o <<c>> \in Seq(S) BY <1>1, <1>2
  <2>2. Len(<<a, b>> \o <<c>>) = Len(<<a, b, c>>) BY <1>1, <1>2
  <2>3. \A i \in 1 .. Len(<<a, b, c>>) : (<<a, b>> \o <<c>>)[i] = <<a, b, c>>[i]
    BY <1>1, <1>2
  <2> QED BY <2>1, <2>2, <2>3, <1>2, SeqEqual
<1> QED BY <1>3, <1>4, <1>5, <1>6

\* The statements, and what they are given.
LEMMA OneForm ==
  ASSUME NEW s \in Forms
  PROVE  /\ s.macro \in {"using", "foreach", "code_region"}
         /\ s.macro = "foreach" => s.array \in Nat /\ s.array > 0
         /\ s.macro = "code_region" => s.region \in Regions
<1>1. CASE s \in [macro : {"using"}] BY <1>1
<1>2. CASE s \in [macro : {"foreach"}, array : Arrays]
  <2>1. s.macro = "foreach" /\ s.array \in Arrays BY <1>2
  <2>2. s.array \in Nat \ {0} BY <2>1, RegionAssumption
  <2>3. s.array \in Nat /\ s.array > 0 BY <2>2
  <2> QED BY <2>1, <2>3
<1>3. CASE s \in [macro : {"code_region"}, region : Regions]
  <2>1. s.macro = "code_region" /\ s.region \in Regions BY <1>3
  <2> QED BY <2>1
<1> QED BY <1>1, <1>2, <1>3 DEF Forms

\* A statement that is reached has executed nothing.
LEMMA StmtInitInv == StmtInit => StmtInv
BY OneForm DEF StmtInit, StmtInv, OnceSoFar, UsingSoFar, RegionSoFar, ForeachSoFar,
   BodyIsOver

\* Every step keeps the invariant.
LEMMA StmtStep == StmtInv /\ [StmtNext]_stmtVars => StmtInv'
<1> SUFFICES ASSUME StmtInv, [StmtNext]_stmtVars PROVE StmtInv'
  OBVIOUS
<1> USE DEF Does
<1>a. stmt \in Forms /\ OnceSoFar /\ UsingSoFar /\ RegionSoFar /\ ForeachSoFar
  BY DEF StmtInv
<1>b. stmt.macro \in {"using", "foreach", "code_region"} BY <1>a, OneForm
<1>c. NULL # 1 BY RegionAssumption
<1>1. CASE UsingTest
  <2>1. /\ stmt.macro = "using" /\ stmt' = stmt /\ stmtPc = "outer"
        /\ element' = element /\ exit' = exit /\ guard' = 1
    BY <1>1 DEF UsingTest
  <2>2. CASE guard = NULL
    <3>1. exit = "none" /\ trace = <<>> BY <1>a, <1>c, <2>1, <2>2 DEF UsingSoFar
    <3>2. stmtPc' = "body" /\ trace' = <<"enter">>
      BY <1>1, <2>2, <3>1, Events DEF UsingTest, First
    <3> QED
      BY <1>a, <2>1, <3>1, <3>2 DEF StmtInv, OnceSoFar, UsingSoFar, RegionSoFar,
         ForeachSoFar, BodyIsOver
  <2>3. CASE guard # NULL
    <3>1. exit # "none" BY <1>a, <2>1, <2>3 DEF UsingSoFar
    <3>2. stmtPc' = "done" /\ trace' = trace BY <1>1, <2>3 DEF UsingTest, First
    <3> QED
      BY <1>a, <2>1, <3>1, <3>2 DEF StmtInv, OnceSoFar, UsingSoFar, RegionSoFar,
         ForeachSoFar, BodyIsOver
  <2> QED BY <2>2, <2>3
<1>2. CASE ForeachTest
  <2>1. /\ stmt.macro = "foreach" /\ stmt' = stmt /\ stmtPc = "outer" /\ guard' = 1
        /\ trace' = trace /\ exit' = exit /\ stmt.array \in Nat
    BY <1>a, <1>2, OneForm DEF ForeachTest
  <2>2. CASE guard = NULL
    <3>1. exit = "none" /\ trace = <<>> /\ Len(trace) = 0
      BY <1>a, <1>c, <2>1, <2>2 DEF ForeachSoFar
    <3>2. stmtPc' = "inner" /\ count' = stmt.array /\ element' = 1
      BY <1>2, <2>2 DEF ForeachTest, First
    <3> QED
      BY <1>a, <2>1, <3>1, <3>2 DEF StmtInv, OnceSoFar, UsingSoFar, RegionSoFar,
         ForeachSoFar, BodyIsOver
  <2>3. CASE guard # NULL
    <3>1. exit # "none" BY <1>a, <2>1, <2>3 DEF ForeachSoFar
    <3>2. stmtPc' = "done" BY <1>2, <2>3 DEF ForeachTest, First
    <3> QED
      BY <1>a, <2>1, <3>1, <3>2 DEF StmtInv, OnceSoFar, UsingSoFar, RegionSoFar,
         ForeachSoFar, BodyIsOver
  <2> QED BY <2>2, <2>3
<1>3. CASE ForeachNext
  <2>1. /\ stmt.macro = "foreach" /\ stmt' = stmt /\ stmtPc = "inner" /\ guard' = guard
        /\ stmtPc' = IF count > 0 THEN "body" ELSE "outer"
        /\ count' = count /\ element' = element /\ trace' = trace /\ exit' = exit
        /\ stmt.array \in Nat /\ stmt.array > 0
    BY <1>a, <1>3, OneForm DEF ForeachNext
  <2>2. /\ count \in Nat /\ count = stmt.array - Len(trace) /\ Len(trace) \in Nat
        /\ exit \in {"none", "end"} /\ (exit = "none" <=> trace = <<>>) /\ guard = 1
    BY <1>a, <2>1 DEF ForeachSoFar
  <2>3. CASE count > 0
    BY <1>a, <2>1, <2>2, <2>3 DEF StmtInv, OnceSoFar, UsingSoFar, RegionSoFar,
       ForeachSoFar, BodyIsOver
  <2>4. CASE ~(count > 0)
    <3>1. Len(trace) = stmt.array /\ exit = "end"
      BY <2>1, <2>2, <2>4
    <3> QED
      BY <1>a, <2>1, <2>2, <2>4, <3>1 DEF StmtInv, OnceSoFar, UsingSoFar, RegionSoFar,
         ForeachSoFar, BodyIsOver
  <2> QED BY <2>3, <2>4
<1>4. CASE RegionTest
  <2>1. /\ stmt.macro = "code_region" /\ stmt' = stmt /\ stmtPc = "outer" /\ guard' = guard
        /\ element' = element /\ trace' = trace /\ exit' = exit
    BY <1>4 DEF RegionTest
  <2>2. CASE guard # NULL
    <3>1. exit = "none" /\ trace = <<>>
      BY <1>a, <2>1, <2>2 DEF RegionSoFar
    <3>2. stmtPc' = "inner" /\ count' = 1
      BY <1>4, <2>2 DEF RegionTest
    <3> QED
      BY <1>a, <2>1, <3>1, <3>2 DEF StmtInv, OnceSoFar, UsingSoFar, RegionSoFar,
         ForeachSoFar, BodyIsOver
  <2>3. CASE guard = NULL
    <3>1. stmtPc' = "done"
      BY <1>4, <2>3 DEF RegionTest
    <3>2. exit = "none" => stmt.region = NULL
      BY <1>a, <2>1, <2>3 DEF RegionSoFar
    <3> QED
      BY <1>a, <2>1, <3>1, <3>2 DEF StmtInv, OnceSoFar, UsingSoFar, RegionSoFar,
         ForeachSoFar, BodyIsOver
  <2> QED BY <2>2, <2>3
<1>5. CASE RegionEnter
  <2>1. /\ stmt.macro = "code_region" /\ stmt' = stmt /\ stmtPc = "inner"
        /\ element' = element /\ exit' = exit /\ count' = FlagDown
    BY <1>5 DEF RegionEnter
  <2>2. CASE exit = "none"
    <3>1. count = 1 /\ trace = <<>>
      BY <1>a, <2>1, <2>2 DEF RegionSoFar
    <3>2. count' = 0 /\ trace' = <<"enter">> /\ stmtPc' = "body" /\ guard' = guard
      <4>1. count' = 0 BY <2>1, <3>1 DEF FlagDown
      <4> QED BY <1>5, <3>1, <4>1, Events DEF RegionEnter
    <3> QED
      BY <1>a, <2>1, <2>2, <3>1, <3>2 DEF StmtInv, OnceSoFar, UsingSoFar, RegionSoFar,
         ForeachSoFar, BodyIsOver
  <2>3. CASE exit # "none"
    <3>1. count = 0 /\ exit = "end" /\ BodyIsOver
      BY <1>a, <2>1, <2>3 DEF RegionSoFar
    <3>2. guard' = NULL /\ stmtPc' = "outer" /\ trace' = trace
      BY <1>5, <3>1 DEF RegionEnter
    <3> QED
      BY <1>a, <2>1, <2>3, <3>1, <3>2 DEF StmtInv, OnceSoFar, UsingSoFar, RegionSoFar,
         ForeachSoFar, BodyIsOver
  <2> QED BY <2>2, <2>3
<1>6. CASE Body
  <2>1. /\ stmtPc = "body" /\ trace' = Append(trace, element)
        /\ exit' \in {"end", "break", "return"}
        /\ stmtPc' = CASE exit' = "end" -> "step" [] exit' = "break" -> "broken"
                       [] OTHER -> "done"
        /\ stmt' = stmt /\ guard' = guard /\ count' = count /\ element' = element
    BY <1>6, RegionAssumption DEF Body, WaysOut
  <2>2. exit' # "none" /\ stmtPc' \in {"step", "broken", "done"}
        /\ (exit' = "end" <=> stmtPc' = "step") /\ (exit' = "break" <=> stmtPc' = "broken")
        /\ (exit' = "return" <=> stmtPc' = "done")
    BY <2>1
  <2>3. CASE stmt.macro # "foreach"
    <3>1. trace' = <<"enter", 0>>
      BY <1>a, <2>1, <2>3, Events DEF OnceSoFar
    <3> QED
      BY <1>a, <2>1, <2>2, <2>3, <3>1 DEF StmtInv, OnceSoFar, UsingSoFar, RegionSoFar,
         ForeachSoFar, BodyIsOver
  <2>4. CASE stmt.macro = "foreach"
    <3>1. /\ trace \in Seq(Nat) /\ Len(trace) \in Nat /\ element = Len(trace) + 1
          /\ count = stmt.array - Len(trace) /\ count > 0 /\ guard = 1
          /\ \A i \in 1 .. Len(trace) : trace[i] = i
          /\ stmt.array \in Nat
      BY <1>a, <2>1, <2>4, OneForm DEF ForeachSoFar
    <3>2. /\ trace' \in Seq(Nat) /\ Len(trace') = Len(trace) + 1 /\ trace' # <<>>
          /\ \A i \in 1 .. Len(trace') : trace'[i] = i
      BY <2>1, <3>1
    <3> QED
      BY <1>a, <2>1, <2>2, <2>4, <3>1, <3>2 DEF StmtInv, OnceSoFar, UsingSoFar,
         RegionSoFar, ForeachSoFar, BodyIsOver
  <2> QED BY <2>3, <2>4
<1>7. CASE Step
  <2>1. stmtPc = "step" /\ stmt' = stmt /\ guard' = guard /\ exit' = exit
    BY <1>7 DEF Step
  <2>2. CASE stmt.macro # "foreach"
    <3>1. /\ trace' = <<"enter", 0, "leave">> /\ exit = "end"
          /\ element' = element /\ count' = count
      <4>1. trace = <<"enter", 0>> /\ exit = "end" BY <1>a, <2>1, <2>2 DEF OnceSoFar
      <4> QED BY <1>7, <2>2, <4>1, Events DEF Step
    <3>2. stmtPc' = IF stmt.macro = "using" THEN "outer" ELSE "inner"
      BY <1>7, <2>2 DEF Step
    <3> QED
      BY <1>a, <1>b, <2>1, <2>2, <3>1, <3>2 DEF StmtInv, OnceSoFar, UsingSoFar,
         RegionSoFar, ForeachSoFar, BodyIsOver
  <2>3. CASE stmt.macro = "foreach"
    <3>1. /\ element' = element + 1 /\ count' = count - 1
          /\ stmtPc' = "inner" /\ trace' = trace
      BY <1>7, <2>3 DEF Step, NextElement
    <3>2. /\ trace \in Seq(Nat) /\ Len(trace) \in Nat /\ element = Len(trace)
          /\ count = stmt.array + 1 - Len(trace) /\ count > 0 /\ guard = 1
          /\ stmt.array \in Nat /\ exit = "end" /\ trace # <<>>
          /\ \A i \in 1 .. Len(trace) : trace[i] = i
      BY <1>a, <2>1, <2>3, OneForm DEF ForeachSoFar
    <3> QED
      BY <1>a, <2>1, <2>3, <3>1, <3>2 DEF StmtInv, OnceSoFar, UsingSoFar, RegionSoFar,
         ForeachSoFar, BodyIsOver
  <2> QED BY <2>2, <2>3
<1>8. CASE Broken
  <2>1. /\ stmtPc = "broken" /\ stmtPc' = IF stmt.macro = "using" THEN "done" ELSE "outer"
        /\ guard' = IF stmt.macro = "code_region" THEN NULL ELSE guard
        /\ stmt' = stmt /\ count' = count /\ element' = element
        /\ trace' = trace /\ exit' = exit
    BY <1>8 DEF Broken, BrokenTo
  <2>2. exit = "break"
    BY <1>a, <2>1 DEF OnceSoFar, ForeachSoFar
  <2> QED
    BY <1>a, <1>b, <2>1, <2>2 DEF StmtInv, OnceSoFar, UsingSoFar, RegionSoFar,
       ForeachSoFar, BodyIsOver
<1>9. CASE NextStatement
  BY <1>9 DEF NextStatement, StmtInv, OnceSoFar, UsingSoFar, RegionSoFar, ForeachSoFar,
     BodyIsOver
<1>10. CASE UNCHANGED stmtVars
  BY <1>10 DEF stmtVars, StmtInv, OnceSoFar, UsingSoFar, RegionSoFar, ForeachSoFar,
     BodyIsOver
<1> QED BY <1>1, <1>2, <1>3, <1>4, <1>5, <1>6, <1>7, <1>8, <1>9, <1>10 DEF StmtNext

\* A body is left in one of the ways it may be left.
LEMMA ExitStep == ExitKnown /\ [StmtNext]_stmtVars => ExitKnown'
<1> SUFFICES ASSUME ExitKnown, [StmtNext]_stmtVars PROVE ExitKnown'
  OBVIOUS
<1>1. CASE Body
  BY <1>1 DEF Body, ExitKnown, WaysOut
<1>2. CASE NextStatement
  BY <1>2 DEF NextStatement, ExitKnown
<1>3. CASE ~Body /\ ~NextStatement
  <2>1. UNCHANGED <<stmt, exit>>
    BY <1>3 DEF StmtNext, UsingTest, ForeachTest, ForeachNext, RegionTest, RegionEnter, Step,
       Broken, stmtVars
  <2> QED BY <2>1 DEF ExitKnown, WaysOut
<1> QED BY <1>1, <1>2, <1>3

\* At the end of a statement, what it has executed so far is all.
LEMMA SoFarIsOnce ==
  ASSUME StmtInv, ExitKnown, NULL \notin Regions, Exits = {}
  PROVE  BodyRunsOnce
<1>1. /\ stmt \in Forms /\ OnceSoFar /\ UsingSoFar /\ RegionSoFar /\ ForeachSoFar
      /\ stmt.macro \in {"using", "foreach", "code_region"}
      /\ stmt.macro = "code_region" => stmt.region \in Regions
  BY OneForm DEF StmtInv
<1>2. EnterBodyLeave
  <2> SUFFICES ASSUME stmtPc = "done", stmt.macro # "foreach"
               PROVE  trace = <<"enter", 0, "leave">>
    BY DEF EnterBodyLeave
  <2>1. exit # "none"
    BY <1>1 DEF UsingSoFar, RegionSoFar
  <2>2. exit = "end"
    BY <2>1 DEF ExitKnown, WaysOut
  <2> QED BY <1>1, <2>2 DEF OnceSoFar, BodyIsOver
<1>3. EachElementOnce
  <2>1. exit \in {"none", "end", "break", "return"}
    BY DEF ExitKnown, WaysOut
  <2> QED BY <1>1, <2>1 DEF EachElementOnce, ForeachSoFar
<1> QED BY <1>2, <1>3 DEF BodyRunsOnce

\* Whatever statement is written: it enters once, runs the body once, or once for each
\* element, and leaves once, if its region is not NULL and its body does not break out of
\* it or return.
THEOREM BodyAlwaysRunsOnce ==
  ASSUME NULL \notin Regions, Exits = {}
  PROVE  StmtSpec => []BodyRunsOnce
<1>1. StmtInit => ExitKnown
  BY DEF StmtInit, ExitKnown
<1>2. StmtInv /\ ExitKnown => BodyRunsOnce
  BY SoFarIsOnce
<1> QED BY <1>1, <1>2, StmtInitInv, StmtStep, ExitStep, PTL DEF StmtSpec

---------------------------------------------------------------------------
(* TinyFsm.  StringsWhole speaks of the last character only.  That the next *)
(* one fits it is kept by the flag, which is up as long as one instance     *)
(* puts out its string, and by what that instance has put out so far.       *)

TinyTyped ==
  /\ s_TinyFSM \in [Printers -> {"NULL", "Print_Init", "Print_Output"}]
  /\ pchString \in [Printers -> Nat]
  /\ m_CriticalSection \in BOOLEAN
  /\ last \in Printers \X Nat

Printing(f) == s_TinyFSM[f] = "Print_Output"

\* The flag is up exactly while an instance is in Print_Output, and one only is.
FlagIsPrinter ==
  /\ m_CriticalSection <=> \E f \in Printers : Printing(f)
  /\ \A f, g \in Printers : Printing(f) /\ Printing(g) => f = g

\* A string is put out from its start, and never past its end.
FromTheStart ==
  \A f \in Printers :
    /\ s_TinyFSM[f] = "Print_Init" => pchString[f] = 0
    /\ Printing(f) => pchString[f] < Length[f]

LineAtEnd == last[2] = Length[last[1]]

\* What the line shows: whole strings, and of the printing instance's what it
\* has put out.
LineShows ==
  /\ ~m_CriticalSection => LineAtEnd
  /\ \A f \in Printers : Printing(f) =>
       IF pchString[f] = 0 THEN LineAtEnd ELSE last = <<f, pchString[f]>>

TinyInv == TinyTyped /\ FlagIsPrinter /\ FromTheStart /\ LineShows

\* No instance prints at first, and the line is taken to be at an end.
LEMMA TinyInitInv == TinyInit => TinyInv
<1> SUFFICES ASSUME TinyInit PROVE TinyInv OBVIOUS
<1>1. 1 \in Printers /\ Length[1] \in Nat
  BY TinyAssumption DEF Printers
<1>2. TinyTyped
  BY <1>1 DEF TinyInit, TinyTyped
<1>3. FlagIsPrinter /\ FromTheStart /\ LineShows
  BY DEF TinyInit, FlagIsPrinter, FromTheStart, LineShows, LineAtEnd, Printing
<1> QED BY <1>2, <1>3 DEF TinyInv

\* Print_Init raises the flag only when it is down, and so when the line is at
\* the end of a string.
LEMMA PrintInitKeeps ==
  ASSUME TinyInv, NEW f \in Printers, PrintInit(f) PROVE TinyInv'
<1> USE TinyAssumption DEF TinyInv, TinyTyped, PrintInit, Returns, Param, Task, Printing
<1>1. TinyTyped'
  OBVIOUS
<1>2. FlagIsPrinter'
  BY DEF FlagIsPrinter
<1>3. FromTheStart'
  BY DEF FromTheStart
<1>4. LineShows'
  <2>1. LineAtEnd' <=> LineAtEnd
    BY DEF LineAtEnd
  <2>2. ASSUME NEW g \in Printers, Printing(g)'
        PROVE  \/ Printing(g) /\ pchString'[g] = pchString[g]
               \/ ~m_CriticalSection /\ pchString'[g] = 0
    BY <2>2 DEF FromTheStart
  <2>3. ~m_CriticalSection' => ~m_CriticalSection
    OBVIOUS
  <2>4. last' = last
    OBVIOUS
  <2> QED BY ONLY <2>1, <2>2, <2>3, <2>4, LineShows DEF LineShows, Printing
<1> QED BY <1>1, <1>2, <1>3, <1>4

\* A busy line changes nothing.
LEMMA OutputBusyKeeps ==
  ASSUME TinyInv, NEW f \in Printers, OutputBusy(f) PROVE TinyInv'
<1>1. s_TinyFSM' = s_TinyFSM
  BY DEF TinyInv, TinyTyped, OutputBusy, Returns, Task
<1> QED
  BY <1>1 DEF OutputBusy, TinyInv, TinyTyped, FlagIsPrinter, FromTheStart, LineShows,
     LineAtEnd, Printing

\* The next character follows the one before it, or comes first; the last one
\* lowers the flag.
LEMMA OutputCharKeeps ==
  ASSUME TinyInv, NEW f \in Printers, OutputChar(f) PROVE TinyInv'
<1> USE TinyAssumption DEF TinyInv, TinyTyped, OutputChar, Returns, Task, Leaves, Printing
<1>1. Printing(f) /\ pchString[f] < Length[f] /\ Length[f] \in Nat
  BY DEF FromTheStart, Printers
<1>2. TinyTyped'
  OBVIOUS
<1>3. FlagIsPrinter'
  BY <1>1 DEF FlagIsPrinter
<1>4. FromTheStart'
  BY <1>1 DEF FromTheStart
<1>5. LineShows'
  BY <1>1 DEF LineShows, LineAtEnd, FlagIsPrinter
<1> QED BY <1>2, <1>3, <1>4, <1>5

\* Every call keeps the invariant.
LEMMA TinyStep == TinyInv /\ [TinyNext]_tinyVars => TinyInv'
<1> SUFFICES ASSUME TinyInv, [TinyNext]_tinyVars PROVE TinyInv' OBVIOUS
<1>1. ASSUME NEW f \in Printers, Call(f) PROVE TinyInv'
  BY <1>1, PrintInitKeeps, OutputBusyKeeps, OutputCharKeeps DEF Call
<1>2. CASE UNCHANGED tinyVars
  BY <1>2 DEF tinyVars, TinyInv, TinyTyped, FlagIsPrinter, FromTheStart, LineShows,
     LineAtEnd, Printing
<1> QED BY <1>1, <1>2 DEF TinyNext

\* However the calls of the instances alternate and however often the serial line
\* is busy, the strings come out whole, one after the other.
THEOREM StringsAlwaysWhole == TinySpec => StringsWhole
<1> DEFINE Continues == last' # last =>
       \/ last'[1] = last[1] /\ last'[2] = last[2] + 1
       \/ last[2] = Length[last[1]] /\ last'[2] = 1
<1>1. TinyInv /\ [TinyNext]_tinyVars => [Continues]_tinyVars
  <2> SUFFICES ASSUME TinyInv, NEW f \in Printers, OutputChar(f) PROVE Continues
    BY DEF TinyNext, Call, PrintInit, OutputBusy
  <2>1. last' = <<f, pchString[f] + 1>> /\ Printing(f) /\ pchString[f] \in Nat
    BY DEF OutputChar, Task, Printing, TinyInv, TinyTyped
  <2>2. CASE pchString[f] = 0
    BY <2>1, <2>2 DEF TinyInv, LineShows, LineAtEnd
  <2>3. CASE pchString[f] # 0
    BY <2>1, <2>3 DEF TinyInv, LineShows
  <2> QED BY <2>2, <2>3
<1> HIDE DEF Continues
<1>2. StringsWhole <=> [][Continues]_tinyVars
  BY PTL DEF StringsWhole, Continues
<1> QED BY <1>1, <1>2, TinyInitInv, TinyStep, PTL DEF TinySpec

---------------------------------------------------------------------------
(* Delegate.  Both properties are about positions: the lists are sequences, *)
(* the cursor is a place in the ready list, and the handlers that wait come *)
(* before those that have been called, counting from that place.            *)

\* What a program must not do: register the last handler of a list again, and
\* register, or unregister itself, from a running handler.
CarefulProgram == "last" \notin Registers /\ Nested \subseteq {"unregister"}

DelegateTypes ==
  /\ ptNext \in [Handlers -> Pointers] /\ running \in Pointers
  /\ registered \subseteq Handlers

\* The ready list f and the blocked list q hold the registered handlers.
TwoChains(f, q) ==
  /\ LinkedIn(Handlers, ptNext, f, ptEvent)
  /\ LinkedIn(Handlers, ptNext, q, ptBlockedList)
  /\ Elems(f) \intersect Elems(q) = {}
  /\ Elems(f) \union Elems(q) = registered

\* The cursor is the link after d handlers, which leads to the running one.
CursorIs(f, d) ==
  /\ d \in 0 .. Len(f)
  /\ pptHandler = IF d = 0 THEN "event" ELSE f[d]
  /\ running # NULL => d < Len(f) /\ running = f[d + 1]

\* The handlers that have had their turn in this round.
Served(d) == IF running = NULL THEN d ELSE d + 1

\* j comes before i, counting from place s on and round.
Ordered(j, i, s) == IF j > s <=> i > s THEN j < i ELSE j > s

InTurn(f, s) ==
  \A i, j \in 1 .. Len(f) : <<f[i], f[j]>> \in overtaken => Ordered(j, i, s)

DelegateState(f, q, d) ==
  /\ TwoChains(f, q) /\ CursorIs(f, d)
  /\ overtaken \subseteq registered \X Elems(f)
  /\ InTurn(f, Served(d))

DelegateInv ==
  DelegateTypes /\ \E f, q \in Seq(Handlers) : \E d \in Nat : DelegateState(f, q, d)

\* The null pointer is no handler, and no link is both a head and a handler's.
LEMMA HandlerFacts ==
  /\ NULL \notin Handlers /\ IsFiniteSet(Handlers)
  /\ "event" \notin Handlers /\ "blocked" \notin Handlers
  /\ "event" # NULL /\ "blocked" # NULL
BY DelegateAssumption

\* The two sequences are what is found by following the links.
LEMMA StateFacts ==
  ASSUME DelegateTypes, NEW f, NEW q, NEW d, DelegateState(f, q, d)
  PROVE  /\ f \in Seq(Handlers) /\ Distinct(f) /\ q \in Seq(Handlers) /\ Distinct(q)
         /\ LinkedIn(Handlers, ptNext, f, ptEvent)
         /\ LinkedIn(Handlers, ptNext, q, ptBlockedList)
         /\ DOMAIN ptNext = Handlers
         /\ Elems(f) \intersect Elems(q) = {}
         /\ Elems(f) \union Elems(q) = registered
         /\ Chain(ptEvent) = f /\ Chain(ptBlockedList) = q
         /\ Ready = Elems(f) /\ Blocked = Elems(q)
         /\ d \in 0 .. Len(f) /\ d \in Nat
<1>1. /\ LinkedIn(Handlers, ptNext, f, ptEvent)
      /\ LinkedIn(Handlers, ptNext, q, ptBlockedList)
      /\ Elems(f) \intersect Elems(q) = {}
      /\ Elems(f) \union Elems(q) = registered
  BY DEF DelegateState, TwoChains
<1>2. f \in Seq(Handlers) /\ Distinct(f) /\ q \in Seq(Handlers) /\ Distinct(q)
  BY <1>1 DEF LinkedIn
<1>3. DOMAIN ptNext = Handlers
  BY DEF DelegateTypes
<1>4. Chain(ptEvent) = f /\ Chain(ptBlockedList) = q
  BY <1>1, <1>3, HandlerFacts, LinkedIsList DEF Chain
<1>5. d \in 0 .. Len(f) /\ d \in Nat
  BY <1>2 DEF DelegateState, CursorIs
<1> QED BY <1>1, <1>2, <1>3, <1>4, <1>5 DEF Ready, Blocked

\* The links of a list, by place.
LEMMA LinksAre ==
  ASSUME NEW list, NEW p, LinkedIn(Handlers, ptNext, list, p)
  PROVE  /\ p = NextIn(list, 0)
         /\ \A i \in 1 .. Len(list) : /\ list[i] \in Handlers /\ list[i] \in Elems(list)
                                      /\ ptNext[list[i]] = NextIn(list, i)
BY DEF LinkedIn, Elems

\* search_list: the link that leads to the handler.
LEMMA SearchIn ==
  ASSUME NEW first, NEW list \in Seq(Handlers), Distinct(list),
         Chain(LinkOf(first)) = list, NEW h
  PROVE  /\ h \notin Elems(list) => SearchList(first, h) = NULL
         /\ \A k \in 1 .. Len(list) :
              list[k] = h => SearchList(first, h) = (IF k = 1 THEN first ELSE list[k - 1])
<1> DEFINE at == {i \in 1 .. Len(list) : list[i] = h}
           place == CHOOSE i \in at : \A j \in at : i <= j
<1>1. SearchList(first, h)
        = IF at = {} THEN NULL ELSE IF place = 1 THEN first ELSE list[place - 1]
  BY DEF SearchList
<1>2. ASSUME h \notin Elems(list) PROVE at = {}
  BY <1>2 DEF Elems
<1>3. ASSUME NEW k \in 1 .. Len(list), list[k] = h PROVE at # {} /\ place = k
  <2>1. at = {k}
    BY <1>3 DEF Distinct
  <2>2. \E i \in at : \A j \in at : i <= j
    BY <2>1
  <2> HIDE DEF at
  <2>3. place \in at
    BY <2>2
  <2> QED BY <2>1, <2>3
<1> HIDE DEF at, place
<1> QED BY <1>1, <1>2, <1>3

\* Both searches of a call.
LEMMA Searches ==
  ASSUME DelegateTypes, NEW f, NEW q, NEW d, DelegateState(f, q, d), NEW h
  PROVE  /\ h \notin Elems(f) => SearchList("event", h) = NULL
         /\ h \notin Elems(q) => SearchList("blocked", h) = NULL
         /\ \A k \in 1 .. Len(f) :
              f[k] = h => SearchList("event", h) = (IF k = 1 THEN "event" ELSE f[k - 1])
         /\ \A k \in 1 .. Len(q) :
              q[k] = h => SearchList("blocked", h) = (IF k = 1 THEN "blocked" ELSE q[k - 1])
<1>1. Chain(LinkOf("event")) = f /\ Chain(LinkOf("blocked")) = q
  BY StateFacts DEF LinkOf
<1> QED BY <1>1, StateFacts, SearchIn

\* The links of handlers elsewhere do not matter to a list.
LEMMA SameLinks ==
  ASSUME NEW list, NEW p, LinkedIn(Handlers, ptNext, list, p), NEW after,
         \A h \in Elems(list) : after[h] = ptNext[h]
  PROVE  LinkedIn(Handlers, after, list, p)
<1>1. \A i \in 1 .. Len(list) : after[list[i]] = ptNext[list[i]]
  BY DEF Elems
<1> QED BY <1>1 DEF LinkedIn

\* A handler, the k-th of a list, is taken out of it by the link that leads to it.
LEMMA TakenOut ==
  ASSUME NEW list, NEW p, LinkedIn(Handlers, ptNext, list, p), NEW k \in 1 .. Len(list),
         NEW after, NEW q,
         k = 1 => q = ptNext[list[k]],
         k # 1 => q = p /\ after[list[k - 1]] = ptNext[list[k]],
         \A h \in Elems(list) : h # list[k] /\ (k # 1 => h # list[k - 1]) => after[h] = ptNext[h]
  PROVE  /\ LinkedIn(Handlers, after, Without(list, k), q)
         /\ Elems(Without(list, k)) = Elems(list) \ {list[k]}
<1>1. list \in Seq(Handlers) /\ Distinct(list)
  BY DEF LinkedIn
<1>2. ASSUME NEW j \in 1 .. Len(list), j # k, j # k - 1 PROVE after[list[j]] = ptNext[list[j]]
  <2>1. list[j] \in Elems(list) /\ list[j] # list[k]
    BY <1>1, <1>2 DEF Elems, Distinct
  <2>2. k # 1 => list[j] # list[k - 1]
    BY <1>1, <1>2 DEF Distinct
  <2> QED BY <2>1, <2>2
<1>3. LinkedIn(Handlers, after, Without(list, k), q)
  BY <1>2, HandlerFacts, LinkedRemove
<1> QED BY <1>1, <1>3, WithoutOne

\* Among the handlers left the order stays, when one has gone.
LEMMA TurnsLeft ==
  ASSUME NEW f \in Seq(Handlers), Distinct(f), NEW k \in 1 .. Len(f), NEW s \in 0 .. Len(f),
         InTurn(f, s), overtaken' \subseteq overtaken
  PROVE  InTurn(Without(f, k), IF k <= s THEN s - 1 ELSE s)'
<1> DEFINE out == Without(f, k)
           t == IF k <= s THEN s - 1 ELSE s
           Old(j) == IF j < k THEN j ELSE j + 1
<1>1. Len(out) = Len(f) - 1 /\ \A j \in 1 .. Len(f) - 1 : out[j] = f[Old(j)]
  BY WithoutOne
<1> HIDE DEF out
<1>2. ASSUME NEW i \in 1 .. Len(f) - 1, NEW j \in 1 .. Len(f) - 1,
             <<out[i], out[j]>> \in overtaken'
      PROVE  Ordered(j, i, t)
  <2>1. Old(i) \in 1 .. Len(f) /\ Old(j) \in 1 .. Len(f)
    OBVIOUS
  <2>2. <<f[Old(i)], f[Old(j)]>> \in overtaken
    BY <1>1, <1>2
  <2>3. Ordered(Old(j), Old(i), s)
    BY <2>1, <2>2 DEF InTurn
  <2> QED BY <2>3 DEF Ordered
<1>3. InTurn(out, t)'
  BY <1>1, <1>2 DEF InTurn
<1> QED BY <1>3 DEF out

\* A handler that comes in front has not been called, and nothing of its is left.
LEMMA TurnsShift ==
  ASSUME NEW f \in Seq(Handlers), NEW h \in Handlers, NEW s \in 0 .. Len(f), InTurn(f, s),
         overtaken' \subseteq overtaken, \A p \in overtaken' : h \notin {p[1], p[2]}
  PROVE  InTurn(<<h>> \o f, IF s = 0 THEN 0 ELSE s + 1)'
<1> DEFINE new == <<h>> \o f
           t == IF s = 0 THEN 0 ELSE s + 1
<1>1. Len(new) = Len(f) + 1 /\ new[1] = h /\ \A j \in 2 .. Len(f) + 1 : new[j] = f[j - 1]
  OBVIOUS
<1> HIDE DEF new
<1>2. ASSUME NEW i \in 1 .. Len(f) + 1, NEW j \in 1 .. Len(f) + 1,
             <<new[i], new[j]>> \in overtaken'
      PROVE  Ordered(j, i, t)
  <2>1. new[i] # h /\ new[j] # h
    BY <1>2
  <2>2. i \in 2 .. Len(f) + 1 /\ j \in 2 .. Len(f) + 1
    BY <1>1, <2>1
  <2>11. Len(f) \in Nat
    OBVIOUS
  <2>12. i - 1 \in 1 .. Len(f) /\ j - 1 \in 1 .. Len(f)
    BY <2>2, <2>11
  <2>13. new[i] = f[i - 1] /\ new[j] = f[j - 1]
    BY <1>1, <2>2
  <2>3. i - 1 \in 1 .. Len(f) /\ j - 1 \in 1 .. Len(f) /\ <<f[i - 1], f[j - 1]>> \in overtaken
    BY <1>2, <2>12, <2>13
  <2>4. Ordered(j - 1, i - 1, s)
    BY <2>3 DEF InTurn
  <2> QED BY <2>2, <2>4 DEF Ordered
<1>3. InTurn(new, t)'
  BY <1>1, <1>2 DEF InTurn
<1> QED BY <1>3 DEF new

\* What has to be shown of the lists, the cursor and the turns after a step.
LEMMA Reached ==
  ASSUME NEW f, NEW q, NEW d, NEW s, DelegateTypes',
         LinkedIn(Handlers, ptNext', f, ptEvent'),
         LinkedIn(Handlers, ptNext', q, ptBlockedList'),
         Elems(f) \intersect Elems(q) = {}, Elems(f) \union Elems(q) = registered',
         d \in 0 .. Len(f), pptHandler' = (IF d = 0 THEN "event" ELSE f[d]),
         running' # NULL => d < Len(f) /\ running' = f[d + 1],
         overtaken' \subseteq registered' \X Elems(f),
         s = (IF running' = NULL THEN d ELSE d + 1), InTurn(f, s)'
  PROVE  DelegateInv'
<1>1. f \in Seq(Handlers) /\ q \in Seq(Handlers) /\ d \in Nat
  BY DEF LinkedIn
<1>2. DelegateState(f, q, d)'
  BY DEF DelegateState, TwoChains, CursorIs, Served, InTurn
<1> QED BY <1>1, <1>2 DEF DelegateInv

\* A handler on no ready list comes in front of it, from nowhere or from the blocked list.
LEMMA ComesInFront ==
  ASSUME DelegateTypes, NEW f, NEW q, NEW d, DelegateState(f, q, d), NEW h \in Handlers,
         h \notin Elems(f), running = NULL, UNCHANGED <<running, pptHandler>>,
         NEW next \in [Handlers -> Pointers], LinkedIn(Handlers, next, f, ptEvent),
         NEW left, LinkedIn(Handlers, next, left, ptBlockedList'), h \notin Elems(left),
         Elems(left) \union {h} = Elems(q) \union {h},
         PushFront(h, next)
  PROVE  DelegateInv'
<1> DEFINE new == <<h>> \o f
           place == IF d = 0 THEN 0 ELSE d + 1
<1>1. ptNext' = [next EXCEPT ![h] = ptEvent] /\ ptEvent' = h /\ registered' = registered \union {h}
      /\ overtaken' = {p \in overtaken : h \notin {p[1], p[2]}}
  BY DEF PushFront
<1>2. ptEvent \in Pointers
  BY StateFacts, HandlerFacts, LinkedFacts DEF Pointers
<1>3. DelegateTypes'
  BY <1>1, <1>2 DEF DelegateTypes, Pointers
<1>4. DOMAIN next = Handlers
  OBVIOUS
<1>5. /\ LinkedIn(Handlers, ptNext', f, ptEvent)
      /\ LinkedIn(Handlers, ptNext', left, ptBlockedList')
  BY <1>1, <1>4, HandlerFacts, OtherLink
<1>6. ptNext'[h] = ptEvent
  BY <1>1, <1>4
<1>7. LinkedIn(Handlers, ptNext', new, ptEvent') /\ Elems(new) = Elems(f) \union {h}
  <2>1. PICK after : after = ptNext'
    OBVIOUS
  <2>2. LinkedIn(Handlers, after, f, ptEvent) /\ after[h] = ptEvent
    BY <1>5, <1>6, <2>1
  <2> HIDE DEF new
  <2>3. LinkedIn(Handlers, after, new, h) /\ Elems(new) = Elems(f) \union {h}
    BY <2>2, HandlerFacts, LinkedPush DEF new
  <2> QED BY <1>1, <2>1, <2>3
<1>8. Elems(new) \intersect Elems(left) = {} /\ Elems(new) \union Elems(left) = registered'
  <2>1. Elems(f) \intersect Elems(q) = {} /\ Elems(f) \union Elems(q) = registered
    BY StateFacts
  <2> QED BY <1>1, <1>7, <2>1
<1>9. f \in Seq(Handlers) /\ d \in 0 .. Len(f)
  BY StateFacts
<1>10. Len(new) = Len(f) + 1 /\ new[1] = h /\ \A j \in 2 .. Len(f) + 1 : new[j] = f[j - 1]
  BY <1>9
<1>11. place \in 0 .. Len(new) /\ pptHandler' = (IF place = 0 THEN "event" ELSE new[place])
  <2>1. pptHandler = IF d = 0 THEN "event" ELSE f[d]
    BY DEF DelegateState, CursorIs
  <2>2. place \in 0 .. Len(f) + 1
    BY <1>9
  <2>3. CASE d = 0
    BY <2>1, <2>2, <2>3, <1>10
  <2>4. CASE d # 0
    <3>1. d + 1 \in 2 .. Len(f) + 1 /\ (d + 1) - 1 = d
      BY <1>9, <2>4
    <3> QED BY <2>1, <2>2, <2>4, <1>10, <3>1
  <2> QED BY <2>3, <2>4
<1>12. overtaken' \subseteq registered' \X Elems(new)
  BY <1>1, <1>7 DEF DelegateState
<1>13. InTurn(f, d)
  BY DEF DelegateState, Served
<1>14. InTurn(new, place)'
  BY <1>1, <1>9, <1>13, TurnsShift
<1> HIDE DEF new, place
<1>15. running' = NULL
  OBVIOUS
<1> QED BY <1>3, <1>5, <1>7, <1>8, <1>11, <1>12, <1>14, <1>15, Reached

\* register_delegate_handler, for a handler without a successor: a careful program
\* passes one that is on no list.
LEMMA RegisterInv ==
  ASSUME CarefulProgram, DelegateTypes, NEW f, NEW q, NEW d, DelegateState(f, q, d),
         NEW h \in Handlers, Register(h)
  PROVE  DelegateInv'
<1>1. running = NULL /\ UNCHANGED <<running, pptHandler>> /\ ptBlockedList' = ptBlockedList
      /\ PushFront(h, ptNext)
  BY DEF Register, Changing, CarefulProgram
<1>2. h \notin Ready \union Blocked
  BY DEF Register, Kind, CarefulProgram
<1>3. h \notin Elems(f) /\ h \notin Elems(q)
  BY <1>2, StateFacts
<1>4. LinkedIn(Handlers, ptNext, f, ptEvent) /\ LinkedIn(Handlers, ptNext, q, ptBlockedList')
  BY <1>1, StateFacts
<1>5. ptNext \in [Handlers -> Pointers]
  BY DEF DelegateTypes
<1> QED BY <1>1, <1>3, <1>4, <1>5, ComesInFront

\* register_delegate_handler, for one of the blocked list.
LEMMA RegisterBlockedInv ==
  ASSUME CarefulProgram, DelegateTypes, NEW f, NEW q, NEW d, DelegateState(f, q, d),
         NEW h \in Handlers, RegisterBlocked(h)
  PROVE  DelegateInv'
<1> DEFINE link == SearchList("blocked", h)
           next == IF link = "blocked" THEN ptNext ELSE [ptNext EXCEPT ![link] = ptNext[h]]
<1>1. running = NULL /\ UNCHANGED <<running, pptHandler>> /\ link # NULL
      /\ PushFront(h, next)
      /\ ptBlockedList' = IF link = "blocked" THEN ptNext[h] ELSE ptBlockedList
  BY DEF RegisterBlocked, Changing, CarefulProgram
<1>2. h \in Elems(q)
  BY <1>1, Searches
<1>3. PICK k \in 1 .. Len(q) : q[k] = h
  BY <1>2 DEF Elems
<1>4. link = IF k = 1 THEN "blocked" ELSE q[k - 1]
  BY <1>3, Searches
<1>5. /\ q \in Seq(Handlers) /\ Distinct(q) /\ f \in Seq(Handlers)
      /\ LinkedIn(Handlers, ptNext, f, ptEvent)
      /\ LinkedIn(Handlers, ptNext, q, ptBlockedList)
      /\ Elems(f) \intersect Elems(q) = {}
  BY StateFacts
<1>6. k # 1 => k - 1 \in 1 .. Len(q) /\ q[k - 1] \in Handlers /\ q[k - 1] \in Elems(q)
  <2>1. k # 1 => k - 1 \in 1 .. Len(q)
    BY <1>5
  <2> QED BY <1>5, <2>1 DEF Elems
<1>7. ptNext \in [Handlers -> Pointers]
  BY DEF DelegateTypes
<1>8. /\ next \in [Handlers -> Pointers]
      /\ k = 1 => next = ptNext
      /\ k # 1 => next = [ptNext EXCEPT ![q[k - 1]] = ptNext[h]]
  BY <1>4, <1>6, <1>7, HandlerFacts
<1> HIDE DEF link, next
<1>9. \A g \in Handlers : (k # 1 => g # q[k - 1]) => next[g] = ptNext[g]
  BY <1>7, <1>8
<1>10. LinkedIn(Handlers, next, f, ptEvent)
  <2>1. \A g \in Elems(f) : g \in Handlers /\ (k # 1 => g # q[k - 1])
    BY <1>5, <1>6 DEF Elems
  <2> QED BY <1>5, <1>9, <2>1, SameLinks
<1>11. /\ k = 1 => ptBlockedList' = ptNext[q[k]]
       /\ k # 1 => ptBlockedList' = ptBlockedList /\ next[q[k - 1]] = ptNext[q[k]]
  BY <1>1, <1>3, <1>4, <1>6, <1>7, <1>8, HandlerFacts
<1>12. \A g \in Elems(q) : g # q[k] /\ (k # 1 => g # q[k - 1]) => next[g] = ptNext[g]
  BY <1>5, <1>9 DEF Elems
<1>13. /\ LinkedIn(Handlers, next, Without(q, k), ptBlockedList')
       /\ Elems(Without(q, k)) = Elems(q) \ {h}
  BY <1>3, <1>5, <1>11, <1>12, TakenOut
<1> QED BY <1>1, <1>2, <1>5, <1>8, <1>10, <1>13, ComesInFront

\* The k-th handler of the ready list is taken out by the link that leads to it.
CutOut(f, k) ==
  /\ k = 1 => ptEvent' = ptNext[f[k]] /\ ptNext' = [ptNext EXCEPT ![f[k]] = NULL]
  /\ k # 1 => ptEvent' = ptEvent
              /\ ptNext' = [[ptNext EXCEPT ![f[k]] = NULL] EXCEPT ![f[k - 1]] = ptNext[f[k]]]
  /\ ptBlockedList' = ptBlockedList

\* A handler taken out of the ready list, of those that unregister and leave.
LEMMA OutOfReady ==
  ASSUME DelegateTypes, NEW f, NEW q, NEW d, DelegateState(f, q, d), NEW k \in 1 .. Len(f),
         CutOut(f, k)
  PROVE  /\ ptNext' \in [Handlers -> Pointers]
         /\ LinkedIn(Handlers, ptNext', Without(f, k), ptEvent')
         /\ LinkedIn(Handlers, ptNext', q, ptBlockedList')
         /\ Elems(Without(f, k)) = Elems(f) \ {f[k]}
         /\ Elems(Without(f, k)) \intersect Elems(q) = {}
         /\ Elems(Without(f, k)) \union Elems(q) = registered \ {f[k]}
<1>1. /\ f \in Seq(Handlers) /\ Distinct(f) /\ q \in Seq(Handlers)
      /\ LinkedIn(Handlers, ptNext, f, ptEvent)
      /\ LinkedIn(Handlers, ptNext, q, ptBlockedList)
      /\ Elems(f) \intersect Elems(q) = {}
      /\ Elems(f) \union Elems(q) = registered
  BY StateFacts
<1>2. f[k] \in Handlers /\ f[k] \in Elems(f) /\ (k # 1 => f[k - 1] \in Handlers /\ f[k - 1] \in Elems(f))
  <2>1. k # 1 => k - 1 \in 1 .. Len(f)
    BY <1>1
  <2> QED BY <1>1, <2>1 DEF Elems
<1>3. ptNext \in [Handlers -> Pointers]
  BY DEF DelegateTypes
<1>4. k # 1 => f[k - 1] # f[k]
  <2>1. k # 1 => k - 1 \in 1 .. Len(f) /\ k - 1 # k
    BY <1>1
  <2> QED BY <1>1, <2>1 DEF Distinct
<1>5. /\ k = 1 => ptEvent' = ptNext[f[k]] /\ ptNext' = [ptNext EXCEPT ![f[k]] = NULL]
      /\ k # 1 => ptEvent' = ptEvent
                  /\ ptNext' = [[ptNext EXCEPT ![f[k]] = NULL] EXCEPT ![f[k - 1]] = ptNext[f[k]]]
      /\ ptBlockedList' = ptBlockedList
  BY DEF CutOut
<1>6. ptNext' \in [Handlers -> Pointers]
  BY <1>2, <1>3, <1>5 DEF Pointers
<1>7. /\ k # 1 => ptNext'[f[k - 1]] = ptNext[f[k]]
      /\ \A g \in Handlers : g # f[k] /\ (k # 1 => g # f[k - 1]) => ptNext'[g] = ptNext[g]
  BY <1>2, <1>3, <1>5
<1>8. \A g \in Elems(q) : ptNext'[g] = ptNext[g]
  <2>1. \A g \in Elems(q) : g \in Handlers /\ g \notin Elems(f)
    BY <1>1 DEF Elems
  <2> QED BY <1>2, <1>7, <2>1
<1>9. \A g \in Elems(f) : g # f[k] /\ (k # 1 => g # f[k - 1]) => ptNext'[g] = ptNext[g]
  BY <1>1, <1>7 DEF Elems
<1>10. PICK after, first, blocked :
          after = ptNext' /\ first = ptEvent' /\ blocked = ptBlockedList'
  OBVIOUS
<1>11. LinkedIn(Handlers, after, q, blocked)
  BY <1>1, <1>5, <1>8, <1>10, SameLinks
<1>12. /\ LinkedIn(Handlers, after, Without(f, k), first)
       /\ Elems(Without(f, k)) = Elems(f) \ {f[k]}
  <2>1. /\ k = 1 => first = ptNext[f[k]]
        /\ k # 1 => first = ptEvent /\ after[f[k - 1]] = ptNext[f[k]]
    BY <1>5, <1>7, <1>10
  <2>2. \A g \in Elems(f) : g # f[k] /\ (k # 1 => g # f[k - 1]) => after[g] = ptNext[g]
    BY <1>9, <1>10
  <2>3. LinkedIn(Handlers, ptNext, f, ptEvent)
    BY <1>1
  <2> QED BY <2>1, <2>2, <2>3, TakenOut
<1> QED BY <1>1, <1>2, <1>6, <1>10, <1>11, <1>12

\* unregister_delegate_handler, of a ready handler.
LEMMA UnregisterReady ==
  ASSUME CarefulProgram, DelegateTypes, NEW f, NEW q, NEW d, DelegateState(f, q, d),
         NEW h \in Handlers, Unregister(h), NEW k \in 1 .. Len(f), f[k] = h
  PROVE  DelegateInv'
<1> DEFINE link == IF k = 1 THEN "event" ELSE f[k - 1]
           out == Without(f, k)
           place == IF k <= d THEN d - 1 ELSE d
<1>1. running' = running /\ h # running
  BY HandlerFacts DEF Unregister, Changing, CarefulProgram
<1>2. f \in Seq(Handlers) /\ Distinct(f) /\ d \in 0 .. Len(f) /\ Len(f) \in Nat
  BY StateFacts
<1>3. link # NULL
  BY <1>2, HandlerFacts
<1>4. /\ StoreAt(link, ptNext[h], [ptNext EXCEPT ![h] = NULL])
      /\ pptHandler' = (IF pptHandler = h THEN link ELSE pptHandler)
      /\ registered' = registered \ {h}
      /\ overtaken' = {p \in overtaken : h \notin {p[1], p[2]}}
  BY <1>3, Searches DEF Unregister, CursorAfter
<1> HIDE DEF link
<1>5. /\ ptNext' \in [Handlers -> Pointers]
      /\ LinkedIn(Handlers, ptNext', out, ptEvent')
      /\ LinkedIn(Handlers, ptNext', q, ptBlockedList')
      /\ Elems(out) = Elems(f) \ {h}
      /\ Elems(out) \intersect Elems(q) = {}
      /\ Elems(out) \union Elems(q) = registered'
  <2>1. k # 1 => f[k - 1] \in Handlers
    BY <1>2
  <2>2. CutOut(f, k)
    BY <1>4, <2>1, HandlerFacts DEF StoreAt, CutOut, link
  <2>3. /\ ptNext' \in [Handlers -> Pointers]
        /\ LinkedIn(Handlers, ptNext', Without(f, k), ptEvent')
        /\ LinkedIn(Handlers, ptNext', q, ptBlockedList')
        /\ Elems(Without(f, k)) = Elems(f) \ {f[k]}
        /\ Elems(Without(f, k)) \intersect Elems(q) = {}
        /\ Elems(Without(f, k)) \union Elems(q) = registered \ {f[k]}
    BY <2>2, OutOfReady
  <2> QED BY <1>4, <2>3
<1>6. DelegateTypes'
  BY <1>1, <1>4, <1>5 DEF DelegateTypes
<1>7. Len(out) = Len(f) - 1 /\ \A j \in 1 .. Len(f) - 1 : out[j] = (IF j < k THEN f[j] ELSE f[j + 1])
  BY <1>2, WithoutOne
<1> HIDE DEF out
<1>8. /\ pptHandler = IF d = 0 THEN "event" ELSE f[d]
      /\ running # NULL => d < Len(f) /\ running = f[d + 1]
  BY DEF DelegateState, CursorIs
<1>9. place \in 0 .. Len(out)
  BY <1>2, <1>7
<1>10. pptHandler = h <=> d = k
  <2>1. d # 0 => (f[d] = h <=> d = k)
    BY <1>2 DEF Distinct
  <2> QED BY <1>8, <2>1, HandlerFacts
<1>11. pptHandler' = IF place = 0 THEN "event" ELSE out[place]
  <2>1. CASE d = k
    <3>1. k # 1 => k - 1 \in 1 .. Len(f) - 1 /\ k - 1 < k
      BY <1>2
    <3> QED BY <1>4, <1>7, <1>10, <2>1, <3>1 DEF link
  <2>2. CASE d < k
    <3>1. d # 0 => d \in 1 .. Len(f) - 1
      BY <1>2, <2>2
    <3> QED BY <1>4, <1>7, <1>8, <1>10, <2>2, <3>1
  <2>3. CASE d > k
    <3>1. d - 1 \in 1 .. Len(f) - 1 /\ ~ (d - 1 < k) /\ (d - 1) + 1 = d /\ d # 0
      BY <1>2, <2>3
    <3> QED BY <1>4, <1>7, <1>8, <1>10, <2>3, <3>1
  <2> QED BY <1>2, <2>1, <2>2, <2>3
<1>12. running # NULL => k # d + 1
  BY <1>1, <1>8
<1>13. running' # NULL => place < Len(out) /\ running' = out[place + 1]
  <2> SUFFICES ASSUME running # NULL PROVE place < Len(out) /\ running = out[place + 1]
    BY <1>1
  <2>1. CASE k <= d
    <3>1. d \in 1 .. Len(f) - 1 /\ ~ (d < k) /\ place + 1 = d
      BY <1>2, <1>8, <2>1
    <3> QED BY <1>2, <1>7, <1>8, <2>1, <3>1
  <2>2. CASE d + 1 < k
    <3>1. d + 1 \in 1 .. Len(f) - 1 /\ place = d
      BY <1>2, <1>8, <2>2
    <3> QED BY <1>2, <1>7, <1>8, <2>2, <3>1
  <2> QED BY <1>2, <1>12, <2>1, <2>2
<1>14. overtaken' \subseteq registered' \X Elems(out)
  BY <1>4, <1>5 DEF DelegateState
<1>15. PICK s \in 0 .. Len(f) : s = Served(d)
  BY <1>2, <1>8 DEF Served
<1>16. InTurn(f, s)
  BY <1>15 DEF DelegateState
<1>17. PICK t : t = IF k <= s THEN s - 1 ELSE s
  OBVIOUS
<1>18. InTurn(out, t)'
  BY <1>2, <1>4, <1>16, <1>17, TurnsLeft DEF out
<1>19. t = IF running' = NULL THEN place ELSE place + 1
  BY <1>1, <1>2, <1>8, <1>12, <1>15, <1>17 DEF Served
<1> HIDE DEF place
<1> QED BY <1>5, <1>6, <1>9, <1>11, <1>13, <1>14, <1>18, <1>19, Reached

\* unregister_delegate_handler, of a blocked one.
LEMMA UnregisterBlocked ==
  ASSUME CarefulProgram, DelegateTypes, NEW f, NEW q, NEW d, DelegateState(f, q, d),
         NEW h \in Handlers, Unregister(h), NEW k \in 1 .. Len(q), q[k] = h
  PROVE  DelegateInv'
<1> DEFINE link == IF k = 1 THEN "blocked" ELSE q[k - 1]
<1>1. /\ f \in Seq(Handlers) /\ q \in Seq(Handlers) /\ Distinct(q) /\ d \in 0 .. Len(f)
      /\ LinkedIn(Handlers, ptNext, f, ptEvent)
      /\ LinkedIn(Handlers, ptNext, q, ptBlockedList)
      /\ Elems(f) \intersect Elems(q) = {}
      /\ Elems(f) \union Elems(q) = registered
  BY StateFacts
<1>2. /\ h \in Elems(q) /\ h \notin Elems(f)
      /\ k # 1 => k - 1 \in 1 .. Len(q) /\ q[k - 1] \in Handlers /\ q[k - 1] \in Elems(q)
                  /\ q[k - 1] # h
  <2>1. k # 1 => k - 1 \in 1 .. Len(q) /\ k - 1 # k
    BY <1>1
  <2>2. h \in Elems(q) /\ (k # 1 => q[k - 1] \in Handlers /\ q[k - 1] \in Elems(q))
    BY <1>1, <2>1 DEF Elems
  <2>3. k # 1 => q[k - 1] # h
    BY <1>1, <2>1 DEF Distinct
  <2> QED BY <1>1, <2>1, <2>2, <2>3
<1>3. running' = running
  BY DEF Unregister, Changing
<1>4. /\ StoreAt(link, ptNext[h], [ptNext EXCEPT ![h] = NULL])
      /\ pptHandler' = (IF pptHandler = h THEN link ELSE pptHandler)
      /\ registered' = registered \ {h}
      /\ overtaken' = {p \in overtaken : h \notin {p[1], p[2]}}
  BY <1>2, Searches DEF Unregister, CursorAfter
<1>5. /\ pptHandler = IF d = 0 THEN "event" ELSE f[d]
      /\ running # NULL => d < Len(f) /\ running = f[d + 1]
  BY DEF DelegateState, CursorIs
<1>6. pptHandler' = pptHandler
  <2>1. d # 0 => f[d] \in Elems(f)
    BY <1>1 DEF Elems
  <2> QED BY <1>2, <1>4, <1>5, <2>1, HandlerFacts
<1>7. ptNext \in [Handlers -> Pointers]
  BY DEF DelegateTypes
<1>8. /\ ptEvent' = ptEvent
      /\ k = 1 => ptBlockedList' = ptNext[h] /\ ptNext' = [ptNext EXCEPT ![h] = NULL]
      /\ k # 1 => ptBlockedList' = ptBlockedList
                  /\ ptNext' = [[ptNext EXCEPT ![h] = NULL] EXCEPT ![q[k - 1]] = ptNext[h]]
  BY <1>2, <1>4, HandlerFacts DEF StoreAt
<1>9. ptNext' \in [Handlers -> Pointers]
  BY <1>2, <1>7, <1>8 DEF Pointers
<1>10. /\ k # 1 => ptNext'[q[k - 1]] = ptNext[h]
       /\ \A g \in Handlers : g # h /\ (k # 1 => g # q[k - 1]) => ptNext'[g] = ptNext[g]
  BY <1>2, <1>7, <1>8
<1>11. \A g \in Elems(f) : ptNext'[g] = ptNext[g]
  <2>1. \A g \in Elems(f) : g \in Handlers /\ g \notin Elems(q)
    BY <1>1 DEF Elems
  <2> QED BY <1>2, <1>10, <2>1
<1>12. \A g \in Elems(q) : g # h /\ (k # 1 => g # q[k - 1]) => ptNext'[g] = ptNext[g]
  BY <1>1, <1>10 DEF Elems
<1>13. PICK after, first, blocked :
          after = ptNext' /\ first = ptEvent' /\ blocked = ptBlockedList'
  OBVIOUS
<1>14. LinkedIn(Handlers, after, f, first)
  BY <1>1, <1>8, <1>11, <1>13, SameLinks
<1>15. /\ LinkedIn(Handlers, after, Without(q, k), blocked)
       /\ Elems(Without(q, k)) = Elems(q) \ {h}
  <2>1. /\ k = 1 => blocked = ptNext[q[k]]
        /\ k # 1 => blocked = ptBlockedList /\ after[q[k - 1]] = ptNext[q[k]]
    BY <1>8, <1>10, <1>13
  <2>2. \A g \in Elems(q) : g # q[k] /\ (k # 1 => g # q[k - 1]) => after[g] = ptNext[g]
    BY <1>12, <1>13
  <2>3. LinkedIn(Handlers, ptNext, q, ptBlockedList)
    BY <1>1
  <2>4. /\ LinkedIn(Handlers, after, Without(q, k), blocked)
        /\ Elems(Without(q, k)) = Elems(q) \ {q[k]}
    BY <2>1, <2>2, <2>3, TakenOut
  <2> QED BY <2>4
<1>16. DelegateTypes'
  BY <1>3, <1>4, <1>9 DEF DelegateTypes
<1>17. overtaken' \subseteq registered' \X Elems(f)
  BY <1>4 DEF DelegateState
<1>18. PICK s : s = Served(d)
  OBVIOUS
<1>19. InTurn(f, s)'
  BY <1>4, <1>18 DEF DelegateState, InTurn
<1>20. s = IF running' = NULL THEN d ELSE d + 1
  BY <1>3, <1>18 DEF Served
<1>21. /\ LinkedIn(Handlers, ptNext', f, ptEvent')
       /\ LinkedIn(Handlers, ptNext', Without(q, k), ptBlockedList')
  BY <1>13, <1>14, <1>15
<1>22. Elems(f) \intersect Elems(Without(q, k)) = {}
       /\ Elems(f) \union Elems(Without(q, k)) = registered'
  BY <1>1, <1>2, <1>4, <1>15
<1> QED BY <1>1, <1>3, <1>5, <1>6, <1>16, <1>17, <1>19, <1>20, <1>21, <1>22, Reached

\* The cursor is the link to the handler after the first d.
LEMMA CursorLink ==
  ASSUME DelegateTypes, NEW f, NEW q, NEW d, DelegateState(f, q, d)
  PROVE  LinkOf(pptHandler) = NextIn(f, d)
<1>1. /\ f \in Seq(Handlers) /\ d \in 0 .. Len(f)
      /\ LinkedIn(Handlers, ptNext, f, ptEvent)
      /\ pptHandler = IF d = 0 THEN "event" ELSE f[d]
  BY StateFacts DEF DelegateState, CursorIs
<1>2. ptEvent = NextIn(f, 0)
  BY <1>1, LinksAre
<1>3. d # 0 => d \in 1 .. Len(f) /\ f[d] \in Handlers /\ ptNext[f[d]] = NextIn(f, d)
  <2>1. d # 0 => d \in 1 .. Len(f)
    BY <1>1
  <2> QED BY <1>1, <2>1, LinksAre
<1> QED BY <1>1, <1>2, <1>3, HandlerFacts DEF LinkOf

\* A list that is cut short by nothing: what a null link after d of them means.
LEMMA NextFacts ==
  ASSUME NEW f \in Seq(Handlers), NEW d \in 0 .. Len(f)
  PROVE  /\ NextIn(f, d) = NULL <=> d = Len(f)
         /\ d < Len(f) => NextIn(f, d) = f[d + 1] /\ d + 1 \in 1 .. Len(f)
<1>1. d < Len(f) => d + 1 \in 1 .. Len(f) /\ f[d + 1] \in Handlers
  OBVIOUS
<1> QED BY <1>1, HandlerFacts DEF NextIn

\* The handler at place d + 1 is called: it now comes last, and the others before it.
LEMMA TurnsCalled ==
  ASSUME NEW f \in Seq(Handlers), Distinct(f), NEW d \in Nat, NEW k, k = d + 1,
         k \in 1 .. Len(f), InTurn(f, d),
         \A p \in overtaken' : p[2] # f[k] /\ (p \in overtaken \/ p[1] = f[k])
  PROVE  InTurn(f, k)'
<1>1. ASSUME NEW i \in 1 .. Len(f), NEW j \in 1 .. Len(f), <<f[i], f[j]>> \in overtaken'
      PROVE  Ordered(j, i, k)
  <2>1. f[j] # f[k] /\ (<<f[i], f[j]>> \in overtaken \/ f[i] = f[k])
    BY <1>1
  <2>2. j # k
    BY <2>1
  <2>3. CASE f[i] = f[k]
    <3>1. i = k
      BY <2>3 DEF Distinct
    <3> QED BY <2>2, <3>1 DEF Ordered
  <2>4. CASE <<f[i], f[j]>> \in overtaken
    <3>1. Ordered(j, i, d)
      BY <2>4 DEF InTurn
    <3> QED BY <2>2, <3>1 DEF Ordered
  <2> QED BY <2>1, <2>3, <2>4
<1> QED BY <1>1 DEF InTurn

\* invoke_delegate calls the handler that the cursor leads to.
LEMMA InvokeNextInv ==
  ASSUME DelegateTypes, NEW f, NEW q, NEW d, DelegateState(f, q, d),
         InvokeHandler, ptEvent # NULL
  PROVE  DelegateInv'
<1>1. /\ running = NULL
      /\ UNCHANGED <<ptEvent, ptBlockedList, pptHandler, ptNext, registered>>
      /\ running' = LinkOf(pptHandler) /\ running' # NULL
      /\ overtaken' = {p \in overtaken : p[2] # running'}
                        \union {<<running', h>> : h \in Ready \ {running'}}
  BY DEF InvokeHandler, Restart
<1>2. /\ f \in Seq(Handlers) /\ Distinct(f) /\ d \in 0 .. Len(f) /\ d \in Nat
      /\ LinkedIn(Handlers, ptNext, f, ptEvent)
      /\ LinkedIn(Handlers, ptNext, q, ptBlockedList)
      /\ Elems(f) \intersect Elems(q) = {}
      /\ Elems(f) \union Elems(q) = registered
      /\ Ready = Elems(f)
  BY StateFacts
<1>3. d < Len(f) /\ d + 1 \in 1 .. Len(f) /\ running' = f[d + 1]
  BY <1>1, <1>2, CursorLink, NextFacts
<1>4. PICK k : k = d + 1
  OBVIOUS
<1>5. f[k] \in Handlers /\ f[k] \in Elems(f)
  BY <1>2, <1>3, <1>4 DEF Elems
<1>6. overtaken' = {p \in overtaken : p[2] # f[k]} \union {<<f[k], h>> : h \in Elems(f) \ {f[k]}}
  BY <1>1, <1>2, <1>3, <1>4
<1>7. InTurn(f, d)
  BY <1>1 DEF DelegateState, Served
<1>8. InTurn(f, k)'
  BY <1>2, <1>3, <1>4, <1>6, <1>7, TurnsCalled
<1>9. overtaken' \subseteq registered' \X Elems(f)
  BY <1>1, <1>2, <1>5, <1>6 DEF DelegateState
<1>10. DelegateTypes'
  BY <1>1, <1>3, <1>4, <1>5 DEF DelegateTypes, Pointers
<1>11. pptHandler' = IF d = 0 THEN "event" ELSE f[d]
  BY <1>1 DEF DelegateState, CursorIs
<1>12. /\ LinkedIn(Handlers, ptNext', f, ptEvent')
       /\ LinkedIn(Handlers, ptNext', q, ptBlockedList')
       /\ Elems(f) \union Elems(q) = registered'
  BY <1>1, <1>2
<1>13. k = IF running' = NULL THEN d ELSE d + 1
  BY <1>1, <1>4
<1> QED BY <1>2, <1>3, <1>8, <1>9, <1>10, <1>11, <1>12, <1>13, Reached

\* The next round: the blocked list becomes the ready one, and its first handler is called.
LEMMA RestartInv ==
  ASSUME DelegateTypes, NEW f, NEW q, NEW d, DelegateState(f, q, d),
         InvokeHandler, ptEvent = NULL
  PROVE  DelegateInv'
<1>1. /\ running = NULL /\ ptBlockedList # NULL
      /\ ptEvent' = ptBlockedList /\ ptBlockedList' = NULL /\ pptHandler' = "event"
      /\ UNCHANGED <<ptNext, registered>>
      /\ running' = ptBlockedList
      /\ overtaken' = {p \in overtaken : p[2] # running'}
                        \union {<<running', h>> : h \in Blocked \ {running'}}
  BY DEF InvokeHandler, Restart
<1>2. /\ q \in Seq(Handlers) /\ Distinct(q)
      /\ LinkedIn(Handlers, ptNext, f, ptEvent)
      /\ LinkedIn(Handlers, ptNext, q, ptBlockedList)
      /\ Elems(f) \union Elems(q) = registered
      /\ Blocked = Elems(q)
  BY StateFacts
<1>3. f = <<>>
  BY <1>2, LinkedFacts, HandlerFacts
<1>4. Elems(f) = {} /\ overtaken = {}
  BY <1>3, EmptyList DEF DelegateState
<1>5. q # <<>> /\ ptBlockedList = q[1] /\ q[1] \in Handlers /\ q[1] \in Elems(q)
  BY <1>1, <1>2, LinkedFacts, HandlerFacts
<1>6. 1 \in 1 .. Len(q) /\ 0 < Len(q) /\ 0 \in 0 .. Len(q)
  BY <1>2, <1>5
<1>7. overtaken' = {<<q[1], h>> : h \in Elems(q) \ {q[1]}}
  BY <1>1, <1>2, <1>4, <1>5
<1>8. InTurn(q, 0)
  BY <1>4 DEF InTurn
<1>9. InTurn(q, 1)'
  <2>1. PICK z, one : z = 0 /\ one = 1
    OBVIOUS
  <2>2. one = z + 1 /\ z \in Nat /\ one \in 1 .. Len(q) /\ InTurn(q, z)
        /\ \A p \in overtaken' : p[2] # q[one] /\ (p \in overtaken \/ p[1] = q[one])
    BY <1>6, <1>7, <1>8, <2>1
  <2>3. InTurn(q, one)'
    BY <1>2, <2>2, TurnsCalled
  <2> QED BY <2>1, <2>3
<1>10. overtaken' \subseteq registered' \X Elems(q)
  BY <1>1, <1>2, <1>5, <1>7
<1>11. DelegateTypes'
  BY <1>1, <1>5 DEF DelegateTypes, Pointers
<1>12. LinkedIn(Handlers, ptNext', q, ptEvent')
  BY <1>1, <1>2
<1>13. LinkedIn(Handlers, ptNext', <<>>, ptBlockedList')
  BY <1>1, LinkedOne
<1>14. Elems(q) \intersect Elems(<<>>) = {} /\ Elems(q) \union Elems(<<>>) = registered'
  BY <1>1, <1>2, <1>4, EmptyList
<1>15. running' # NULL /\ running' = q[0 + 1]
  BY <1>1, <1>5
<1> QED BY <1>1, <1>6, <1>9, <1>10, <1>11, <1>12, <1>13, <1>14, <1>15, Reached

\* The end of the list is reached: the cursor goes back to the head.
LEMMA InvokeAtEndInv ==
  ASSUME DelegateTypes, NEW f, NEW q, NEW d, DelegateState(f, q, d), InvokeAtEnd
  PROVE  DelegateInv'
<1>1. /\ running = NULL /\ UNCHANGED <<listVars, running, registered, overtaken>>
      /\ pptHandler' = "event" /\ LinkOf(pptHandler) = NULL
  BY DEF InvokeAtEnd
<1>2. /\ f \in Seq(Handlers) /\ d \in 0 .. Len(f)
      /\ LinkedIn(Handlers, ptNext, f, ptEvent)
      /\ LinkedIn(Handlers, ptNext, q, ptBlockedList)
      /\ Elems(f) \intersect Elems(q) = {}
      /\ Elems(f) \union Elems(q) = registered
  BY StateFacts
<1>3. d = Len(f)
  BY <1>1, <1>2, CursorLink, NextFacts
<1>4. InTurn(f, d) /\ overtaken \subseteq registered \X Elems(f)
  BY <1>1 DEF DelegateState, Served
<1>5. InTurn(f, 0)'
  BY <1>1, <1>2, <1>3, <1>4 DEF InTurn, Ordered
<1>6. /\ LinkedIn(Handlers, ptNext', f, ptEvent')
      /\ LinkedIn(Handlers, ptNext', q, ptBlockedList')
      /\ Elems(f) \union Elems(q) = registered'
      /\ overtaken' \subseteq registered' \X Elems(f)
  BY <1>1, <1>2, <1>4 DEF listVars
<1>7. DelegateTypes'
  BY <1>1 DEF DelegateTypes, listVars
<1>8. 0 \in 0 .. Len(f)
  BY <1>2
<1> QED BY <1>1, <1>2, <1>5, <1>6, <1>7, <1>8, Reached

\* The handler stays, and the cursor becomes its link.
LEMMA OnGoingInv ==
  ASSUME DelegateTypes, NEW f, NEW q, NEW d, DelegateState(f, q, d), HandlerOnGoing
  PROVE  DelegateInv'
<1>1. /\ running # NULL /\ pptHandler' = running /\ running' = NULL
      /\ UNCHANGED <<listVars, registered, overtaken>>
  BY DEF HandlerOnGoing
<1>2. /\ f \in Seq(Handlers) /\ d \in 0 .. Len(f)
      /\ LinkedIn(Handlers, ptNext, f, ptEvent)
      /\ LinkedIn(Handlers, ptNext, q, ptBlockedList)
      /\ Elems(f) \intersect Elems(q) = {}
      /\ Elems(f) \union Elems(q) = registered
  BY StateFacts
<1>3. d < Len(f) /\ running = f[d + 1] /\ overtaken \subseteq registered \X Elems(f)
      /\ InTurn(f, d + 1)
  BY <1>1 DEF DelegateState, CursorIs, Served
<1>4. PICK k : k = d + 1
  OBVIOUS
<1>5. k \in 0 .. Len(f) /\ pptHandler' = IF k = 0 THEN "event" ELSE f[k]
  BY <1>1, <1>2, <1>3, <1>4
<1>6. InTurn(f, k)'
  BY <1>1, <1>3, <1>4 DEF InTurn
<1>7. /\ LinkedIn(Handlers, ptNext', f, ptEvent')
      /\ LinkedIn(Handlers, ptNext', q, ptBlockedList')
      /\ Elems(f) \union Elems(q) = registered'
      /\ overtaken' \subseteq registered' \X Elems(f)
  BY <1>1, <1>2, <1>3 DEF listVars
<1>8. DelegateTypes'
  BY <1>1 DEF DelegateTypes, listVars, Pointers
<1> QED BY <1>1, <1>2, <1>5, <1>6, <1>7, <1>8, Reached

\* Where the running handler stands, and what its going leaves of the turns.
LEMMA RunningPlace ==
  ASSUME DelegateTypes, NEW f, NEW q, NEW d, DelegateState(f, q, d), running # NULL
  PROVE  /\ d + 1 \in 1 .. Len(f) /\ running = f[d + 1] /\ running \in Handlers
         /\ running \in Elems(f) /\ running \notin Elems(q)
         /\ d # 0 => f[d] \in Handlers /\ f[d] \in Elems(f) /\ f[d] # running
         /\ pptHandler = (IF d = 0 THEN "event" ELSE f[d])
         /\ overtaken \subseteq registered \X Elems(f)
         /\ d \in 0 .. Len(Without(f, d + 1))
         /\ \A j \in 1 .. d : Without(f, d + 1)[j] = f[j]
         /\ overtaken' \subseteq overtaken => InTurn(Without(f, d + 1), d)'
<1>1. /\ f \in Seq(Handlers) /\ Distinct(f) /\ d \in 0 .. Len(f) /\ d \in Nat /\ Len(f) \in Nat
      /\ Elems(f) \intersect Elems(q) = {}
  BY StateFacts
<1>2. /\ d < Len(f) /\ running = f[d + 1] /\ InTurn(f, d + 1)
      /\ pptHandler = (IF d = 0 THEN "event" ELSE f[d])
      /\ overtaken \subseteq registered \X Elems(f)
  BY DEF DelegateState, CursorIs, Served
<1>3. PICK k : k = d + 1
  OBVIOUS
<1>4. k \in 1 .. Len(f) /\ running = f[k] /\ InTurn(f, k) /\ k \in 0 .. Len(f)
  BY <1>1, <1>2, <1>3
<1>5. running \in Handlers /\ running \in Elems(f) /\ running \notin Elems(q)
  <2>1. running \in Handlers /\ running \in Elems(f)
    BY <1>1, <1>4 DEF Elems
  <2> QED BY <1>1, <2>1
<1>6. d # 0 => d \in 1 .. Len(f) /\ d # k
  BY <1>1, <1>3
<1>7. d # 0 => f[d] \in Handlers /\ f[d] \in Elems(f) /\ f[d] # running
  BY <1>1, <1>4, <1>6 DEF Elems, Distinct
<1>8. /\ Len(Without(f, k)) = Len(f) - 1
      /\ \A j \in 1 .. Len(f) - 1 : Without(f, k)[j] = (IF j < k THEN f[j] ELSE f[j + 1])
  BY <1>1, <1>4, WithoutOne
<1>9. d \in 0 .. Len(Without(f, k)) /\ \A j \in 1 .. d : Without(f, k)[j] = f[j]
  <2>1. \A j \in 1 .. d : j \in 1 .. Len(f) - 1 /\ j < k
    BY <1>1, <1>2, <1>3
  <2> QED BY <1>1, <1>2, <1>3, <1>8, <2>1
<1>10. ASSUME overtaken' \subseteq overtaken PROVE InTurn(Without(f, k), d)'
  <2>1. PICK t : t = IF k <= k THEN k - 1 ELSE k
    OBVIOUS
  <2>2. InTurn(Without(f, k), t)'
    BY <1>1, <1>4, <1>10, <2>1, TurnsLeft
  <2>3. t = d
    BY <1>1, <1>3, <2>1
  <2> QED BY <2>2, <2>3
<1> QED BY <1>2, <1>3, <1>4, <1>5, <1>7, <1>9, <1>10

\* EVENT_RT_UNREGISTER: the handler that the cursor leads to goes, and the cursor leads to
\* the next one.
LEMMA LeavesInv ==
  ASSUME DelegateTypes, NEW f, NEW q, NEW d, DelegateState(f, q, d), HandlerLeaves
  PROVE  DelegateInv'
<1>1. /\ running # NULL /\ running' = NULL /\ pptHandler' = pptHandler
      /\ StoreAt(pptHandler, ptNext[running], [ptNext EXCEPT ![running] = NULL])
      /\ registered' = registered \ {running}
      /\ overtaken' = {p \in overtaken : running \notin {p[1], p[2]}}
  BY DEF HandlerLeaves
<1>2. PICK k : k = d + 1
  OBVIOUS
<1>3. d \in Nat
  BY StateFacts
<1>4. /\ k \in 1 .. Len(f) /\ running = f[k] /\ running \in Handlers
      /\ d # 0 => f[d] \in Handlers
      /\ pptHandler = (IF d = 0 THEN "event" ELSE f[d])
      /\ overtaken \subseteq registered \X Elems(f)
      /\ d \in 0 .. Len(Without(f, k)) /\ \A j \in 1 .. d : Without(f, k)[j] = f[j]
      /\ overtaken' \subseteq overtaken => InTurn(Without(f, k), d)'
  BY <1>1, <1>2, RunningPlace
<1>5. CutOut(f, k)
  <2>1. (k = 1 <=> d = 0) /\ k - 1 = d
    BY <1>2, <1>3
  <2> QED BY <1>1, <1>4, <2>1, HandlerFacts DEF StoreAt, CutOut
<1>6. /\ ptNext' \in [Handlers -> Pointers]
      /\ LinkedIn(Handlers, ptNext', Without(f, k), ptEvent')
      /\ LinkedIn(Handlers, ptNext', q, ptBlockedList')
      /\ Elems(Without(f, k)) = Elems(f) \ {f[k]}
      /\ Elems(Without(f, k)) \intersect Elems(q) = {}
      /\ Elems(Without(f, k)) \union Elems(q) = registered \ {f[k]}
  BY <1>4, <1>5, OutOfReady
<1>7. DelegateTypes'
  BY <1>1, <1>6 DEF DelegateTypes, Pointers
<1>8. InTurn(Without(f, k), d)'
  BY <1>1, <1>4
<1>9. overtaken' \subseteq registered' \X Elems(Without(f, k))
  BY <1>1, <1>4, <1>6
<1>10. pptHandler' = IF d = 0 THEN "event" ELSE Without(f, k)[d]
  BY <1>1, <1>3, <1>4
<1>11. Elems(Without(f, k)) \union Elems(q) = registered'
  BY <1>1, <1>4, <1>6
<1>12. PICK out : out = Without(f, k)
  OBVIOUS
<1>13. /\ LinkedIn(Handlers, ptNext', out, ptEvent')
       /\ Elems(out) \intersect Elems(q) = {} /\ Elems(out) \union Elems(q) = registered'
       /\ d \in 0 .. Len(out) /\ pptHandler' = (IF d = 0 THEN "event" ELSE out[d])
       /\ overtaken' \subseteq registered' \X Elems(out) /\ InTurn(out, d)'
  BY <1>4, <1>6, <1>8, <1>9, <1>10, <1>11, <1>12
<1> QED BY <1>1, <1>6, <1>7, <1>13, Reached

\* __move_to_block_list: the handler that has finished goes to the front of the other list.
LEMMA FinishedInv ==
  ASSUME DelegateTypes, NEW f, NEW q, NEW d, DelegateState(f, q, d), HandlerFinished
  PROVE  DelegateInv'
<1>1. /\ running # NULL /\ running' = NULL /\ UNCHANGED <<pptHandler, registered>>
      /\ overtaken' = {p \in overtaken : p[2] # running}
      /\ ptEvent' = IF pptHandler = "event" THEN ptNext[running] ELSE ptEvent
      /\ ptNext' = [(IF pptHandler \in Handlers
                     THEN [ptNext EXCEPT ![pptHandler] = ptNext[running]]
                     ELSE ptNext) EXCEPT ![running] = ptBlockedList]
      /\ ptBlockedList' = running
  BY DEF HandlerFinished, MoveToBlockList
<1>2. PICK k, h : k = d + 1 /\ h = running
  OBVIOUS
<1>3. /\ d \in Nat /\ f \in Seq(Handlers) /\ q \in Seq(Handlers)
      /\ LinkedIn(Handlers, ptNext, f, ptEvent)
      /\ LinkedIn(Handlers, ptNext, q, ptBlockedList)
      /\ Elems(f) \intersect Elems(q) = {}
      /\ Elems(f) \union Elems(q) = registered
  BY StateFacts
<1>4. /\ k \in 1 .. Len(f) /\ h = f[k] /\ h \in Handlers /\ h \in Elems(f) /\ h \notin Elems(q)
      /\ d # 0 => f[d] \in Handlers /\ f[d] \in Elems(f) /\ f[d] # h
      /\ pptHandler = (IF d = 0 THEN "event" ELSE f[d])
      /\ overtaken \subseteq registered \X Elems(f)
      /\ d \in 0 .. Len(Without(f, k)) /\ \A j \in 1 .. d : Without(f, k)[j] = f[j]
      /\ overtaken' \subseteq overtaken => InTurn(Without(f, k), d)'
  BY <1>1, <1>2, RunningPlace
<1>5. (k = 1 <=> d = 0) /\ k - 1 = d
  BY <1>2, <1>3
<1>6. /\ d = 0 => ptEvent' = ptNext[h] /\ ptNext' = [ptNext EXCEPT ![h] = ptBlockedList]
      /\ d # 0 => ptEvent' = ptEvent
                  /\ ptNext' = [[ptNext EXCEPT ![f[d]] = ptNext[h]] EXCEPT ![h] = ptBlockedList]
  BY <1>1, <1>2, <1>4, HandlerFacts
<1>7. ptNext \in [Handlers -> Pointers]
  BY DEF DelegateTypes
<1>8. ptBlockedList \in Pointers
  BY <1>3, HandlerFacts, LinkedFacts DEF Pointers
<1>9. ptNext' \in [Handlers -> Pointers]
  BY <1>4, <1>6, <1>7, <1>8
<1>10. /\ d # 0 => ptNext'[f[d]] = ptNext[h]
       /\ ptNext'[h] = ptBlockedList
       /\ \A g \in Handlers : g # h /\ (d # 0 => g # f[d]) => ptNext'[g] = ptNext[g]
  BY <1>4, <1>6, <1>7
<1>11. \A g \in Elems(q) : ptNext'[g] = ptNext[g]
  <2>1. \A g \in Elems(q) : g \in Handlers
    BY <1>3 DEF Elems
  <2>2. \A g \in Elems(q) : g \notin Elems(f)
    BY <1>3
  <2> QED BY <1>4, <1>10, <2>1, <2>2
<1>12. \A g \in Elems(f) : g # h /\ (d # 0 => g # f[d]) => ptNext'[g] = ptNext[g]
  BY <1>3, <1>10 DEF Elems
<1>13. PICK after, first, blocked, out, new :
         after = ptNext' /\ first = ptEvent' /\ blocked = ptBlockedList'
         /\ out = Without(f, k) /\ new = <<h>> \o q
  OBVIOUS
<1>14. LinkedIn(Handlers, after, out, first) /\ Elems(out) = Elems(f) \ {h}
  <2>1. /\ k = 1 => first = ptNext[f[k]]
        /\ k # 1 => first = ptEvent /\ after[f[k - 1]] = ptNext[f[k]]
    BY <1>4, <1>5, <1>6, <1>10, <1>13
  <2>2. \A g \in Elems(f) : g # f[k] /\ (k # 1 => g # f[k - 1]) => after[g] = ptNext[g]
    BY <1>4, <1>5, <1>12, <1>13
  <2>3. k \in 1 .. Len(f) /\ LinkedIn(Handlers, ptNext, f, ptEvent)
    BY <1>3, <1>4
  <2>4. /\ LinkedIn(Handlers, after, Without(f, k), first)
        /\ Elems(Without(f, k)) = Elems(f) \ {f[k]}
    BY <2>1, <2>2, <2>3, TakenOut
  <2> QED BY <1>4, <1>13, <2>4
<1>15. LinkedIn(Handlers, after, new, blocked) /\ Elems(new) = Elems(q) \union {h}
  <2>1. LinkedIn(Handlers, after, q, ptBlockedList) /\ after[h] = ptBlockedList
    BY <1>3, <1>10, <1>11, <1>13, SameLinks
  <2>2. LinkedIn(Handlers, after, <<h>> \o q, h) /\ Elems(<<h>> \o q) = Elems(q) \union {h}
    BY <1>4, <2>1, HandlerFacts, LinkedPush
  <2> QED BY <1>1, <1>2, <1>13, <2>2
<1>16. DelegateTypes'
  BY <1>1, <1>9 DEF DelegateTypes, Pointers
<1>17. /\ LinkedIn(Handlers, ptNext', out, ptEvent')
       /\ LinkedIn(Handlers, ptNext', new, ptBlockedList')
  BY <1>13, <1>14, <1>15
<1>18. Elems(out) \intersect Elems(new) = {} /\ Elems(out) \union Elems(new) = registered'
  BY <1>1, <1>3, <1>4, <1>14, <1>15
<1>19. overtaken' \subseteq registered' \X Elems(out)
  BY <1>1, <1>2, <1>4, <1>14
<1>20. InTurn(out, d)'
  BY <1>1, <1>4, <1>13
<1>21. d \in 0 .. Len(out) /\ pptHandler' = IF d = 0 THEN "event" ELSE out[d]
  <2>1. d # 0 => d \in 1 .. d
    BY <1>3
  <2> QED BY <1>1, <1>4, <1>13, <2>1
<1> QED BY <1>1, <1>16, <1>17, <1>18, <1>19, <1>20, <1>21, Reached

\* delegate_init: both lists are empty.
LEMMA DelegateInitInv == DelegateInit => DelegateInv
<1> SUFFICES ASSUME DelegateInit PROVE DelegateInv
  OBVIOUS
<1>1. DelegateTypes
  BY DEF DelegateInit, DelegateTypes, Pointers
<1>2. ptEvent = NULL /\ ptBlockedList = NULL /\ registered = {} /\ overtaken = {}
      /\ pptHandler = "event" /\ running = NULL
  BY DEF DelegateInit
<1>3. LinkedIn(Handlers, ptNext, <<>>, ptEvent) /\ LinkedIn(Handlers, ptNext, <<>>, ptBlockedList)
  BY <1>2, LinkedOne
<1>4. Elems(<<>>) = {}
  BY EmptyList
<1>5. 0 \in 0 .. Len(<<>>) /\ <<>> \in Seq(Handlers) /\ 0 \in Nat
  OBVIOUS
<1>6. DelegateState(<<>>, <<>>, 0)
  BY <1>2, <1>3, <1>4, <1>5 DEF DelegateState, TwoChains, CursorIs, InTurn
<1> QED BY <1>1, <1>5, <1>6 DEF DelegateInv

\* Nothing that the invariant speaks of is changed.
LEMMA DelegateStutters ==
  DelegateInv /\ UNCHANGED <<listVars, pptHandler, running, registered, overtaken>> => DelegateInv'
<1> SUFFICES ASSUME DelegateInv,
                    UNCHANGED <<listVars, pptHandler, running, registered, overtaken>>
             PROVE  DelegateInv'
  OBVIOUS
<1>1. PICK f \in Seq(Handlers), q \in Seq(Handlers), d \in Nat : DelegateState(f, q, d)
  BY DEF DelegateInv
<1>2. DelegateTypes'
  BY DEF DelegateInv, DelegateTypes, Pointers, listVars
<1>3. DelegateState(f, q, d)'
  BY <1>1 DEF DelegateState, TwoChains, CursorIs, Served, InTurn, listVars
<1> QED BY <1>2, <1>3 DEF DelegateInv

\* Every call of the module, by a careful program, keeps the lists, the cursor and the turns.
LEMMA DelegateStep ==
  ASSUME CarefulProgram
  PROVE  DelegateInv /\ [DelegateNext]_delegateVars => DelegateInv'
<1> SUFFICES ASSUME DelegateInv, [DelegateNext]_delegateVars PROVE DelegateInv'
  OBVIOUS
<1>1. PICK f \in Seq(Handlers), q \in Seq(Handlers), d \in Nat : DelegateState(f, q, d)
  BY DEF DelegateInv
<1>2. DelegateTypes
  BY DEF DelegateInv
<1>3. ASSUME NEW h \in Handlers, Register(h) PROVE DelegateInv'
  BY <1>1, <1>2, <1>3, RegisterInv
<1>4. ASSUME NEW h \in Handlers, RegisterBlocked(h) PROVE DelegateInv'
  BY <1>1, <1>2, <1>4, RegisterBlockedInv
<1>5. ASSUME NEW h \in Handlers, RegisterRefused(h) PROVE DelegateInv'
  BY <1>5, DelegateStutters DEF RegisterRefused, Changing
<1>6. ASSUME NEW h \in Handlers, Unregister(h) PROVE DelegateInv'
  <2>1. h \in Elems(f) \union Elems(q)
    BY <1>1, <1>2, <1>6, StateFacts DEF Unregister
  <2>2. CASE h \in Elems(f)
    <3>1. PICK k \in 1 .. Len(f) : f[k] = h
      BY <2>2 DEF Elems
    <3> QED BY <1>1, <1>2, <1>6, <3>1, UnregisterReady
  <2>3. CASE h \in Elems(q)
    <3>1. PICK k \in 1 .. Len(q) : q[k] = h
      BY <2>3 DEF Elems
    <3> QED BY <1>1, <1>2, <1>6, <3>1, UnregisterBlocked
  <2> QED BY <2>1, <2>2, <2>3
<1>7. CASE InvokeHandler
  BY <1>1, <1>2, <1>7, InvokeNextInv, RestartInv
<1>8. CASE InvokeAtEnd
  BY <1>1, <1>2, <1>8, InvokeAtEndInv
<1>9. CASE InvokeNothing
  BY <1>9, DelegateStutters DEF InvokeNothing, delegateVars
<1>10. CASE HandlerOnGoing
  BY <1>1, <1>2, <1>10, OnGoingInv
<1>11. CASE HandlerLeaves
  BY <1>1, <1>2, <1>11, LeavesInv
<1>12. CASE HandlerFinished
  BY <1>1, <1>2, <1>12, FinishedInv
<1>13. CASE UNCHANGED delegateVars
  BY <1>13, DelegateStutters DEF delegateVars
<1> QED BY <1>3, <1>4, <1>5, <1>6, <1>7, <1>8, <1>9, <1>10, <1>11, <1>12, <1>13
        DEF DelegateNext, Invoke, HandlerReturns

\* The invariant as the two checked formulas put it: what is found on the lists, and where
\* the cursor is.
LEMMA StateIsWhole == DelegateInv => ListsAndCursor
<1> SUFFICES ASSUME DelegateInv PROVE ListsAndCursor
  OBVIOUS
<1>1. PICK f \in Seq(Handlers), q \in Seq(Handlers), d \in Nat : DelegateState(f, q, d)
  BY DEF DelegateInv
<1>2. DelegateTypes
  BY DEF DelegateInv
<1>3. /\ Distinct(f) /\ Distinct(q) /\ d \in 0 .. Len(f)
      /\ Elems(f) \intersect Elems(q) = {}
      /\ Elems(f) \union Elems(q) = registered
      /\ Chain(ptEvent) = f /\ Chain(ptBlockedList) = q
      /\ Ready = Elems(f) /\ Blocked = Elems(q)
  BY <1>1, <1>2, StateFacts
<1>4. NoneLost
  <2>1. Cardinality(Elems(f)) = Len(f) /\ Cardinality(Elems(q)) = Len(q)
    BY <1>3, CountNodes
  <2> QED BY <1>3, <2>1 DEF NoneLost
<1>5. CursorLeadsToHandler
  <2>1. LinkOf(pptHandler) = NextIn(f, d)
    BY <1>1, <1>2, CursorLink
  <2>2. /\ pptHandler = IF d = 0 THEN "event" ELSE f[d]
        /\ running # NULL => d < Len(f) /\ running = f[d + 1]
    BY <1>1 DEF DelegateState, CursorIs
  <2>3. d # 0 => f[d] \in Ready
    BY <1>3 DEF Elems
  <2>4. running # NULL => NextIn(f, d) = running
    BY <1>3, <2>2, NextFacts
  <2> QED BY <2>1, <2>2, <2>3, <2>4 DEF CursorLeadsToHandler
<1> QED BY <1>4, <1>5 DEF ListsAndCursor

\* ListsAndCursor: a handler that is registered is on exactly one of the two lists, once,
\* and the cursor leads to the handler that runs, through every registration,
\* unregistration, invocation and return, for a careful program with any number of
\* handlers, running ones that unregister others included.
THEOREM ListsAndCursorAlways == ASSUME CarefulProgram PROVE DelegateSpec => []ListsAndCursor
<1>1. DelegateInv /\ [DelegateNext]_delegateVars => DelegateInv'
  BY DelegateStep
<1> QED BY <1>1, DelegateInitInv, StateIsWhole, PTL DEF DelegateSpec

\* NoneOvertaken: an invocation calls no handler again while another one, ready since its
\* own last call, still waits for its turn.
THEOREM NoneIsOvertaken == ASSUME CarefulProgram PROVE DelegateSpec => NoneOvertaken
<1> DEFINE Called == running = NULL /\ running' # NULL =>
                       \A h \in Ready : <<running', h>> \notin overtaken
<1>1. DelegateInv /\ [DelegateNext]_delegateVars => [Called]_delegateVars
  <2> SUFFICES ASSUME DelegateInv, DelegateNext, running = NULL, running' # NULL,
                      NEW g \in Ready
               PROVE  <<running', g>> \notin overtaken
    OBVIOUS
  <2>1. PICK f \in Seq(Handlers), q \in Seq(Handlers), d \in Nat : DelegateState(f, q, d)
    BY DEF DelegateInv
  <2>2. /\ Distinct(f) /\ d \in 0 .. Len(f) /\ Ready = Elems(f)
        /\ LinkedIn(Handlers, ptNext, f, ptEvent)
    BY <2>1, StateFacts DEF DelegateInv
  <2>3. InvokeHandler
    BY DEF DelegateNext, Invoke, InvokeAtEnd, InvokeNothing, HandlerReturns, HandlerOnGoing,
           HandlerLeaves, HandlerFinished, Register, RegisterBlocked, RegisterRefused,
           Unregister, Changing, delegateVars
  <2>4. ptEvent # NULL
    BY <2>2, HandlerFacts, LinkedFacts, EmptyList
  <2>5. running' = LinkOf(pptHandler)
    BY <2>3, <2>4 DEF InvokeHandler
  <2>6. d < Len(f) /\ d + 1 \in 1 .. Len(f) /\ running' = f[d + 1]
    BY <2>1, <2>2, <2>5, CursorLink, NextFacts DEF DelegateInv
  <2>7. PICK j \in 1 .. Len(f) : f[j] = g
    BY <2>2 DEF Elems
  <2>8. PICK k : k = d + 1
    OBVIOUS
  <2>9. ~ Ordered(j, k, d)
    BY <2>8 DEF Ordered
  <2>10. InTurn(f, d)
    BY <2>1 DEF DelegateState, Served
  <2>11. <<f[k], f[j]>> \notin overtaken
    BY <2>6, <2>8, <2>9, <2>10 DEF InTurn
  <2> QED BY <2>6, <2>7, <2>8, <2>11
<1>2. NoneOvertaken <=> [][Called]_delegateVars
  BY DEF NoneOvertaken
<1>3. DelegateInv /\ [DelegateNext]_delegateVars => DelegateInv'
  BY DelegateStep
<1> HIDE DEF Called
<1> QED BY <1>1, <1>2, <1>3, DelegateInitInv, PTL DEF DelegateSpec
=============================================================================
