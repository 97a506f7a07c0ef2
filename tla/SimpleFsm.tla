----------------------------- MODULE SimpleFsm ------------------------------
(***************************************************************************)
(* The state machines that the macros of src/common/utilities/simple_fsm.h *)
(* build: a function that resumes, by a switch on chState, in the state it *)
(* was left in.  Machine m calls machine m + 1 from its state CALLS, the   *)
(* way the stream machines call their flush machine, and moves on when     *)
(* that has completed; otherwise a state ends in any way the macros offer. *)
(* An action is one way out of one state of the machine called last.       *)
(***************************************************************************)
EXTENDS Integers

CONSTANTS
  Depth,         \* machines that call one another
  LastState,     \* def_states numbers the states 1 .. LastState
  CALLS,         \* state(CALLS) { if (fsm_rt_cpl == call_fsm(...)) ... }
  NONE           \* no value returned to a machine in its present state

fsm_rt_t == {"err", "cpl", "on_going", "wait_for_obj"}

ASSUME FsmAssumption ==
  /\ Depth \in Nat \ {0}
  /\ LastState \in Nat /\ CALLS \in 1 .. LastState
  /\ NONE \notin fsm_rt_t

Fsms == 1 .. Depth
START == 0
States == 1 .. LastState

VARIABLES
  chState,      \* [Fsms -> START or a state]
  fsm,          \* the machine running, called by those before it; 0: none
  got,          \* [Fsms -> what the machine it calls returned in this state]
  completed     \* history: [Fsms -> completions of that machine in this state]

fsmVars == <<chState, fsm, got, completed>>

\* fsm_initialiser of every machine.
FsmsInit ==
  /\ chState = [m \in Fsms |-> START]
  /\ fsm = 0
  /\ got = [m \in Fsms |-> NONE]
  /\ completed = [m \in Fsms |-> 0]

InState(s) == fsm \in Fsms /\ chState[fsm] = s
Calling == InState(CALLS) /\ fsm < Depth

\* return, to the program or to the machine before, which is still in CALLS.
Return(value) ==
  /\ fsm' = fsm - 1
  /\ got' = [m \in Fsms |-> IF m = fsm - 1 THEN value
                            ELSE IF m = fsm THEN NONE ELSE got[m]]

\* A transition of the running machine; with it another stay in a state starts.
MoveTo(s) ==
  /\ chState' = [chState EXCEPT ![fsm] = s]
  /\ completed' = [completed EXCEPT ![fsm] = 0]

\* call_fsm of the first machine by the program, between calls.
CallFirst ==
  /\ fsm = 0
  /\ fsm' = 1
  /\ UNCHANGED <<chState, got, completed>>

\* init_fsm of all machines by the program, at any time between calls.
InitFsms ==
  /\ fsm = 0
  /\ chState' = [m \in Fsms |-> START]
  /\ completed' = [m \in Fsms |-> 0]
  /\ UNCHANGED <<fsm, got>>

\* case 0: chState becomes 1, on_start runs, and ends in update_state_to or in
\* the break before the first state.
FirstState == 1

OnStart ==
  /\ InState(START)
  /\ \/ MoveTo(FirstState) /\ Return("on_going")
     \/ \E s \in States : MoveTo(s) /\ UNCHANGED <<fsm, got>>

\* state(CALLS): the machine after it is called, with its own chState.
CallInner ==
  /\ Calling /\ got[fsm] = NONE
  /\ fsm' = fsm + 1
  /\ UNCHANGED <<chState, got, completed>>

\* ... and has returned something else than fsm_rt_cpl: the state ends.
BadInnerEnded == got[fsm] # NONE
InnerCompleted == got[fsm] = "cpl"

InnerNotCompleted ==
  /\ Calling /\ got[fsm] # NONE /\ ~InnerCompleted
  /\ Return("on_going")
  /\ UNCHANGED <<chState, completed>>

\* A state that is free to go on, to s: CALLS only once the machine it calls has
\* completed, and to another state.
Goes(s) ==
  /\ fsm \in Fsms /\ chState[fsm] \in States
  /\ Calling => InnerCompleted /\ s # CALLS

\* update_state_to: on in the same call.
UpdateStateTo(s) ==
  /\ Goes(s) /\ MoveTo(s)
  /\ got' = [got EXCEPT ![fsm] = NONE]
  /\ UNCHANGED fsm

\* transfer_to: on in the next call.
TransferTo(s) == Goes(s) /\ MoveTo(s) /\ Return("on_going")

\* fsm_on_going, fsm_wait_for_obj or the end of the state: here again next time.
Yield(value) ==
  /\ fsm \in Fsms /\ Goes(chState[fsm])
  /\ Return(value)
  /\ UNCHANGED <<chState, completed>>

\* fsm_cpl and fsm_report: reset_fsm, and return.
BadResetFsm == chState[fsm]
ResetFsm == START

End(value) ==
  /\ Goes(START)
  /\ chState' = [chState EXCEPT ![fsm] = ResetFsm]
  /\ completed' = [m \in Fsms |->
                     IF m = fsm THEN 0
                     ELSE IF m = fsm - 1 /\ value = "cpl" THEN completed[m] + 1
                     ELSE completed[m]]
  /\ Return(value)

FsmsNext == \/ CallFirst \/ InitFsms \/ OnStart \/ CallInner \/ InnerNotCompleted
            \/ \E s \in States : UpdateStateTo(s) \/ TransferTo(s)
            \/ \E value \in {"on_going", "wait_for_obj"} : Yield(value)
            \/ \E value \in {"cpl", "err"} : End(value)

FsmsSpec == FsmsInit /\ [][FsmsNext]_fsmVars

---------------------------------------------------------------------------
(* Properties.                                                              *)

\* The switch always finds its case: default, which would return fsm_rt_err for
\* ever without a reset, is never reached.
FsmsTyped ==
  /\ chState \in [Fsms -> {START} \union States]
  /\ fsm \in 0 .. Depth
  /\ got \in [Fsms -> fsm_rt_t \union {NONE}]

\* A machine is under way only while the one before it stays in the state that
\* calls it: a later run of a machine never resumes an earlier run of the next
\* one half way, at any depth.
InnerStartsFresh ==
  \A m \in 1 .. Depth - 1 : chState[m + 1] # START => chState[m] = CALLS

\* However many calls a stay in that state takes, the machine called has run to
\* its end exactly once when the caller moves on.
LeavesCompleted ==
  [][\A m \in 1 .. Depth - 1 :
       fsm # 0 /\ chState[m] = CALLS /\ chState'[m] # CALLS => completed[m] = 1]_fsmVars
=============================================================================
