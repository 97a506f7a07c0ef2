------------------------------ MODULE TinyFsm -------------------------------
(***************************************************************************)
(* The machines of src/common/utilities/tiny_fsm.h: a machine is a pointer *)
(* to its next state's function, NULL when it has completed, and one static*)
(* parameter record per call site.  They are modelled on the example that  *)
(* the header gives: a loop calls instances of Print_String in turn, which *)
(* put their strings on one serial line and keep out of one another's      *)
(* strings by m_CriticalSection.                                           *)
(***************************************************************************)
EXTENDS Integers

CONSTANTS
  Instances,    \* NEW_TINY_FSM's, called in this order by the loop: 1 .. n
  Length        \* [1 .. n -> the length of the string of each]

ASSUME TinyAssumption ==
  Instances \in Nat \ {0} /\ Length \in [1 .. Instances -> Nat]

Printers == 1 .. Instances

VARIABLES
  s_TinyFSM,    \* [Printers -> "NULL", "Print_Init" or "Print_Output"]
  pchString,    \* [Printers -> characters of tParam's string put out]
  m_CriticalSection,
  called,       \* the call site the loop has come to
  last          \* ghost: the last character put out, as its instance and place

tinyVars == <<s_TinyFSM, pchString, m_CriticalSection, called, last>>

\* NEW_TINY_FSM: a new machine looks completed.
TinyInit ==
  /\ s_TinyFSM = [f \in Printers |-> "NULL"]
  /\ pchString = [f \in Printers |-> 0]
  /\ m_CriticalSection = FALSE
  /\ called = 1
  /\ last = <<1, Length[1]>>

NextCall == called' = IF called = Instances THEN 1 ELSE called + 1

\* CALL_TINY_FSM .. END_PARAM_INIT: a completed machine starts again, from the
\* parameters written at the call site.
Param(f) == IF s_TinyFSM[f] = "NULL" THEN 0 ELSE pchString[f]
Task(f) == IF s_TinyFSM[f] = "NULL" THEN "Print_Init" ELSE s_TinyFSM[f]

\* END_CALL_TINY_FSM: the function of the state is called and returns the next.
Returns(f, state) == s_TinyFSM' = [s_TinyFSM EXCEPT ![f] = state]

\* Print_Init: an empty string completes; a taken section is tried next time.
BadPrintInit(f) ==
  /\ Task(f) = "Print_Init"
  /\ IF Length[f] = 0 THEN Returns(f, "NULL") ELSE Returns(f, "Print_Output")
  /\ m_CriticalSection' = TRUE
  /\ pchString' = [pchString EXCEPT ![f] = Param(f)]
  /\ UNCHANGED last
PrintInit(f) ==
  /\ Task(f) = "Print_Init"
  /\ \/ Length[f] = 0 /\ Returns(f, "NULL") /\ UNCHANGED m_CriticalSection
     \/ /\ Length[f] > 0 /\ m_CriticalSection
        /\ Returns(f, "Print_Init") /\ UNCHANGED m_CriticalSection
     \/ /\ Length[f] > 0 /\ ~m_CriticalSection
        /\ m_CriticalSection' = TRUE
        /\ Returns(f, "Print_Output")
  /\ pchString' = [pchString EXCEPT ![f] = Param(f)]
  /\ UNCHANGED last

\* Print_Output, serial_out busy: nothing happens.
OutputBusy(f) ==
  /\ Task(f) = "Print_Output"
  /\ Returns(f, "Print_Output")
  /\ UNCHANGED <<pchString, m_CriticalSection, last>>

\* Print_Output, the character taken: the last one leaves the section.
Leaves(f) == pchString[f] + 1 = Length[f]

OutputChar(f) ==
  /\ Task(f) = "Print_Output"
  /\ pchString' = [pchString EXCEPT ![f] = @ + 1]
  /\ last' = <<f, pchString[f] + 1>>
  /\ m_CriticalSection' = ~Leaves(f)
  /\ Returns(f, IF pchString[f] + 1 = Length[f] THEN "NULL" ELSE "Print_Output")

Call(f) ==
  /\ called = f /\ NextCall
  /\ PrintInit(f) \/ OutputBusy(f) \/ OutputChar(f)

TinyNext == \E f \in Printers : Call(f)

TinySpec == TinyInit /\ [][TinyNext]_tinyVars

---------------------------------------------------------------------------
(* Properties.                                                              *)

\* The strings come out one after the other, each whole and in its order,
\* although the calls of all instances alternate and all that keeps them apart
\* is one static flag, tried once in a call.
StringsWhole ==
  [][last' # last =>
       \/ last'[1] = last[1] /\ last'[2] = last[2] + 1
       \/ last[2] = Length[last[1]] /\ last'[2] = 1]_tinyVars
=============================================================================
