----------------------------- MODULE CodeRegion -----------------------------
(***************************************************************************)
(* The statements that src/common/utilities/preprocessor/                  *)
(* language_extension.h and arm/signal.h build from for loops: using,      *)
(* foreach and code_region.  Each is a loop that has to run once around    *)
(* the user's body (foreach: around a loop over an array); what the body   *)
(* does to leave it decides which expressions of the loops still run.      *)
(***************************************************************************)
EXTENDS Integers, Sequences, Null

CONSTANTS
  Arrays,       \* arrays given to foreach, each as its number of elements
  Regions,      \* addresses given to code_region, NULL among them or not
  Exits         \* environment: how a body under using or code_region is left, other
                \* than by its end: "break", "return", neither in this repository

Forms == [macro : {"using"}] \union [macro : {"foreach"}, array : Arrays]
         \union [macro : {"code_region"}, region : Regions]

ASSUME RegionAssumption ==
  /\ Arrays \subseteq Nat \ {0} /\ NULL \notin Nat
  /\ Exits \subseteq {"break", "return"}

VARIABLES
  stmt,         \* the statement being executed
  stmtPc,
  guard,        \* of the outer loop: __using_<line>_ptr, or ptCodeRegion
  count,        \* of the inner loop: count<line>, or __code_region_<line>
  element,      \* foreach: where _ points
  trace,        \* what was executed: "enter", elements (0 if none), "leave"
  exit          \* how the body was left last

stmtVars == <<stmt, stmtPc, guard, count, element, trace, exit>>

\* The statement is reached; the loops' variables are declared.
StmtInit ==
  /\ stmt \in Forms
  /\ stmtPc = "outer"
  /\ guard = IF stmt.macro = "code_region" THEN stmt.region ELSE NULL
  /\ count = 0 /\ element = 0
  /\ trace = <<>> /\ exit = "none"

Does(event) == trace' = Append(trace, event)

\* ptr++ == NULL.
BadFirst == TRUE
First == guard = NULL

\* __using3: for (; ptr++ == NULL ? ((enter), 1) : 0; (leave)).
UsingTest ==
  /\ stmt.macro = "using" /\ stmtPc = "outer"
  /\ \/ First /\ Does("enter") /\ stmtPc' = "body"
     \/ ~First /\ stmtPc' = "done" /\ UNCHANGED trace
  /\ guard' = 1
  /\ UNCHANGED <<stmt, count, element, exit>>

\* foreach2: using without expressions around for (count = dimof; count > 0; ...).
ForeachTest ==
  /\ stmt.macro = "foreach" /\ stmtPc = "outer"
  /\ \/ First /\ count' = stmt.array /\ element' = 1 /\ stmtPc' = "inner"
     \/ ~First /\ stmtPc' = "done" /\ UNCHANGED <<count, element>>
  /\ guard' = 1
  /\ UNCHANGED <<stmt, trace, exit>>

ForeachNext ==
  /\ stmt.macro = "foreach" /\ stmtPc = "inner"
  /\ stmtPc' = IF count > 0 THEN "body" ELSE "outer"
  /\ UNCHANGED <<stmt, guard, count, element, trace, exit>>

\* code_region: for (; ptCodeRegion != NULL; ptCodeRegion = NULL) around
\* for (flag = 1; flag-- ? (OnEnter, 1) : 0; OnLeave).
RegionTest ==
  /\ stmt.macro = "code_region" /\ stmtPc = "outer"
  /\ \/ guard # NULL /\ count' = 1 /\ stmtPc' = "inner"
     \/ guard = NULL /\ stmtPc' = "done" /\ UNCHANGED count
  /\ UNCHANGED <<stmt, guard, element, trace, exit>>

\* The flag is a uint8_t: it wraps when the loop ends.
FlagDown == (count - 1) % 256

RegionEnter ==
  /\ stmt.macro = "code_region" /\ stmtPc = "inner"
  /\ count' = FlagDown
  /\ \/ count > 0 /\ Does("enter") /\ stmtPc' = "body" /\ UNCHANGED guard
     \/ count = 0 /\ guard' = NULL /\ stmtPc' = "outer" /\ UNCHANGED trace
  /\ UNCHANGED <<stmt, element, exit>>

\* The user's statement, up to its end or a continue, a break, or a return.
WaysOut == {"end"} \union IF stmt.macro = "foreach" THEN {"break", "return"} ELSE Exits

Body ==
  /\ stmtPc = "body"
  /\ Does(element)
  /\ exit' \in WaysOut
  /\ stmtPc' = CASE exit' = "end" -> "step" [] exit' = "break" -> "broken" [] OTHER -> "done"
  /\ UNCHANGED <<stmt, guard, count, element>>

\* The third expression of the loop around the body.
NextElement == element + 1

Step ==
  /\ stmtPc = "step"
  /\ \/ /\ stmt.macro = "foreach"
        /\ element' = NextElement /\ count' = count - 1 /\ stmtPc' = "inner"
        /\ UNCHANGED trace
     \/ /\ stmt.macro = "using" /\ Does("leave") /\ stmtPc' = "outer"
        /\ UNCHANGED <<element, count>>
     \/ /\ stmt.macro = "code_region" /\ Does("leave") /\ stmtPc' = "inner"
        /\ UNCHANGED <<element, count>>
  /\ UNCHANGED <<stmt, guard, exit>>

\* break leaves that loop without its third expression.
BrokenTo == CASE stmt.macro = "using" -> "done" [] OTHER -> "outer"

Broken ==
  /\ stmtPc = "broken"
  /\ stmtPc' = BrokenTo
  /\ guard' = IF stmt.macro = "code_region" THEN NULL ELSE guard
  /\ UNCHANGED <<stmt, count, element, trace, exit>>

\* The program goes on to another statement.
NextStatement ==
  /\ stmtPc = "done"
  /\ stmt' \in Forms
  /\ stmtPc' = "outer"
  /\ guard' = IF stmt'.macro = "code_region" THEN stmt'.region ELSE NULL
  /\ count' = 0 /\ element' = 0
  /\ trace' = <<>> /\ exit' = "none"

StmtNext == \/ UsingTest \/ ForeachTest \/ ForeachNext \/ RegionTest \/ RegionEnter
        \/ Body \/ Step \/ Broken \/ NextStatement

StmtSpec == StmtInit /\ [][StmtNext]_stmtVars

---------------------------------------------------------------------------
(* Properties.                                                              *)

\* A statement that is over has entered once, run its body once, and left once.
EnterBodyLeave ==
  stmtPc = "done" /\ stmt.macro # "foreach" => trace = <<"enter", 0, "leave">>

\* foreach visits the elements from the first on, one after the other, each once, and
\* all of them but for a body that breaks the loop or returns.
EachElementOnce ==
  stmt.macro = "foreach" =>
    /\ \A i \in 1 .. Len(trace) : trace[i] = i
    /\ stmtPc = "done" /\ exit \notin {"break", "return"} => Len(trace) = stmt.array

\* Every statement runs its body as often as it is written, between one enter and
\* one leave.
BodyRunsOnce == EnterBodyLeave /\ EachElementOnce

\* arm/signal.h:67: with NULL DEFAULT_CODE_REGION_NONE is used, whose enter and leave
\* do nothing: the body is run.
NullRunsBody ==
  stmtPc = "done" /\ stmt.macro = "code_region" /\ stmt.region = NULL =>
    0 \in {trace[i] : i \in 1 .. Len(trace)}

---------------------------------------------------------------------------
(* Why: what the steps keep, for the proofs.                                *)

\* The body has been run, and left in a way that is known.
BodyIsOver == exit # "none" /\ trace = IF exit = "end" THEN <<"enter", 0, "leave">>
                                       ELSE <<"enter", 0>>

\* using and code_region, expression by expression.
OnceSoFar ==
  stmt.macro # "foreach" =>
    /\ element = 0 /\ stmtPc \in {"outer", "inner", "body", "step", "broken", "done"}
    /\ stmtPc = "body" => trace = <<"enter">>
    /\ stmtPc \in {"step", "broken"} =>
         trace = <<"enter", 0>> /\ exit = IF stmtPc = "step" THEN "end" ELSE "break"
    /\ stmtPc \in {"outer", "done"} /\ exit # "none" => BodyIsOver

UsingSoFar ==
  stmt.macro = "using" =>
    /\ stmtPc # "inner"
    /\ stmtPc # "outer" => guard = 1
    /\ stmtPc = "outer" => IF exit = "none" THEN guard = NULL /\ trace = <<>> ELSE guard = 1
    /\ stmtPc = "done" => exit # "none"

\* The flag of code_region is up until OnEnter.
RegionSoFar ==
  stmt.macro = "code_region" =>
    /\ stmtPc = "outer" =>
         IF exit = "none" THEN guard = stmt.region /\ trace = <<>> ELSE guard = NULL
    /\ stmtPc \in {"body", "step"} => count = 0
    /\ stmtPc = "inner" => IF exit = "none" THEN count = 1 /\ trace = <<>>
                           ELSE count = 0 /\ exit = "end" /\ BodyIsOver
    /\ stmtPc = "done" /\ exit = "none" => stmt.region = NULL

\* foreach: the elements visited and those still counted are all there are.
ForeachSoFar ==
  stmt.macro = "foreach" =>
    /\ stmtPc \in {"outer", "inner", "body", "step", "broken", "done"}
    /\ trace \in Seq(Nat) /\ \A i \in 1 .. Len(trace) : trace[i] = i
    /\ stmtPc = "outer" /\ exit = "none" => guard = NULL /\ trace = <<>>
    /\ stmtPc \in {"outer", "done"} /\ exit = "end" => Len(trace) = stmt.array
    /\ stmtPc = "outer" /\ exit # "none" => guard = 1
    /\ stmtPc \in {"inner", "body", "step", "broken"} => guard = 1
    /\ stmtPc = "inner" => element = Len(trace) + 1 /\ count = stmt.array - Len(trace)
    /\ stmtPc = "body" =>
         element = Len(trace) + 1 /\ count = stmt.array - Len(trace) /\ count > 0
    /\ stmtPc = "step" =>
         element = Len(trace) /\ count = stmt.array + 1 - Len(trace) /\ count > 0
    /\ stmtPc \in {"inner", "body"} => exit \in {"none", "end"} /\ (exit = "none" <=> trace = <<>>)
    /\ stmtPc = "inner" => count \in Nat
    /\ stmtPc = "step" => exit = "end" /\ trace # <<>>
    /\ stmtPc = "broken" => exit = "break"
    /\ stmtPc = "done" => exit # "none"

\* How the body was left, if it was run yet.
ExitKnown == exit \in {"none"} \union WaysOut

StmtInv == stmt \in Forms /\ OnceSoFar /\ UsingSoFar /\ RegionSoFar /\ ForeachSoFar
=============================================================================
