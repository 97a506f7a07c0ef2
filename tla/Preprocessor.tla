---------------------------- MODULE Preprocessor ----------------------------
(***************************************************************************)
(* The compile-time arithmetic of src/common/utilities/preprocessor:       *)
(* mf_u8_dec2str.h turns a constant value into the text of its decimal     *)
(* digits, digit by digit, because a macro name can be pasted only from    *)
(* text; macro_repeat.h pastes that text to MACRO_REPEAT and expands it,   *)
(* one level per step, to the macro it is given, once for every index.     *)
(***************************************************************************)
EXTENDS Integers, Sequences

CONSTANT Values       \* MFUNC_IN_U8_DEC_VALUE

ValueAssumption == Values \subseteq Nat

Largest == 256        \* the last MACRO_REPEAT there is

\* __MFUNC_OUT_DEC_DIGIT_TEMP0 .. 2: ones, tens and hundreds.  No hundreds digit
\* above 2 has a definition; undefined, it counts as 0 in the tests that follow.
Hundreds(value) ==
  LET digit == (value \div 100) % 10 IN IF digit \in 0 .. 2 THEN digit ELSE 0
Digits(value) == <<Hundreds(value), (value \div 10) % 10, value % 10>>

\* MFUNC_OUT_DEC_STR: no leading zeros, as MACRO_REPEAT007 does not exist.
BadDecStr(value) ==
  LET d == Digits(value)
  IN  IF d[2] = 0 THEN <<d[3]>> ELSE IF d[1] = 0 THEN <<d[2], d[3]>> ELSE d
DecStr(value) ==
  LET d == Digits(value)
  IN  IF d[1] # 0 THEN d ELSE IF d[2] # 0 THEN <<d[2], d[3]>> ELSE <<d[3]>>

VARIABLES
  value,        \* the constant
  text,         \* MFUNC_OUT_DEC_STR
  level,        \* n of the MACRO_REPEATn still to expand; -1 before the pasting
  expansion     \* the indices of __MACRO(i, ...) expanded so far, in text order

vars == <<value, text, level, expansion>>

Init ==
  /\ value \in Values
  /\ text = DecStr(value)
  /\ level = -1 /\ expansion = <<>>

\* The number that a sequence of decimal digits names.
Number(digits) ==
  LET n[i \in 0 .. Len(digits)] == IF i = 0 THEN 0 ELSE 10 * n[i - 1] + digits[i]
  IN  n[Len(digits)]

\* CONNECT2(MACRO_REPEAT, text), if there is a macro of that name.
Paste ==
  /\ level = -1
  /\ level' = Number(text)
  /\ level' <= Largest
  /\ UNCHANGED <<value, text, expansion>>

\* #define MACRO_REPEATn ... MACRO_REPEAT(n - 1)(...) __MACRO(n - 1, ...)
Expanded == <<level - 1>> \o expansion

Expand ==
  /\ level > 0
  /\ level' = level - 1
  /\ expansion' = Expanded
  /\ UNCHANGED <<value, text>>

Next == Paste \/ Expand

Spec == Init /\ [][Next]_vars /\ WF_vars(Next)

---------------------------------------------------------------------------
(* Properties.                                                              *)

\* MACRO_REPEAT of every value that has one, that is of every uint8_t and 256,
\* finds the macro the digits name, and expands __MACRO that many times, with the
\* indices in growing order.
Repeats == value <= Largest ~> level = 0 /\ expansion = [i \in 1 .. value |-> i - 1]
=============================================================================
