------------------------------- MODULE MCParts -------------------------------
(***************************************************************************)
(* Nine parts of the repository that share no state with one another, each *)
(* on a small instance: a behaviour is one of the part it picks, the others*)
(* rest in an initial state.                                               *)
(***************************************************************************)
EXTENDS Queue, Pool, Delegate, SimpleFsm, Locker, TinyFsm, CodeRegion, StreamInit

VARIABLES
  part,         \* the part that works
  value, text, level, expansion

\* Three strings of different lengths, an empty one and one of a character.
Strings == <<7, 0, 5, 1, 6>>

\* One, two and three digits, zeros in every place, both ends of uint8_t.
M == INSTANCE Preprocessor WITH
       Values <- (0 .. 12) \union (98 .. 111) \union {199, 200, 206, 254, 255, 256, 257, 299}

ASSUME M!ValueAssumption

Parts == {"queue", "simple_fsm", "pool", "delegate", "locker", "tiny_fsm",
          "code_region", "preprocessor", "stream_init"}

macroVars == <<value, text, level, expansion>>
partsVars == <<part, vars, fsmVars, itemVars, delegateVars, lockerVars, tinyVars,
               stmtVars, macroVars, initVars>>

\* A part that rests does so in one state only; the preprocessor in one that is
\* no use of it.
PartsInit ==
  /\ part \in Parts
  /\ Init /\ (part # "queue" => tSize = 1 /\ \A i, j \in Slots : ptBuffer[i] = ptBuffer[j])
  /\ FsmsInit
  /\ PoolInit /\ (part # "pool" => \A i \in Items : word[i] = NULL)
  /\ DelegateInit /\ LockerInit /\ TinyInit
  /\ StmtInit /\ (part # "code_region" => stmt = [macro |-> "using"])
  /\ M!Init /\ (part # "preprocessor" => value = 257)
  /\ InitEntry /\ (part # "stream_init" => dir = "write" /\ hwSize = 0)

PartsNext ==
  /\ IF part = "queue" THEN Next ELSE UNCHANGED vars
  /\ IF part = "simple_fsm" THEN FsmsNext ELSE UNCHANGED fsmVars
  /\ IF part = "pool" THEN PoolNext ELSE UNCHANGED itemVars
  /\ IF part = "delegate" THEN DelegateNext ELSE UNCHANGED delegateVars
  /\ IF part = "locker" THEN LockerNext ELSE UNCHANGED lockerVars
  /\ IF part = "tiny_fsm" THEN TinyNext ELSE UNCHANGED tinyVars
  /\ IF part = "code_region" THEN StmtNext ELSE UNCHANGED stmtVars
  /\ IF part = "preprocessor" THEN M!Next ELSE UNCHANGED macroVars
  /\ IF part = "stream_init" THEN InitNext ELSE UNCHANGED initVars
  /\ UNCHANGED part

\* The preprocessor expands what there is to expand; nothing else has to happen.
Preprocess == part = "preprocessor" /\ PartsNext

PartsSpec == PartsInit /\ [][PartsNext]_partsVars /\ WF_partsVars(Preprocess)

---------------------------------------------------------------------------
(* Properties are stated in the modules of the parts.                        *)

\* macro_repeat.h: every index is expanded once, in growing order.
Repeats == M!Repeats
=============================================================================
