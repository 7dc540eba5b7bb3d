------------------------------ MODULE MC_StepList ------------------------------
(***************************************************************************)
(* The step controller stepping, snapshot by snapshot, through the         *)
(* bytecode of MC_List (S -> '(' L ')' | L, L -> 'x'+), whose failing      *)
(* inputs leave normal states on the stack when the engine enters fail    *)
(* mode.                                                                   *)
(***************************************************************************)
EXTENDS StepController, MC_List
=============================================================================
