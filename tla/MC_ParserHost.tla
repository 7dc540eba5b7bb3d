---------------------------- MODULE MC_ParserHost ----------------------------
(***************************************************************************)
(* The lab debugger over a parse whose first call of next() returns one   *)
(* step, a ShiftToken, and whose second returns two, an ExecuteInstruction *)
(* and a ShiftToken; the grammar context may create the database with     *)
(* either creation throwing.                                              *)
(***************************************************************************)
EXTENDS ParserHost

TwoStepBatches == << << "ShiftToken" >>, << "ExecuteInstruction", "ShiftToken" >> >>
AllOutcomes == {"ok", "states_throws", "bytecode_throws"}
=============================================================================
