---------------------------- MODULE MC_Transport ----------------------------
(***************************************************************************)
(* The transport of the web lab over a parse of "ab" by A -> 'a' 'b':     *)
(* the parser enters a state, executes an instruction before each action, *)
(* shifts a and b, reduces them, and completes, one step per next() call. *)
(***************************************************************************)
EXTENDS Transport

ES == [type |-> "ExecuteState", arg |-> 0]
EI == [type |-> "ExecuteInstruction", arg |-> 0]
Sh(t) == [type |-> "Shift", arg |-> t]
Rd(n) == [type |-> "Reduce", arg |-> n]
Done == [type |-> "Complete", arg |-> 0]

\* One step per next() call.
SingleSteps ==
    << <<ES>>, <<EI>>, <<Sh("a")>>, <<EI>>, <<Sh("b")>>, <<EI>>, <<Rd(2)>>,
       <<EI>>, <<Done>> >>

AllOutcomes == {"invalid", "new_throws", "init_throws", "ok"}
=============================================================================
