--------------------------- MODULE StepController ---------------------------
(***************************************************************************)
(* The step controller, class DebugIterator of src/unnamed/part_001: a     *)
(* StateIterator whose driver loop is replaced by next_state(prev), one    *)
(* pop-and-maybe-execute cycle per call, returning a frozen snapshot       *)
(* (DebugState).  It reuses the variables of Engine as the fields of the   *)
(* iterator object: reader, stack, tokens, production_id and               *)
(* symbol_accumulator are this.*; fail_mode and last_good_state are the    *)
(* locals of next_state(); 'out' is the actions array of the snapshot      *)
(* under construction, which emit() appends to.  The instruction handlers  *)
(* are the Exec actions of Engine, unchanged.                              *)
(*                                                                         *)
(* The caller steps linearly: each call is given the snapshot the previous *)
(* call returned.  A call is split into Load (the copies at the top of     *)
(* next_state), the terminal or pop branch, the handlers of the executed   *)
(* block, and Commit (the tail that records and freezes the snapshot).     *)
(***************************************************************************)
EXTENDS Engine

VARIABLES
    snaps,      \* the DebugStates returned so far, oldest first
    cur,        \* active_debug_state while next_state() runs
    stepping,   \* a next_state() call is in progress
    trace       \* history: the actions of all returned snapshots, in order

dvars == << vars, snaps, cur, stepping, trace >>

\* The value -1 of last_good_state, as Engine writes it.
NoGoodState == [NoState EXCEPT !.addr = -1]

\* The snapshot literal of the constructor and of next_state().
Snapshot(st, fm, lgs, act, acc) ==
    [state |-> st, ACTIVE |-> act, fail_mode |-> fm, last_good_state |-> lgs,
     production_id |-> production_id, tokens |-> tokens, reader |-> reader,
     stack |-> stack, actions |-> out, symbol_accumulator |-> acc]

(***************************************************************************)
(* constructor: a StateIterator over the entry state, and the first        *)
(* snapshot, which takes the iterator's own accumulator.                   *)
(***************************************************************************)
DebugInit ==
    /\ Init
    /\ snaps = << Snapshot(Entry.addr, FALSE, NoGoodState, TRUE, 0) >>
    /\ cur = [state |-> 0, ACTIVE |-> TRUE, last_good_state |-> NoGoodState,
              popped |-> FALSE, executed |-> FALSE]
    /\ stepping = FALSE
    /\ trace = << >>

(***************************************************************************)
(* next_state(prev): fail_mode and last_good_state come from prev; reader, *)
(* production_id, tokens and stack are copied from it; symbol_accumulator  *)
(* is not.  The new snapshot starts with fail_mode false and               *)
(* last_good_state -1, and a fresh actions array.                          *)
(***************************************************************************)
Load ==
    /\ ~stepping
    /\ LET prev == Last(snaps) IN
       /\ prev.ACTIVE
       /\ reader' = prev.reader /\ production_id' = prev.production_id
       /\ tokens' = prev.tokens /\ stack' = prev.stack
       /\ fail_mode' = prev.fail_mode
       /\ last_good_state' = prev.last_good_state
    /\ out' = << >>
    /\ cur' = [state |-> 0, ACTIVE |-> TRUE, last_good_state |-> NoGoodState,
               popped |-> FALSE, executed |-> FALSE]
    /\ stepping' = TRUE
    /\ UNCHANGED << input, ip, recover_data, symbol_accumulator, done,
                    snaps, trace >>

\* Stack empty: the terminal action of start(), and ACTIVE = false.
DebugFinish ==
    /\ stepping /\ ~cur.popped
    /\ Finish
    /\ cur' = [cur EXCEPT !.ACTIVE = FALSE, !.popped = TRUE]
    /\ UNCHANGED << snaps, stepping, trace >>

(***************************************************************************)
(* Stack not empty: pop a state.  The snapshot records it, and records it  *)
(* as last_good_state only outside fail mode; the block runs when the      *)
(* state passes the gate.  Pop of Engine is the same pop and gate.         *)
(***************************************************************************)
DebugPop ==
    /\ stepping /\ ~cur.popped
    /\ Pop
    /\ LET e == Last(stack) IN
       cur' = [cur EXCEPT
                 !.state = e.sp.addr, !.popped = TRUE,
                 !.last_good_state = IF e.sp # NoState /\ ~fail_mode
                                     THEN e.sp ELSE NoGoodState,
                 !.executed = e.sp # NoState /\ Gate(e.sp, fail_mode)]
    /\ UNCHANGED << snaps, stepping, trace >>

\* A handler of the executed block (instruction_executor).
DebugExec ==
    /\ stepping /\ cur.popped
    /\ \/ ExecPass \/ ExecReturn \/ ExecConsume \/ ExecGoto
       \/ ExecSetProduction \/ ExecReduce \/ ExecSetToken
       \/ ExecAssertConsume \/ ExecIndexJump \/ ExecNoop \/ ExecHashJump
       \/ ExecPushFailState \/ ExecRepeat \/ ExecTryLazy \/ ExecFork
    /\ UNCHANGED << snaps, cur, stepping, trace >>

(***************************************************************************)
(* The tail of next_state(): fail_mode is recorded only when the block ran *)
(* (else it stays false), production_id and a clone of the stack are       *)
(* taken, and the frozen snapshot is returned.  Its symbol_accumulator is  *)
(* the -1 it was created with.                                             *)
(***************************************************************************)
Commit ==
    /\ stepping /\ cur.popped /\ ip = Idle
    /\ snaps' = Append(snaps,
                  Snapshot(cur.state, cur.executed /\ fail_mode,
                           cur.last_good_state, cur.ACTIVE, -1))
    /\ trace' = trace \o out
    /\ stepping' = FALSE
    /\ UNCHANGED << vars, cur >>

DebugNext == Load \/ DebugFinish \/ DebugPop \/ DebugExec \/ Commit

DebugSpec == DebugInit /\ [][DebugNext]_dvars

-----------------------------------------------------------------------------
(***************************************************************************)
(* Refinement: stepping snapshot by snapshot is the driver loop of         *)
(* start().  Between calls the state of start() is the last snapshot: its  *)
(* fail_mode, its last_good_state (reloaded by the next call) and every    *)
(* action returned so far; during a call it is the call's locals.  The     *)
(* last snapshot of a finished parse (ACTIVE false) is never stepped from, *)
(* so its fields are not part of the mapping.                              *)
(***************************************************************************)
StartFailMode ==
    IF stepping \/ ~Last(snaps).ACTIVE THEN fail_mode ELSE Last(snaps).fail_mode
StartOut == IF stepping THEN trace \o out ELSE trace

Start == INSTANCE Engine WITH fail_mode <- StartFailMode, out <- StartOut

(***************************************************************************)
(* Spec 4.6: each step executes exactly one pop-and-maybe-execute cycle    *)
(* of the driver loop.  So the snapshots, followed one after the other,    *)
(* go through the states start() goes through and return the actions it   *)
(* emits: a state popped in fail mode and dropped by the gate leaves the   *)
(* engine in fail mode, and the last good state survives the pop.          *)
(***************************************************************************)
ImplementsStart == Start!Init /\ [][Start!Next]_(Start!vars)
=============================================================================
