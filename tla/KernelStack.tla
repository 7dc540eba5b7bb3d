---------------------------- MODULE KernelStack ----------------------------
(***************************************************************************)
(* The ExecutionStack of the recognizer engine (KernelStack of             *)
(* './stack.js'): a stack of (state pointer, accumulator snapshot) pairs.  *)
(* The class itself is not part of the repository sources; its operations  *)
(* are modelled from the spec (section 2, ExecutionStack) and from the way *)
(* StateIterator uses them: entries live at indices 1..pointer, index 0    *)
(* holds the sentinel state 0, pop_state returns the entry at 'pointer'    *)
(* and decrements it, so that meta_stack[pointer + 1] afterwards is the    *)
(* snapshot pushed with the popped state.                                  *)
(*                                                                         *)
(* A stack is a sequence of entries [sp |-> state, meta |-> snapshot], the *)
(* top being the last element.                                            *)
(***************************************************************************)
EXTENDS Integers, Sequences, SequencesExt

\* reset(entry): the stack holds the entry pointer alone, snapshot 0.
Reset(entry) == << [sp |-> entry, meta |-> 0] >>

\* push_state(state, meta)
PushState(stk, state, meta) == Append(stk, [sp |-> state, meta |-> meta])

\* pop_state(): the popped entry is Last(stk), the stack keeps Front(stk).
PopState(stk) == Front(stk)

\* read_state(): the state on top, or the sentinel (NoState) when empty.
ReadState(stk, NoState) == IF stk = << >> THEN NoState ELSE Last(stk).sp

\* swap_state(state): replace the state on top, keeping its snapshot.
SwapState(stk, state) ==
    [stk EXCEPT ![Len(stk)] = [@ EXCEPT !.sp = state]]
=============================================================================
