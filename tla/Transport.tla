------------------------------ MODULE Transport ------------------------------
(***************************************************************************)
(* The debugger transport of the web lab, class TransportHandler of        *)
(* src/src/web/doc/assets/js/lab/index.ts (lines 317-678): update() with   *)
(* its cases that fall through into one another, and step(), which walks   *)
(* the steps the WASM parser returns and builds the CST node stack.        *)
(*                                                                         *)
(* Data abstraction.  A parser step is a record [type, arg]: the token of  *)
(* a Shift, the symbol_count of a Reduce, 0 otherwise.  A CST node is the  *)
(* sequence of the tokens below it; the CST stack is a sequence of nodes.  *)
(* The WASM parser is the trace Batches: its i-th call of next() returns   *)
(* Batches[i], and [] once the trace is spent.                             *)
(*                                                                         *)
(* Events.  The FlowNode framework (../../common/flow, not in the sources) *)
(* delivers events to update() one at a time; an event emitted by a click  *)
(* handler or by update() itself is queued and delivered later.  The nodes *)
(* update() returns enable and disable the buttons; a disabled button      *)
(* sends no click.  These two framework behaviours are assumptions.        *)
(***************************************************************************)
EXTENDS Integers, Sequences, SequencesExt

CONSTANTS
    Batches,    \* the results of the parser's successive next() calls
    Outcomes,   \* how a restart may end: "invalid", "new_throws", "init_throws", "ok"
    MaxQueue,   \* bound on the events waiting for delivery
    MaxRestarts \* bound on the clicks on the restart button

Terminal == {"Complete", "Error", "EndOfFile"}
ActionStep == {"Shift", "Reduce", "Skip"}
ClickEvents == {"restartParser", "stepInstruction", "stepAction", "togglePlay"}
EnvEvents == {"Input_changed", "db_deleted", "config_changed"}
Events == ClickEvents \cup EnvEvents \cup {"init", "play", "disableTransportButtons"}

VARIABLES
    parser,         \* "none" (null) or "live"
    ppos,           \* how many next() calls the live parser has answered
    steps,          \* debugger_steps
    offset,         \* debugger_offset
    PARSING,
    allow_play,
    cst,            \* cst_nodes
    queue,          \* events waiting for delivery
    inputs,         \* the click listeners are registered
    restart_btn,    \* the restart button is enabled
    transport_btn,  \* the step, step-action and play buttons are enabled
    restarts        \* the clicks on the restart button so far

vars == <<parser, ppos, steps, offset, PARSING, allow_play, cst, queue,
          inputs, restart_btn, transport_btn, restarts>>

(***************************************************************************)
(* The state update() and step() read and write, as one record, so that  *)
(* the fall-through chain of update() is a composition of functions.       *)
(* 'err' is TRUE once a RangeError has been thrown: the rest of update()  *)
(* does not run.                                                           *)
(***************************************************************************)
H == [parser |-> parser, ppos |-> ppos, steps |-> steps, offset |-> offset,
      PARSING |-> PARSING, allow_play |-> allow_play, cst |-> cst,
      queue |-> Tail(queue), err |-> FALSE]

SetH(h) == /\ parser' = h.parser /\ ppos' = h.ppos /\ steps' = h.steps
           /\ offset' = h.offset /\ PARSING' = h.PARSING
           /\ allow_play' = h.allow_play /\ cst' = h.cst /\ queue' = h.queue

Emit(h, e) == [h EXCEPT !.queue = Append(@, e)]

\* resetData(): the fields restart clears.
resetData(h) ==
    [h EXCEPT !.offset = -1, !.steps = << >>, !.PARSING = FALSE,
              !.allow_play = FALSE, !.cst = << >>]

deleteParser(h) == [h EXCEPT !.parser = "none"]

\* parser.next(), appended to debugger_steps.
Fetch(h) ==
    IF h.ppos < Len(Batches)
    THEN LET b == Batches[h.ppos + 1] IN
         [h EXCEPT !.steps = @ \o b,
                   !.ppos = @ + 1]
    ELSE h

\* Array.prototype.slice(-n): the last n elements, all of them when n = 0.
SliceFromEnd(c, n) ==
    IF n = 0 \/ n >= Len(c) THEN c ELSE SubSeq(c, Len(c) - n + 1, Len(c))

(***************************************************************************)
(* The Reduce case: the new node takes slice(-symbol_count) as children,   *)
(* then cst_nodes.length -= symbol_count, which throws a RangeError when   *)
(* the length would become negative.                                       *)
(***************************************************************************)
ReduceCst(h, n) ==
    IF n > Len(h.cst)
    THEN [h EXCEPT !.err = TRUE]
    ELSE [h EXCEPT !.cst = Append(SubSeq(@, 1, Len(@) - n),
                                  FlattenSeq(SliceFromEnd(@, n)))]

\* The cases of the switch in step() that leave the loop (break outer).
ApplyStep(h, s) ==
    CASE s.type = "Shift"     -> [h EXCEPT !.cst = Append(@, << s.arg >>)]
      [] s.type = "Reduce"    -> ReduceCst(h, s.arg)
      [] s.type \in {"Complete", "Error"} ->
             [Emit(h, "disableTransportButtons") EXCEPT !.PARSING = FALSE]
      [] s.type = "EndOfFile" -> [h EXCEPT !.PARSING = FALSE]
      [] OTHER                -> h

\* The next step is an action: ExecuteInstruction breaks only the switch.
NextIsAction(h) ==
    h.offset + 2 <= Len(h.steps) /\ h.steps[h.offset + 2].type \in ActionStep

Continues(h, s, toNext) ==
    \/ s.type = "ExecuteState"
    \/ s.type = "ExecuteInstruction" /\ (toNext \/ NextIsAction(h))

\* The loop "outer: while ((step = this.debugger_steps[this.debugger_offset]))".
RECURSIVE StepLoop(_, _)
StepLoop(h, toNext) ==
    IF h.offset < 0 \/ h.offset >= Len(h.steps) THEN h
    ELSE LET s == h.steps[h.offset + 1] IN
         IF Continues(h, s, toNext)
         THEN StepLoop([h EXCEPT !.offset = @ + 1], toNext)
         ELSE ApplyStep(h, s)

\* Seeded fault: step() without the Math.min clamp of the offset.
StepCallNoClamp(h, toNext) ==
    IF h.err \/ h.parser = "none" THEN h
    ELSE LET a == [h EXCEPT !.offset = @ + 1]
             b == IF a.offset >= Len(a.steps) THEN Fetch(a) ELSE a
         IN StepLoop(b, toNext)

\* step(data): advance the offset, fetch when it passed the end, clamp, loop.
StepCall(h, toNext) ==
    IF h.err \/ h.parser = "none" THEN h
    ELSE LET a == [h EXCEPT !.offset = @ + 1]
             b == IF a.offset >= Len(a.steps) THEN Fetch(a) ELSE a
             c == [b EXCEPT !.offset = IF @ < Len(b.steps) - 1
                                        THEN @ ELSE Len(b.steps) - 1]
         IN StepLoop(c, toNext)

(***************************************************************************)
(* update(): each case is a function of the state, and a case without a   *)
(* return or break falls through into the next one.  A thrown RangeError   *)
(* stops the chain.                                                        *)
(***************************************************************************)
FromPlay(h) ==
    IF h.err THEN h
    ELSE IF h.allow_play /\ h.PARSING
         THEN LET a == StepCall(h, FALSE) IN IF a.err THEN a ELSE Emit(a, "play")
         ELSE [h EXCEPT !.allow_play = FALSE]

FromStep(h) ==
    IF h.err THEN h ELSE FromPlay(IF h.PARSING THEN StepCall(h, FALSE) ELSE h)

FromTogglePlay(h) ==
    IF h.err THEN h
    ELSE IF h.allow_play
         THEN FromStep([h EXCEPT !.allow_play = FALSE])
         ELSE FromStep(Emit([h EXCEPT !.allow_play = TRUE], "play"))

FromStepAction(h) == IF h.err THEN h ELSE FromTogglePlay(StepCall(h, TRUE))

FromStepInstruction(h) == FromStepAction(StepCall(h, FALSE))

(***************************************************************************)
(* The restart case, after deleteParser(): the early returns on missing    *)
(* data ("invalid"), JSByteCodeParser.new throwing ("new_throws"),         *)
(* parser.init throwing after the new parser is stored ("init_throws"),    *)
(* and success, which sets PARSING and then calls resetData().             *)
(***************************************************************************)
Restart(h, o) ==
    LET a == deleteParser(h)
        fresh == [a EXCEPT !.parser = "live", !.ppos = 0]
    IN CASE o \in {"invalid", "new_throws"} -> a
         [] o = "init_throws" -> fresh
         [] o = "ok" -> resetData([fresh EXCEPT !.offset = -1, !.PARSING = TRUE])

Init ==
    /\ parser = "none" /\ ppos = 0 /\ steps = << >> /\ offset = -1
    /\ PARSING = FALSE /\ allow_play = FALSE /\ cst = << >>
    /\ queue = << "init" >>
    /\ inputs = FALSE /\ restart_btn = FALSE /\ transport_btn = FALSE
    /\ restarts = 0

\* A click on an enabled button whose listener is registered emits its event.
Click(e) ==
    /\ inputs /\ Len(queue) < MaxQueue
    /\ IF e = "restartParser" THEN restart_btn /\ restarts < MaxRestarts
                              ELSE transport_btn
    /\ queue' = Append(queue, e)
    /\ restarts' = restarts + (IF e = "restartParser" THEN 1 ELSE 0)
    /\ UNCHANGED <<parser, ppos, steps, offset, PARSING, allow_play, cst,
                   inputs, restart_btn, transport_btn>>

\* An event the rest of the lab sends to this node.
Env(e) ==
    /\ Len(queue) < MaxQueue
    /\ queue' = Append(queue, e)
    /\ UNCHANGED <<parser, ppos, steps, offset, PARSING, allow_play, cst,
                   inputs, restart_btn, transport_btn, restarts>>

Delivering(e) == queue # << >> /\ Head(queue) = e /\ UNCHANGED restarts

\* "init": setupInputs(), then the restart case.
DeliverInit ==
    /\ Delivering("init")
    /\ \E o \in Outcomes :
          /\ SetH(Restart(H, o))
          /\ transport_btn' = (o = "ok" \/ transport_btn)
    /\ inputs' = TRUE /\ restart_btn' = TRUE

DeliverRestart ==
    /\ Delivering("restartParser")
    /\ \E o \in Outcomes :
          /\ SetH(Restart(H, o))
          /\ transport_btn' = (o = "ok" \/ transport_btn)
    /\ restart_btn' = TRUE
    /\ UNCHANGED inputs

\* A case of the fall-through chain; its return enables the restart button
\* unless a RangeError escaped update().
DeliverChain(e, h) ==
    /\ Delivering(e)
    /\ SetH(h)
    /\ restart_btn' = (~h.err \/ restart_btn)
    /\ UNCHANGED <<inputs, transport_btn>>

DeliverStepInstruction == DeliverChain("stepInstruction", FromStepInstruction(H))
DeliverStepAction == DeliverChain("stepAction", FromStepAction(H))
DeliverTogglePlay == DeliverChain("togglePlay", FromTogglePlay(H))
DeliverPlay == DeliverChain("play", FromPlay(H))

DeliverInputChanged ==
    /\ Delivering("Input_changed")
    /\ SetH(H) /\ restart_btn' = TRUE
    /\ UNCHANGED <<inputs, transport_btn>>

DeliverDisable ==
    /\ Delivering("disableTransportButtons")
    /\ SetH(H) /\ restart_btn' = TRUE /\ transport_btn' = FALSE
    /\ UNCHANGED inputs

\* "db_deleted" and "config_changed": deleteParser(), removeInputs().
DeliverDbDeleted ==
    /\ \E e \in {"db_deleted", "config_changed"} : Delivering(e)
    /\ SetH(deleteParser(H))
    /\ inputs' = FALSE /\ restart_btn' = FALSE /\ transport_btn' = FALSE

Next ==
    \/ \E e \in ClickEvents : Click(e)
    \/ \E e \in EnvEvents : Env(e)
    \/ DeliverInit
    \/ DeliverRestart
    \/ DeliverStepInstruction
    \/ DeliverStepAction
    \/ DeliverTogglePlay
    \/ DeliverPlay
    \/ DeliverInputChanged
    \/ DeliverDisable
    \/ DeliverDbDeleted

Spec == Init /\ [][Next]_vars

-----------------------------------------------------------------------------
StepRecs == UNION {{Batches[i][k] : k \in 1..Len(Batches[i])} : i \in 1..Len(Batches)}

TypeOK ==
    /\ parser \in {"none", "live"}
    /\ ppos \in 0..Len(Batches)
    /\ \A k \in 1..Len(steps) : steps[k] \in StepRecs
    /\ offset \in -1..(Len(steps) + 1)
    /\ PARSING \in BOOLEAN /\ allow_play \in BOOLEAN
    /\ \A k \in 1..Len(queue) : queue[k] \in Events
    /\ {inputs, restart_btn, transport_btn} \subseteq BOOLEAN
    /\ restarts \in 0..MaxRestarts
=============================================================================
