------------------------------ MODULE ParserHost ------------------------------
(***************************************************************************)
(* The debugger the web lab runs, parserHost() of                          *)
(* src/web/doc/assets/js/lab/index.ts (lines 92-303, the module ./parser): *)
(* the closure variables of parserHost are the state, and the grammar      *)
(* context's DBCreated event, the three button listeners, the play         *)
(* interval and the editor's update hooks are the actions.                 *)
(*                                                                         *)
(* The WASM parser is the trace Batches: its i-th call of next() returns   *)
(* the array Batches[i], and a non-array once the trace is spent.  A step  *)
(* is its type; the search symbols, the JSON text and the highlights that  *)
(* step_forward writes for an ExecuteInstruction are display only and left *)
(* out.  'walked' is a history variable: the offsets the loop of           *)
(* step_forward has gone through since the parser was started.            *)
(***************************************************************************)
EXTENDS Integers, Sequences, FiniteSetsExt

CONSTANTS
    Batches,    \* the results of the parser's successive next() calls
    Outcomes,   \* what create_parser_states and create_bytecode may do
    MaxDB,      \* bound on the DBCreated events
    MaxWalked   \* bound on the length of the walked history

VARIABLES
    view,             \* the EditorView is known (set by the update listener)
    db,               \* ctx.db is set
    states,           \* the JSParseStates are allocated
    bytecode,         \* the JSBytecode is allocated
    parser,           \* a JSByteCodeParser exists
    PARSING,
    debugger_steps,   \* the step types fetched from the parser, in order
    debugger_offset,
    playing,          \* play_interval >= 0
    fetched,          \* the calls of parser.next() made so far
    dbs,              \* DBCreated events so far
    walked

vars == << view, db, states, bytecode, parser, PARSING, debugger_steps,
           debugger_offset, playing, fetched, dbs, walked >>

\* The closure's fields that step_forward reads and writes, as one record.
H == [steps |-> debugger_steps, offset |-> debugger_offset,
      playing |-> playing, fetched |-> fetched, walked |-> walked]

SetH(h) == /\ debugger_steps' = h.steps /\ debugger_offset' = h.offset
           /\ playing' = h.playing /\ fetched' = h.fetched /\ walked' = h.walked

(***************************************************************************)
(* step_forward() past its guard.  When the offset, moved on by one,       *)
(* reaches the end of the fetched steps, next() is called once and its     *)
(* array appended; if that adds nothing to walk, play stops.  The offset  *)
(* is clamped to the last step, and the loop walks from there up to and   *)
(* including the first ExecuteInstruction, where it stops without moving  *)
(* on; with none it runs off the end and leaves the offset there.         *)
(***************************************************************************)
StepForwardOn(h) ==
    LET o1 == h.offset + 1
        fetch == o1 >= Len(h.steps)
        more == fetch /\ h.fetched < Len(Batches)
        s1 == IF more THEN h.steps \o Batches[h.fetched + 1] ELSE h.steps
        o2 == Min({o1, Len(s1) - 1})
        execs == {i \in o2..(Len(s1) - 1) : o2 >= 0 /\ s1[i + 1] = "ExecuteInstruction"}
        last == IF execs = {} THEN Len(s1) - 1 ELSE Min(execs)
    IN [h EXCEPT !.steps = s1,
                 !.fetched = IF more THEN @ + 1 ELSE @,
                 !.playing = @ /\ ~(fetch /\ o1 >= Len(s1)),
                 !.offset = IF o2 < 0 \/ execs # {} THEN last ELSE Len(s1),
                 !.walked = IF o2 < 0 THEN @
                            ELSE @ \o [i \in 1..(last - o2 + 1) |-> o2 + i - 1]]

\* The guard of step_forward.
CanStep == view /\ parser /\ states /\ bytecode /\ db /\ PARSING

\* destroy_parser, toggle_play(true) and PARSING = false.
StopParser ==
    /\ parser' = FALSE /\ playing' = FALSE /\ PARSING' = FALSE
    /\ UNCHANGED << view, db, states, bytecode, debugger_steps,
                    debugger_offset, fetched, dbs, walked >>

(***************************************************************************)
(* start_parser(): a new parser over the current bytecode, the steps      *)
(* cleared and the offset reset, PARSING set, then one step_forward.  The *)
(* "debugger.start" transaction it dispatches is not a document change,   *)
(* so the view plugin does not stop the parser again.                     *)
(***************************************************************************)
StartParser ==
    /\ view /\ states /\ bytecode /\ db /\ ~PARSING
    /\ parser' = TRUE /\ PARSING' = TRUE
    /\ SetH(StepForwardOn([H EXCEPT !.steps = << >>, !.offset = -1,
                                    !.fetched = 0, !.walked = << >>]))
    /\ UNCHANGED << view, db, states, bytecode, dbs >>

\* The initial state: the closure's defaults, then the call stop_parser().
Init ==
    /\ view = FALSE /\ db = FALSE /\ states = FALSE /\ bytecode = FALSE
    /\ parser = FALSE /\ PARSING = FALSE
    /\ debugger_steps = << >> /\ debugger_offset = -1
    /\ playing = FALSE /\ fetched = 0 /\ dbs = 0 /\ walked = << >>

\* The first update of the editor hands the view to the update listener.
Attach ==
    /\ ~view /\ view' = TRUE
    /\ UNCHANGED << db, states, bytecode, parser, PARSING, debugger_steps,
                    debugger_offset, playing, fetched, dbs, walked >>

(***************************************************************************)
(* DBCreated: the old states and bytecode are freed, the running parser   *)
(* is left alone; with a database both are created again, and an         *)
(* exception in either creation is caught after what it has done.         *)
(***************************************************************************)
DBCreated(hasDb, outcome) ==
    /\ dbs < MaxDB /\ dbs' = dbs + 1
    /\ db' = hasDb
    /\ states' = (hasDb /\ outcome \in {"ok", "bytecode_throws"})
    /\ bytecode' = (hasDb /\ outcome = "ok")
    /\ UNCHANGED << view, parser, PARSING, debugger_steps, debugger_offset,
                    playing, fetched, walked >>

\* A click on start/stop: stop a parse in progress, else start one.
StartStop ==
    \/ PARSING /\ StopParser
    \/ StartParser

\* A click on step, or a tick of the 1 ms play interval.
StepForward ==
    /\ CanStep /\ Len(walked) < MaxWalked
    /\ SetH(StepForwardOn(H))
    /\ UNCHANGED << view, db, states, bytecode, parser, PARSING, dbs >>

StepClick == StepForward

Tick == playing /\ StepForward

\* toggle_play() from the into button: clear the interval, or set one.
TogglePlay ==
    /\ playing \/ PARSING
    /\ playing' = ~playing
    /\ UNCHANGED << view, db, states, bytecode, parser, PARSING, debugger_steps,
                    debugger_offset, fetched, dbs, walked >>

\* The view plugin: a document change stops the parser.
DocChanged == view /\ StopParser

Next ==
    \/ Attach
    \/ \E hasDb \in BOOLEAN, o \in Outcomes : DBCreated(hasDb, o)
    \/ StartStop \/ StepClick \/ Tick \/ TogglePlay \/ DocChanged

Spec == Init /\ [][Next]_vars

-----------------------------------------------------------------------------
(***************************************************************************)
(* Every step the parser returns is walked, in the order returned: from    *)
(* the start of a parse, the offsets the loop of step_forward goes through *)
(* begin at 0 and each is the one before or the next (a repeat when the   *)
(* parse is over and the offset is clamped back to the last step).  So no *)
(* ShiftToken is missed, which clears the search symbols, and no          *)
(* ExecuteInstruction goes undisplayed, whatever arrays next() returns.   *)
(***************************************************************************)
StepsWalkedInOrder ==
    /\ walked # << >> => walked[1] = 0
    /\ \A i \in 1..(Len(walked) - 1) : walked[i + 1] - walked[i] \in {0, 1}
=============================================================================
