# TLA+ models of the radlr bytecode recognizer and its web lab

These modules model the bytecode interpreter of `src/unnamed/part_001`
(`StateIterator` and its step controller `DebugIterator`) and check it with
TLC against small grammars assembled by hand into bytecode. They also model
three parts of the web lab: the debugger the lab runs (`parserHost`) and the
transport `TransportHandler`, both in `lab/index.ts`, and the notebook layout
(`lab/notebook.ts`).

## The system

| Part | Source | State | Operations |
|---|---|---|---|
| Engine (`StateIterator`) | part_001 100-1157 | reader cursor, stack, `fail_mode`, `last_good_state`, `production_id`, `symbol_accumulator`, `tokens`, the sink | `start()` driver loop; one handler per opcode (PASS, CONSUME, GOTO, SET_PROD, REDUCE, SET_TOKEN, FORK, SCAN_TO, NOOP, INDEX_JUMP, HASH_JUMP, PUSH_FAIL, REPEAT, TRY_LAZY, ASSERT_CONSUME, RETURN) |
| ExecutionStack (`KernelStack`, `./stack.js`, not in the sources) | spec 3, 4.1 | state pointers with a meta word (accumulator snapshot) | reset, push_state, pop_state, read_state, swap_state |
| ByteReader, TokenCursor | `@hctoolkit/common`, spec 3, 6 | cursor; two tokens, plus transient peeked ones | END, next, setCursorTo, class/codepoint/byte |
| Scanner sub-engine | part_001 932-1006, 614-679 | a nested engine with SCANNER = true | scanner(), scan_to() |
| ForkDelegate | caller-supplied | none | returns the actions for an ambiguous point |
| StepController (`DebugIterator`) | part_001 1160-1328 | the iterator's fields, and the frozen snapshots it returns | constructor, next_state |
| Lab debugger (`parserHost`) | lab/index.ts 92-303 | view, db, states, bytecode, parser, PARSING, steps, offset, play interval | DBCreated, start/stop, step, into (toggle play), the play tick, a document change |
| Web lab transport (`TransportHandler`) | lab/index.ts 317-678 | parser, steps, offset, PARSING, allow_play, the CST stack, the buttons | update() per event (restart, step action/instruction, play, toggle, input changed, disable, db deleted), step() |
| Notebook layout (`NB`, `NBColumn`, fields) | lab/notebook.ts | columns of cells, each field's nb_host, col, r_row, v_row | addField, removeField, removeCol, insertCol, swap, a blank's delayed delete, setExpanded |

How the parts interact:
- The caller constructs an Engine over a reader, an image and an entry state, then calls `start(sink, delegate, root)`.
- `start()` pops states. A popped state runs its block when its flags pass the gate; that is the normal flag outside fail mode and the fail flag inside it.
- Blocks push more states (GOTO, PUSH_FAIL) and read input through `get_input_value`. A token-typed read constructs a scanner Engine.
- The sink receives Shift, Skip, Reduce and Fork actions, then one Accept or Error (a scanner sends a Token).
- The web lab drives the Rust/WASM build of the same machine. `parserHost` is the debugger the lab mounts in its editor. DBCreated rebuilds its states and bytecode. Its buttons start, stop and step a parser, and a 1 ms interval plays it. `step_forward` walks the fetched steps up to the next ExecuteInstruction. `TransportHandler` is a second debugger, which nothing in the sources instantiates. It receives button and input events through a FlowNode queue. Each event runs `update()`, whose cases fall through, and `step()` fetches the parser's next steps. The CST stack is built from the Shift and Reduce steps.
- The notebook holds the lab's panels. A blank placeholder removes itself 100 ms after `delete()`, on a timer that races the other layout calls.

Hazards, listed with their lines in `PROJECT.json`:
- The peek and primary lookahead modes share one reader.
- The accumulator snapshot taken at GOTO is later read by dynamic REDUCE.
- Fail mode gates every popped state.
- The hash table packs 11-bit values, and its probe loop has no bound. HASH_JUMP and INDEX_JUMP must agree.
- REPEAT loops and recovery loops must end, and so must the scanner's restarts after skipped tokens.
- scan_to reuses one token across scans, so a scan that finds nothing carries over the previous token's type and length.
- DebugIterator snapshots must step as `start()` does.
- Both lab debuggers increment the step offset before fetching. DBCreated frees the bytecode under a running parser. The transport's restart may throw after the old parser is deleted. A Reduce may fold more nodes than the CST stack holds.
- A blank's delete timer may fire after the layout has changed around it.

## Modules

- `KernelStack`: the stack operations, modelled from the spec (spec_modelled in the map).
- `Engine`: one variable per piece of engine state and one action per handler. `Pop` and `Finish` are the two branches of the driver loop; each `Exec*` action is one instruction of `instruction_executor`.
  - `ip = Idle` means control is in the driver loop.
  - Instruction words are records of their decoded bit fields. Data words are `[hi, lo]` 16-bit halves, because TLC integers are 32-bit signed.
  - `Ctx`/`SetCtx` bundle the four variables that consume and the input reads write, so that `ConsumeOn` and `InputValue` are pure functions. This is how SET_TOKEN, ASSERT_CONSUME and the jumps compose a consume or a read with the rest of their handler in one step.
  - The ForkDelegate is a nondeterministic choice from `ForkResults`.
- `ParseEvents`: the abstract specification of the action stream. It requires:
  - shifts in input order, with a Skip exactly at gaps and never past the end;
  - no Reduce longer than the symbols produced and not yet folded;
  - one terminal action, and nothing after it;
  - Accept only when all input is shifted, or when a goal production was given.

  `Engine` maps to it through `Contract == INSTANCE ParseEvents WITH events <- ...`, which keeps each action's type, the span of a shifted token and the length of a Reduce. `ImplementsParseEvents == Contract!Spec` is the refinement property.
- `JumpTables`: the lookups of the two dispatch instructions as pure operators. `HashProbe` is the probe loop of `hash_jump` (part_001:808-831), and `IndexOffset` is the row arithmetic of `index_jump`. `Engine`'s `ExecHashJump`, `ExecIndexJump` and `ExecNoop` apply them to the bytecode image. `MC_JumpTables` checks them against each other on tables built key by key in every order.
- `Scanner`: `scanner()` (part_001:932-1006). It extends `Engine` with `SCANNER = TRUE` as the nested StateIterator, and adds the caller's `current_token` (`current`), `returned` (ACTIVE cleared), and a history variable `called` (the token scanner() received).
  - `ScanInit` is the construction: the clone's cursor on `current_token`, with `tokens[0]` and `tokens[1]` copies of it.
  - The handler runs as the step after the engine's `Finish`. `SkipRestart` is the skipped-token branch: `current_token` moves past the token, the stack is reset to the scanner start, `tokens[0]` impersonates the lookahead, and `start()` runs again with fresh locals. `Return` copies the token's lengths and type and stops.
  - A scanner's `start()` emits only Token, so the FORK, ACCEPT and default branches (which throw) cannot be reached.
- `ScanTo`: `scan_to()` (part_001:614-680) as the operator `ScanToOn`. It takes the scanner as a constant operator `Scan`, which `MC_Scanner` defines and checks against the composed `Scanner` engine. `scanner()` updates and returns the token it is given, so the loop's `token` and `temp_token` are one record.
- `BytecodeAsm`: encodes state pointers, data words, table headers and hash cells. It is used only by the MC modules.
- `StepController`: `DebugIterator`. It extends `Engine`, whose variables serve as the iterator's fields, and whose `Exec*` actions serve as `instruction_executor`.
  - A call of `next_state(prev)` has four parts: `Load` (the copies from the previous snapshot), `DebugFinish` or `DebugPop` (the terminal or pop branch), `DebugExec` (the handlers of the executed block), and `Commit` (the recorded snapshot).
  - The caller steps linearly, always from the snapshot the last call returned.
  - Refinement: `Start == INSTANCE Engine WITH fail_mode <- StartFailMode, out <- StartOut`. Between calls, the state of `start()` is the last snapshot's fail mode. The actions returned so far (the history variable `trace`) are its output. `ImplementsStart` checks that stepping is the driver loop of `start()`. `MC_StepList` runs it over the grammar of `MC_List`.
- `ParserHost`: the closure variables of `parserHost` are its variables, and each listener is one action.
  - `StepForwardOn` translates `step_forward` on a record `H` of the steps, offset, play flag and fetch count. `StartParser` composes it after the reset, as `start_parser` calls it.
  - `DBCreated` frees the states and bytecode, then creates them, with either creation allowed to throw (`Outcomes`).
  - The WASM parser is the trace `Batches`. The history variable `walked` records the offsets the step loop goes through.
- `Transport`: the state of `TransportHandler` as variables, one action per event that `update()` handles, and one `Click` per button or input.
  - `update()`'s cases fall through: `restart` into `step`, and so on. Each case is a function `From*` on a record `H` of the handler's state, and a delivery action composes them in the code's order.
  - `step()` is `StepCall`. It increments the offset, fetches when the offset reaches the end, clamps to `steps.length - 1`, and runs the loop `StepLoop` that applies steps until the next one is an action.
  - `ReduceCst` translates the CST stack reduce: the last `n` nodes become one node. `slice(-0)` of JS returns the whole array, and setting a negative length throws.
  - The parser is abstract. A `Fetch` appends one batch from `Batches`, a set of step sequences from the MC module. A restart has one of four `Outcomes`: invalid grammar, `new` throws, `init` throws, or ok.
  - Assumptions: the FlowNode framework delivers events in FIFO order, one at a time, from a queue bounded by `MaxQueue`. Buttons emit clicks only while enabled. Restarts are bounded by `MaxRestarts`.
- `Notebook`: the columns as sequences of cells (a content field or a blank). Each field's `nb_host`, `col`, `r_row` and `v_row` are variables.
  - `SetIndex` translates `NBColumn.setIndex`. `ColumnAdd`, `ColumnRemove` and `SwapOn` translate the column methods, including `findRealIndex`, which skips deleting blanks.
  - The blank's `delete()` sets a `deleting` flag and starts a timer. `TimerFires` is the timeout calling `removeField` with the field's `col` at that moment.
  - Caller assumptions: the drag code that calls the layout is not in the sources. The model assumes that the last column is never removed, and that swap's other field is a content field placed in the notebook.
- `MC_*`: a grammar's bytecode image, an input alphabet and the bound on input length. Each run explores every input up to that bound.

| Module | Grammar | Exercises |
|---|---|---|
| MC_List | S -> '(' L ')' \| L, L -> 'x'+ | HASH_JUMP, INDEX_JUMP, GOTO chains, REPEAT, dynamic REDUCE |
| MC_Peek | S -> A 'y' \| B 'z', A -> 'x', B -> 'x' | a peeked INDEX_JUMP deciding a reduction |
| MC_Recover | S -> 'x' 'y' with a skip-and-retry fail state | PUSH_FAIL (push and swap), fail-mode gating, NOOP, SET_TOKEN, TRY_LAZY, RETURN keeping fail mode |
| MC_Scanner | skipped ' '+, tokens 'x'+ and 'x'+ 'y', scanner role | INDEX_JUMP on classes, SET_TOKEN with consume and token flags, REPEAT, the Token terminal, the skip-restart loop of scanner() |
| MC_Fork | S -> 'x' with FORK, goal production S | FORK with empty and non-empty delegate answers, accept on the goal |
| MC_StepList | the grammar of MC_List | `DebugIterator` stepping linearly through the same parses |

## Runs

| Run | Expect | What it shows |
|---|---|---|
| list_accept | pass | `AcceptIffInLanguage`: accepts exactly the sentences of the grammar up to 4 bytes. Also `ImplementsParseEvents` and `Termination`. |
| recover | pass | `AcceptIffRecovers`: acceptance equals a recursive reference of skip-and-retry recovery. The recovery loop ends and the contract holds. |
| scanner | pass | `ScannedToken`: the token scanner() returns, from any start token, is `Scan` of it. Its offsets move past every skipped token, and it has the longest match there, also when the last alternative fails. With no match, it keeps the length and type that `tokens[0]` held. `ScannerReturns` (liveness): the restart loop ends. `ScanToFindsTarget`: `scan_to` finds a target exactly when one of the tokens from its start (back or forward) has a target type. A forward scan leaves the lookahead on the first one. The type and length a no-match scan carries over never make it stop early or skip. `TypeOK` is also checked. |
| fork | pass | `ForkHandsOver`: a FORK hands its branch to the delegate. A non-empty answer is emitted in place, and the forked branch fails: the goto reduction pushed before the fork never runs, and `start()` ends with Error. An empty answer lets the engine's own branch reduce and accept. fork() gets this by continuing at the absolute index 1 (a failing RETURN) or 0 (PASS), the same sentinels ASSERT_CONSUME (2) and scan_to (1) use. Spec 4.2 says an empty answer aborts the block and §7 calls it fatal; in the code it is the engine's own branch that goes on. |
| jump_tables | pass | `JumpTablesAgree` (spec 8): the tables hold up to five keys over four home cells, with collisions chained through overflow cells. For every such table, the probe loop of `hash_jump` ends. It and `index_jump` select the block the contents give. This holds for the production id -1, for every cell, and for the keys plus 2048, which the 11-bit value field cannot hold. |
| list_accumulator | violation | `AccumulatorCountsNodes`: a dynamic REDUCE leaves `symbol_accumulator` unadjusted (part_001:348; spec 4.2 and 8). Nested dynamic reductions therefore fold too many symbols. |
| peek_lookahead | violation | `AcceptIffInLanguage`: `xy` is rejected. The primary read checks END (part_001:733) before re-syncing the reader that the peek moved. |
| recover_error_fields | violation | `ErrorDescribesFailure`: on `xyx` (TLC's trace; `xyy` fails the same way) the Error's token type is 0, not the class of the character at offset 2 (part_001:218). Its last good state is the fail-only recovery state, which `start()` recorded before the gate dropped it (part_001:239). Spec 7 and 8 say otherwise. |
| step_controller | violation | `ImplementsStart`: on `(` the debugger accepts while `start()` emits Error. `next_state` records fail mode in the snapshot only when the popped state passes the gate (part_001:1315). So a normal state dropped in fail mode yields a snapshot with fail mode off. |
| transport | pass | `TypeOK`: under every order of clicks, restarts (with each failure outcome) and environment events, the Math.min clamp of step() keeps the offset within the fetched steps. |
| parser_host_batches | violation | `StepsWalkedInOrder`: in the lab's debugger, next() returns [ShiftToken] and then [ExecuteInstruction, ShiftToken]. `step_forward` skips the ExecuteInstruction, because it adds 1 to an offset that already equals the step count (index.ts:195). `TransportHandler.step` has the same increment (line 437). |
| notebook | pass | `LayoutIndexed`: every cell's field is hosted once, and its `col`, `r_row` and `v_row` match its place. `ContentFieldsPlaced`: a content field that names the notebook as host is in it. `DeletedBlankLeaves` (liveness): a blank whose delete timer was armed while it was in the layout eventually leaves it, even though swaps and column changes move it before the timer reads its `col`. All hold under every order of layout calls and delete timers. |

Every property of a passing run has a seeded-fault operator, in the module it is about, that TLC must catch. Each is listed under "mutants" in PROJECT.json:
- an unmasked hash value;
- Reduce lengths off by one;
- a driver loop that leaves gated-out states on the stack;
- a gate that ignores fail mode;
- swapped token-length operands;
- two REPEAT offset errors;
- a scanner restart that does not move `current_token` past the skipped token, and a `scan_to` step that does not clear the lengths;
- a transport step without the clamp;
- a fork that continues at the other of its two indices;
- an `index_jump` row bound taken as inclusive;
- a `setIndex` that counts from 1 or counts blanks, a `removeCol` without its cell-count check, and a `removeField` that takes column 0 for no column.

### Bounds

- Inputs are all sequences of 3 or 4 characters over two or three characters of the grammar. This covers the following:
  - empty input;
  - a wrong first character;
  - a wrong character in the middle;
  - a missing last character;
  - trailing input;
  - two iterations of every loop;
  - two recoveries in one input.
- Every character is one byte, so byte, class and codepoint reads differ only in the value they return.
- Jump tables: keys {0, 1, 3, 4, 9} over 2^2 home cells give chains that start at homes 0 and 1 and run into overflow cells. Two block offsets distinguish the keys' targets. The probes are -1, every cell, one value past the keys, and each key plus 2048.
- Scanner: all inputs of up to 4 characters over space, x, y and z (341 inputs), from four start tokens (type 0 or X, length 0 or 1). This covers skips before a token, before no token, and before the end, and an XY that fails after its X. It also covers no-match scans after a skip and without one. Character classes start at 2, because the primary read returns 1 at the end of input. `ScanToFindsTarget` takes every start offset, every earlier tokens[0] offset, three target sets and both directions.
  - Offsets other than 0 need no start token of their own: from offset k, scanner() does what it does from 0 on the input's suffix, and every suffix is itself an input.
  - `xyzx` with target X is the shortest input on which stale lengths skip a target.
- Hash probing is bounded by the table size (`HashTarget` fuel), so a malformed table yields index -2 instead of looping.

- Transport: nine one-step batches (an ExecuteState, four ExecuteInstructions, two Shifts, a Reduce of 2, the end). Two queued events and two restarts. This covers a restart before, during and after a parse.
- ParserHost: two next() results, one of one step and one of two. Two DBCreated events, and walks of up to 5 offsets. This is the smallest trace with an array boundary after a step that is not an instruction.
- Notebook: two content fields and one blank, two to three columns. Rows are 0, 1 and Infinity. This covers a blank among content cells and a removal before the timer fires. One delete is pending at a time. The run uses no symmetry, because it checks a liveness property.

### Fairness

`Spec` has `WF_vars(Next)`. `start()` is one synchronous loop; the only callbacks are the sink and the ForkDelegate, which return (spec 5). While the engine has a step to take it takes one, so weak fairness of the whole next-state relation is what the code guarantees. `CHECK_DEADLOCK FALSE` because `start()` returns: `done` is a final state. `ScanSpec` has `WF_svars(ScanNext)` for the same reason: `while (ACTIVE)` calls `start()` again at once, and the handler runs inside `emit()`.

`Notebook`'s spec has weak fairness on each blank's timer, because a browser runs a `setTimeout` callback once the page is idle. The properties of the transport, of `ParserHost` and of `StepController` are safety properties, so no fairness is assumed there.

## Not modelled, and the plan

- SCAN_TO is not an action of the parser-role `Engine`. `ScanTo` is a pure operator, checked on its own over the scanner's abstraction. None of the parser images uses the instruction, and its failure index (1) is left out. Token-typed reads (input_type 1) are not modelled either.
- The codepoint offset of `scan_to`: line 664 adds the token's codepoint offset instead of its codepoint length. `StepPast` keeps this, so the model has the drift. `ScanToFindsTarget` compares byte offsets, lengths and types only, because any property on codepoint offsets fails as soon as a skipped-over token is not at offset 0. It is listed as a hazard.
- A scanner that matches nothing after a skip returns a token of length 1 (the lookahead it impersonated). With no skip, it returns the length of the token it was called with. `Scan` states this, and `ScannedToken` checks it. Neither the spec nor the code says which length a no-match token should have, so this is recorded, not flagged.
- `StepController` does not model stepping from an older snapshot (rewind). Only rewinding reaches the accumulator that `next_state` does not restore (part_001:1241). It does not model the scanner role of the iterator either.
- The CST of `TransportHandler` is not checked. With one step per fetch it matches the steps trivially, and with several steps per fetch the offset skip of index.ts:446 (the bug `parser_host_batches` shows in `parserHost`) breaks it first. `ReduceCst` still models the RangeError and `slice(-0)` of line 542.
- The restart of `TransportHandler` sets `PARSING` and then resets it (index.ts:635-636). The hazard is listed, but no run checks it, because nothing in the sources instantiates the class. The run slots went to the lab's own debugger and to the jump-table cross-check.
- The layout the grammar compiler gives hash tables is not in the sources. `MC_JumpTables` builds tables with coalesced chains. It also fills free cells with a value that no probe starting there can match. A compiler that leaves a free cell's value at 0 would make the discriminant 0 match it.
- `parserHost`'s display is not modelled: the search symbols, the JSON and disassembly text, and the highlights. The WASM objects behind `free()` are not modelled either, so nothing checks a parser stepping over bytecode that DBCreated freed (index.ts:131). It is listed as a hazard.
- Notebook heights (`latchHeights`, `distributeHeight`, `max_free`) and `pointInside`. These are floating-point DOM geometry. Their divide-by-zero hazard at notebook.ts:311 is listed but not checked.
- `sherpa_lang.ts` is the editor's CodeMirror tokenizer; see below.
- Out of scope:
  - grammars, stylesheets, scripts and CI, which are data and orchestration;
  - the editor tokenizer;
  - multi-byte characters and line counting of ByteReader;
  - the peek tracing hook.
