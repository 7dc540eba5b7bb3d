------------------------------- MODULE Engine -------------------------------
(***************************************************************************)
(* The recognizer engine, class StateIterator of src/unnamed/part_001:     *)
(* the driver loop of start() and one action per instruction handler of    *)
(* instruction_executor().                                                 *)
(*                                                                         *)
(* Data abstraction.  Instruction words are records whose fields are the   *)
(* operand bit fields the handlers decode (opcode in 'op'); words read as  *)
(* data (scanner pointers, table headers, hash cells) are DATA records     *)
(* holding the high and low 16-bit halves of the word.  Input characters   *)
(* are records [cls, cp, byte] and are one byte long.  A state pointer is  *)
(* a record [addr, normal, fail, goto] of its index and its flag bits.     *)
(* Emitted ParseActions are records with a 'type' field appended to 'out', *)
(* the caller's sink.                                                      *)
(*                                                                         *)
(* The engine is single threaded; each action is one iteration of the      *)
(* driver loop (Pop, Finish) or of the instruction loop (the Exec ones). *)
(***************************************************************************)
EXTENDS Integers, Sequences, SequencesExt, KernelStack, JumpTables

CONSTANTS
    Bytecode,   \* the BytecodeImage: a function from word index to word
    Entry,      \* the entry state pointer handed to the constructor
    Root,       \* the goal production given to start(); -1 for none
    SCANNER,    \* TRUE for a scanner-role engine
    Inputs,     \* the input byte sequences the engine is run against
    ForkResults \* the action lists the ForkDelegate may return

ASSUME SCANNER \in BOOLEAN /\ Root \in Int

VARIABLES
    input,              \* the bytes under the ByteReader (fixed per run)
    reader,             \* the ByteReader cursor (a byte offset)
    stack,              \* the KernelStack
    ip,                 \* instruction index, or Idle in the driver loop
    recover_data,       \* snapshot of the popped entry, read by REDUCE
    fail_mode,          \* local of start()
    last_good_state,    \* local of start()
    production_id,
    symbol_accumulator,
    tokens,             \* the KernelToken list; tokens[1] is this.tokens[0]
    out,                \* the actions emitted to the handler, in order
    done                \* start() has returned

vars == << input, reader, stack, ip, recover_data, fail_mode,
           last_good_state, production_id, symbol_accumulator, tokens,
           out, done >>

Idle == -1
NoState == [addr |-> 0, normal |-> FALSE, fail |-> FALSE, goto |-> FALSE]

\* KernelToken.new()
NewToken == [boff |-> 0, blen |-> 0, coff |-> 0, clen |-> 0, type |-> 0]

Addr == DOMAIN Bytecode
Word(i) == Bytecode[i]

-----------------------------------------------------------------------------
(***************************************************************************)
(* ByteReader (from '@hctoolkit/common', not in the sources), modelled     *)
(* from spec section 6: a cursor over the input with END, offset_at_end,   *)
(* next(n), setCursorTo(token) and the decoders class(), codepoint() and   *)
(* byte() of the character under the cursor.  Past the end the decoders    *)
(* yield 0.                                                                *)
(***************************************************************************)
ReaderEND == reader >= Len(input)
OffsetAtEnd(off) == off >= Len(input)
ReaderValue(kind) ==
    IF ReaderEND THEN 0
    ELSE CASE kind = "CLASS" -> input[reader + 1].cls
           [] kind = "CP"    -> input[reader + 1].cp
           [] kind = "BYTE"  -> input[reader + 1].byte

-----------------------------------------------------------------------------
(***************************************************************************)
(* Gate of the driver loop: normal_state_mask << fail_mode.                *)
(***************************************************************************)
\* Seeded fault: the gate ignores fail mode (the shift by fail_mode lost).
GateIgnoresFail(sp, fm) == sp.normal

Gate(sp, fm) == IF fm THEN sp.fail ELSE sp.normal

\* The token advanced past its matched span (the tail of consume()).
Advanced(t) ==
    [t EXCEPT !.coff = t.coff + t.clen, !.boff = t.boff + t.blen,
              !.clen = 0, !.blen = 0, !.type = 0]

\* emitShift(): the Skip (when the new token does not follow the previous
\* one) and the Shift it hands to the sink.
ShiftActions(prev, tok) ==
    IF prev.boff + prev.blen # tok.boff
    THEN << [type |-> "Skip", offset |-> prev.coff,
             length |-> tok.coff - (prev.clen + prev.coff)],
            [type |-> "Shift", token |-> tok] >>
    ELSE << [type |-> "Shift", token |-> tok] >>

(***************************************************************************)
(* The part of the engine the input handlers touch, as a record: the      *)
(* token list, the reader cursor, the accumulator and the sink.            *)
(***************************************************************************)
Ctx == [tokens |-> tokens, reader |-> reader, acc |-> symbol_accumulator,
        out |-> out]

SetCtx(c) ==
    /\ tokens' = c.tokens /\ reader' = c.reader
    /\ symbol_accumulator' = c.acc /\ out' = c.out

(***************************************************************************)
(* consume(instruction); 'nothing' is the zero-length flag (bit 0).  The   *)
(* scanner advances the lookahead only; the parser first emits the Shift   *)
(* (emitShift, which counts the symbol), then advances the lookahead and   *)
(* makes tokens[0] impersonate it.                                         *)
(***************************************************************************)
ConsumeOn(c, nothing) ==
    LET tok == IF nothing THEN [c.tokens[2] EXCEPT !.clen = 0, !.blen = 0]
                          ELSE c.tokens[2]
        adv == Advanced(tok)
    IN  IF SCANNER
        THEN [c EXCEPT !.reader = @ + tok.blen, !.tokens[2] = adv]
        ELSE [c EXCEPT !.reader = @ + tok.blen,
                       !.acc = @ + 1,
                       !.out = @ \o ShiftActions(c.tokens[1], tok),
                       !.tokens = [@ EXCEPT ![1] = adv, ![2] = adv]]

-----------------------------------------------------------------------------
Init ==
    /\ input \in Inputs
    /\ reader = 0
    /\ stack = Reset(Entry)
    /\ ip = Idle
    /\ recover_data = 0
    /\ fail_mode = FALSE
    /\ last_good_state = [NoState EXCEPT !.addr = -1]
    /\ production_id = -1
    /\ symbol_accumulator = 0
    /\ tokens = << NewToken, NewToken >>
    /\ out = << >>
    /\ done = FALSE

(***************************************************************************)
(* Driver loop, stack empty: emit the terminal action and return.          *)
(***************************************************************************)
TerminalAction ==
    LET adv == tokens[2]
        err == [type |-> "Error", last_state |-> last_good_state,
                tk_type |-> adv.type, tk_offset |-> adv.coff,
                tk_length |-> adv.clen, production |-> production_id]
    IN  CASE SCANNER -> [type |-> "Token", token |-> tokens[1]]
          [] fail_mode -> err
          [] Root >= 0 /\ production_id = Root -> [type |-> "Accept"]
          [] OffsetAtEnd(tokens[2].boff) -> [type |-> "Accept"]
          [] OTHER -> err

Finish ==
    /\ ~done /\ ip = Idle /\ stack = << >>
    /\ out' = Append(out, TerminalAction)
    /\ done' = TRUE
    /\ UNCHANGED << input, reader, stack, ip, recover_data, fail_mode,
                    last_good_state, production_id, symbol_accumulator,
                    tokens >>

(***************************************************************************)
(* Driver loop, stack not empty: pop a state; remember it as the last good *)
(* state outside fail mode; run its block when it passes the gate, else    *)
(* drop it.                                                                *)
(***************************************************************************)
\* Seeded fault: only states that pass the gate are taken off the stack.
PopGated ==
    /\ ~done /\ ip = Idle /\ stack # << >>
    /\ LET e == Last(stack) IN
       /\ last_good_state' = IF fail_mode \/ e.sp = NoState
                             THEN last_good_state ELSE e.sp
       /\ IF e.sp # NoState /\ Gate(e.sp, fail_mode)
          THEN stack' = PopState(stack) /\ ip' = e.sp.addr
               /\ recover_data' = e.meta
          ELSE UNCHANGED << stack, ip, recover_data >>
    /\ UNCHANGED << input, reader, fail_mode, production_id,
                    symbol_accumulator, tokens, out, done >>

Pop ==
    /\ ~done /\ ip = Idle /\ stack # << >>
    /\ LET e == Last(stack) IN
       /\ stack' = PopState(stack)
       /\ last_good_state' = IF fail_mode \/ e.sp = NoState
                             THEN last_good_state ELSE e.sp
       /\ IF e.sp # NoState /\ Gate(e.sp, fail_mode)
          THEN ip' = e.sp.addr /\ recover_data' = e.meta
          ELSE UNCHANGED << ip, recover_data >>
    /\ UNCHANGED << input, reader, fail_mode, production_id,
                    symbol_accumulator, tokens, out, done >>

-----------------------------------------------------------------------------
(***************************************************************************)
(* Instruction handlers.  'w' is the word at ip; every action leaves the   *)
(* variables it does not name unchanged.                                   *)
(***************************************************************************)
Running(opname) == ip # Idle /\ Word(ip).op = opname

\* case 0: pass() ends the block with fail_mode = false.
ExecPass ==
    /\ Running("PASS")
    /\ ip' = Idle /\ fail_mode' = FALSE
    /\ UNCHANGED << input, reader, stack, recover_data, last_good_state,
                    production_id, symbol_accumulator, tokens, out, done >>

\* case 15: advanced_return(): bit 0 keeps fail_mode, else it becomes true.
ExecReturn ==
    /\ Running("RETURN")
    /\ ip' = Idle
    /\ fail_mode' = IF Word(ip).keep THEN fail_mode ELSE TRUE
    /\ UNCHANGED << input, reader, stack, recover_data, last_good_state,
                    production_id, symbol_accumulator, tokens, out, done >>

\* case 1: consume(instruction)
ExecConsume ==
    /\ Running("CONSUME")
    /\ SetCtx(ConsumeOn(Ctx, Word(ip).nothing))
    /\ ip' = ip + 1
    /\ UNCHANGED << input, stack, recover_data, fail_mode, last_good_state,
                    production_id, done >>

\* case 2: goto(): push the target, then every GOTO word that follows it,
\* each with the current accumulator.
GotoRun(i) ==
    LET RECURSIVE Run(_)
        Run(j) == IF j \in Addr /\ Word(j).op = "GOTO"
                  THEN << Word(j).target >> \o Run(j + 1) ELSE << >>
    IN Run(i)

ExecGoto ==
    /\ Running("GOTO")
    /\ LET chain == << Word(ip).target >> \o GotoRun(ip + 1)
       IN  /\ stack' = stack \o [k \in 1..Len(chain) |->
                                   [sp |-> chain[k], meta |-> symbol_accumulator]]
           /\ ip' = ip + Len(chain)
    /\ UNCHANGED << input, reader, recover_data, fail_mode, last_good_state,
                    production_id, symbol_accumulator, tokens, out, done >>

\* case 3: set_production()
ExecSetProduction ==
    /\ Running("SET_PROD")
    /\ production_id' = Word(ip).prod
    /\ ip' = ip + 1
    /\ UNCHANGED << input, reader, stack, recover_data, fail_mode,
                    last_good_state, symbol_accumulator, tokens, out, done >>

(***************************************************************************)
(* case 4: reduce().  A body id of 0xFFFF selects the dynamic form: the    *)
(* length is the accumulator less the snapshot of the popped entry and the *)
(* body id is taken from the length field; the accumulator is left as it  *)
(* is.  The fixed form lowers the accumulator by length - 1.  A            *)
(* SET_PRODUCTION word right after the REDUCE is executed inline.          *)
(***************************************************************************)
DynamicBody == 65535

\* Seeded fault: every Reduce claims one symbol more than it folds.
ReduceActionOffByOne(w) ==
    IF w.body = DynamicBody
    THEN [type |-> "Reduce", body |-> w.len,
          length |-> symbol_accumulator - (recover_data % 65536) + 1,
          production |-> production_id]
    ELSE [type |-> "Reduce", body |-> w.body, length |-> w.len + 1,
          production |-> production_id]

ReduceAction(w) ==
    IF w.body = DynamicBody
    THEN [type |-> "Reduce", body |-> w.len,
          length |-> symbol_accumulator - (recover_data % 65536),
          production |-> production_id]
    ELSE [type |-> "Reduce", body |-> w.body, length |-> w.len,
          production |-> production_id]

ExecReduce ==
    /\ Running("REDUCE")
    /\ LET w == Word(ip)
           inline == ip + 1 \in Addr /\ Word(ip + 1).op = "SET_PROD"
       IN  /\ out' = Append(out, ReduceAction(w))
           /\ symbol_accumulator' =
                 IF w.body = DynamicBody THEN symbol_accumulator
                 ELSE symbol_accumulator - (w.len - 1)
           /\ production_id' = IF inline THEN Word(ip + 1).prod
                               ELSE production_id
           /\ ip' = IF inline THEN ip + 2 ELSE ip + 1
    /\ UNCHANGED << input, reader, stack, recover_data, fail_mode,
                    last_good_state, tokens, done >>

\* case 5: set_token(): an optional consume(0), then either the type and
\* span of tokens[0] together with production_id, or the length of the
\* lookahead token.
\* Seeded fault: the token length computed with its operands swapped.
SetTokenSwapped(c, w) ==
    LET t == c.tokens IN
    IF w.tok
    THEN [c EXCEPT !.tokens[1] = [@ EXCEPT !.type = w.value,
                                   !.blen = t[1].boff - t[2].boff,
                                   !.clen = t[1].coff - t[2].coff]]
    ELSE [c EXCEPT !.tokens[2] = [@ EXCEPT !.clen = w.value,
                                   !.blen = w.value]]

SetTokenOn(c, w) ==
    LET t == c.tokens IN
    IF w.tok
    THEN [c EXCEPT !.tokens[1] = [@ EXCEPT !.type = w.value,
                                   !.blen = t[2].boff - t[1].boff,
                                   !.clen = t[2].coff - t[1].coff]]
    ELSE [c EXCEPT !.tokens[2] = [@ EXCEPT !.clen = w.value,
                                   !.blen = w.value]]

ExecSetToken ==
    /\ Running("SET_TOKEN")
    /\ LET w == Word(ip)
           c1 == IF w.consume THEN ConsumeOn(Ctx, FALSE) ELSE Ctx
       IN  /\ SetCtx(SetTokenOn(c1, w))
           /\ production_id' = IF w.tok THEN w.value ELSE production_id
    /\ ip' = ip + 1
    /\ UNCHANGED << input, stack, recover_data, fail_mode, last_good_state,
                    done >>

(***************************************************************************)
(* case 14: assert_consume().  The lookahead takes the length of the       *)
(* character under the reader; on a mismatch the handler returns 2, which  *)
(* becomes the instruction index, else it performs consume(0).            *)
(***************************************************************************)
ExecAssertConsume ==
    /\ Running("ASSERT_CONSUME")
    /\ LET w == Word(ip)
           c1 == [Ctx EXCEPT !.tokens[2] = [@ EXCEPT !.blen = 1, !.clen = 1]]
       IN  IF w.val # ReaderValue(w.mode)
           THEN SetCtx(c1) /\ ip' = 2
           ELSE SetCtx(ConsumeOn(c1, FALSE)) /\ ip' = ip + 1
    /\ UNCHANGED << input, stack, recover_data, fail_mode, last_good_state,
                    production_id, done >>

(***************************************************************************)
(* get_input_value(input_type, token_transition, scanner_start_pointer)   *)
(* as a function of the context: [value, ctx].  'PROD' reads             *)
(* production_id.  The peek form (token_transition 1) moves the reader     *)
(* past the last token and appends a token for the next character, or      *)
(* returns 0 at the end of input.  The primary form returns 1 at the end   *)
(* of input; otherwise it drops the peeked tokens and puts the reader back *)
(* on the lookahead, then measures the character there.  Token-type input  *)
(* (the scanner) is not part of this module.                               *)
(***************************************************************************)
ValueAt(pos, kind) ==
    CASE kind = "CLASS" -> input[pos + 1].cls
      [] kind = "CP"    -> input[pos + 1].cp
      [] kind = "BYTE"  -> input[pos + 1].byte

Measured(t) == [t EXCEPT !.blen = 1, !.clen = 1]

InputValue(w) ==
    LET c == Ctx IN
    CASE w.input = "PROD" -> [value |-> production_id, ctx |-> c]
      [] w.peek ->
           LET last == c.tokens[Len(c.tokens)]
               r == c.reader + last.blen
               new == Measured([last EXCEPT !.type = 0,
                                            !.boff = last.boff + last.blen])
           IN  IF r >= Len(input)
               THEN [value |-> 0, ctx |-> [c EXCEPT !.reader = r]]
               ELSE [value |-> ValueAt(r, w.input),
                     ctx |-> [c EXCEPT !.reader = r,
                                       !.tokens = Append(@, new)]]
      [] OTHER ->
           IF ReaderEND THEN [value |-> 1, ctx |-> c]
           ELSE LET resync == Len(c.tokens) > 2
                    r == IF resync THEN c.tokens[2].boff ELSE c.reader
                    t == IF resync
                         THEN [SubSeq(c.tokens, 1, 2) EXCEPT ![2].type = 0]
                         ELSE c.tokens
                IN  [value |-> ValueAt(r, w.input),
                     ctx |-> [c EXCEPT !.reader = r,
                                       !.tokens = [t EXCEPT ![2] = Measured(@)]]]

(***************************************************************************)
(* case 9: index_jump().  The two words after the instruction are the      *)
(* scanner pointer and the table header (rows in the high half, row size   *)
(* in the low half); the default block starts right after them.  Case 8,   *)
(* NOOP, has no break and runs index_jump() on its own word.               *)
(***************************************************************************)
IndexJump(w) ==
    LET iv == InputValue(w)
        rows == Word(ip + 2).hi
        size == Word(ip + 2).lo
        start == ip + 3
    IN  /\ SetCtx(iv.ctx)
        /\ ip' = start + IndexOffset(iv.value, w.basis, rows, size)

ExecIndexJump ==
    /\ Running("INDEX_JUMP")
    /\ IndexJump(Word(ip))
    /\ UNCHANGED << input, stack, recover_data, fail_mode, last_good_state,
                    production_id, done >>

ExecNoop ==
    /\ Running("NOOP")
    /\ IndexJump(Word(ip))
    /\ UNCHANGED << input, stack, recover_data, fail_mode, last_good_state,
                    production_id, done >>

(***************************************************************************)
(* case 10: hash_jump().  Header: scanner pointer, then the modulus bit    *)
(* count (high half) and the table size (low half); the instruction field *)
(* follows the table, its size the low 16 bits of the instruction.  The    *)
(* probe loop is HashProbe of JumpTables, bounded by the number of cells. *)
(***************************************************************************)
HashTarget(value, tstart, fstart, fsize, k, fuel) ==
    LET r == HashProbe(Bytecode, tstart, value, k, fsize, fuel) IN
    IF r = -2 THEN -2 ELSE fstart + r

ExecHashJump ==
    /\ Running("HASH_JUMP")
    /\ LET w == Word(ip)
           iv == InputValue(w)
           tsize == Word(ip + 2).lo
           tstart == ip + 3
       IN  /\ SetCtx(iv.ctx)
           /\ ip' = HashTarget(iv.value, tstart, tstart + tsize, w.fsize,
                               Word(ip + 2).hi, tsize)
    /\ UNCHANGED << input, stack, recover_data, fail_mode, last_good_state,
                    production_id, done >>

\* case 11: push_fail_state(): push the fail state, or swap it in when the
\* state on top already has the same instruction pointer.
ExecPushFailState ==
    /\ Running("PUSH_FAIL")
    /\ LET fs == Word(ip).target IN
       stack' = IF ReadState(stack, NoState).addr # fs.addr
                THEN PushState(stack, fs, symbol_accumulator)
                ELSE SwapState(stack, fs)
    /\ ip' = ip + 1
    /\ UNCHANGED << input, reader, recover_data, fail_mode, last_good_state,
                    production_id, symbol_accumulator, tokens, out, done >>

\* case 12: repeat(): move the instruction index back by the offset.
\* Seeded faults: the offset taken from the index of the REPEAT word
\* itself, or from one word past it.
RepeatFromWord ==
    /\ Running("REPEAT")
    /\ ip' = ip - Word(ip).off
    /\ UNCHANGED << input, reader, stack, recover_data, fail_mode,
                    last_good_state, production_id, symbol_accumulator,
                    tokens, out, done >>

RepeatShort ==
    /\ Running("REPEAT")
    /\ ip' = ip + 2 - Word(ip).off
    /\ UNCHANGED << input, reader, stack, recover_data, fail_mode,
                    last_good_state, production_id, symbol_accumulator,
                    tokens, out, done >>

ExecRepeat ==
    /\ Running("REPEAT")
    /\ ip' = ip + 1 - Word(ip).off
    /\ UNCHANGED << input, reader, stack, recover_data, fail_mode,
                    last_good_state, production_id, symbol_accumulator,
                    tokens, out, done >>

\* case 13: try_lazy(): inert, skips its two operand words.
ExecTryLazy ==
    /\ Running("TRY_LAZY")
    /\ ip' = ip + 3
    /\ UNCHANGED << input, reader, stack, recover_data, fail_mode,
                    last_good_state, production_id, symbol_accumulator,
                    tokens, out, done >>

\* Seeded fault: the two continuation indices swapped.
ForkContinueSwapped ==
    /\ Running("FORK")
    /\ \E buffer \in ForkResults :
          /\ out' = out \o buffer
          /\ ip' = IF buffer # << >> THEN 0 ELSE 1
    /\ UNCHANGED << input, reader, stack, recover_data, fail_mode,
                    last_good_state, production_id, symbol_accumulator,
                    tokens, done >>

(***************************************************************************)
(* case 6: fork().  The ForkDelegate returns a list of actions; a          *)
(* non-empty list is emitted and execution continues at index 1, an empty  *)
(* one continues at index 0.                                               *)
(***************************************************************************)
ExecFork ==
    /\ Running("FORK")
    /\ \E buffer \in ForkResults :
          /\ out' = out \o buffer
          /\ ip' = IF buffer # << >> THEN 1 ELSE 0
    /\ UNCHANGED << input, reader, stack, recover_data, fail_mode,
                    last_good_state, production_id, symbol_accumulator,
                    tokens, done >>

-----------------------------------------------------------------------------
Next ==
    \/ Pop \/ Finish
    \/ ExecPass \/ ExecReturn \/ ExecConsume \/ ExecGoto
    \/ ExecSetProduction \/ ExecReduce \/ ExecSetToken
    \/ ExecAssertConsume \/ ExecIndexJump \/ ExecNoop \/ ExecHashJump
    \/ ExecPushFailState \/ ExecRepeat \/ ExecTryLazy \/ ExecFork

(***************************************************************************)
(* start() runs its loop to completion without waiting on anything but     *)
(* the synchronous sink and delegate, so the loop is weakly fair.          *)
(***************************************************************************)
Spec == Init /\ [][Next]_vars /\ WF_vars(Next)

-----------------------------------------------------------------------------
Token == [boff : Nat, blen : Nat, coff : Nat, clen : Nat, type : Int]

TypeOK ==
    /\ reader \in Nat
    /\ ip \in Addr \cup {Idle}
    /\ fail_mode \in BOOLEAN /\ done \in BOOLEAN
    /\ production_id \in Int /\ symbol_accumulator \in Int
    /\ tokens \in Seq(Token) /\ Len(tokens) >= 2
    /\ \A k \in 1..Len(stack) : stack[k].sp.addr \in Addr

-----------------------------------------------------------------------------
(***************************************************************************)
(* Refinement: the sink sees a stream that ParseEvents allows, under the   *)
(* mapping that keeps of each action its type, the offsets of a shifted    *)
(* token and the length of a Reduce.                                       *)
(***************************************************************************)
EventView(a) ==
    CASE a.type = "Shift" ->
            [type |-> "Shift", boff |-> a.token.boff, blen |-> a.token.blen]
      [] a.type = "Reduce" -> [type |-> "Reduce", length |-> a.length]
      [] OTHER -> [type |-> a.type]

Contract == INSTANCE ParseEvents
                WITH events <- [k \in DOMAIN out |-> EventView(out[k])],
                     RootAccept <- (Root >= 0)

(***************************************************************************)
(* The actions start() hands to its handler form a stream the output       *)
(* contract allows: shifts in input order with a Skip exactly at gaps, no  *)
(* Reduce folding more symbols than exist, one terminal action last, and   *)
(* Accept only at the end of input when no goal production is given.       *)
(***************************************************************************)
ImplementsParseEvents == Contract!Spec

(***************************************************************************)
(* start() returns: for a well-formed image every run ends in a terminal   *)
(* action.                                                                 *)
(***************************************************************************)
Termination == <>done

(***************************************************************************)
(* Spec section 3: the symbol accumulator moves only by +1 per Consume and *)
(* by -(length - 1) per Reduce, so in a parser it always equals the number *)
(* of symbols the emitted stream has produced and not yet folded.  A       *)
(* dynamic REDUCE that leaves the accumulator alone breaks it, and with it *)
(* every later dynamic length computed from the accumulator.               *)
(***************************************************************************)
AccumulatorCountsNodes == ~SCANNER => symbol_accumulator = Contract!Nodes

(***************************************************************************)
(* Spec sections 7 and 8: the Error start() emits describes the failure.  *)
(* It names the offending character (its token type is the class of the   *)
(* character at its offset; spec 8, "xz" against A -> 'x' 'y'), and it     *)
(* carries the last known-good state, the last state the driver loop took  *)
(* in normal mode, which a fail-only state can never be.                   *)
(***************************************************************************)
ErrorDescribesFailure ==
    LET e == Last(out) IN
    done /\ e.type = "Error" =>
        /\ e.tk_offset < Len(input) => e.tk_type = input[e.tk_offset + 1].cls
        /\ e.last_state.normal \/ e.last_state.addr = -1
=============================================================================
