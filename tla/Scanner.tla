------------------------------- MODULE Scanner -------------------------------
(***************************************************************************)
(* scanner() of src/unnamed/part_001 (lines 932-1006): a StateIterator in  *)
(* the scanner role, over a clone of the reader set to current_token, run  *)
(* by start() again and again until its handler clears ACTIVE.  The       *)
(* engine of one start() call is Engine with SCANNER = TRUE; this module   *)
(* adds the outer current_token and the handler that either skips a       *)
(* token of the skipped type and restarts the scan after it, or copies    *)
(* the token into current_token and stops.                                *)
(*                                                                         *)
(* The handler is called from emit() inside start(); here it runs as the   *)
(* step after Finish, when the engine is done.  'out' holds the actions   *)
(* of the current start() call.  A scanner's start() emits only Token      *)
(* (TerminalAction), so the FORK, ACCEPT and default branches, which      *)
(* throw, are not reachable; line numbers and line offsets are left out.  *)
(***************************************************************************)
EXTENDS Engine

CONSTANTS
    SkipType,   \* skipped_scan_prod of @hctoolkit/common
    Starts      \* the current_token values scanner() may be called with

VARIABLES
    current,    \* the caller's current_token
    returned,   \* ACTIVE = false: scanner() has returned current_token
    called      \* history: current_token as scanner() received it

svars == << vars, current, returned, called >>

\* The token the handler receives.
Emitted == Last(out).token

(***************************************************************************)
(* A new StateIterator over a clone of the reader set to current_token,   *)
(* whose tokens[1] and tokens[0] impersonate current_token (a copy of all *)
(* its fields).  current_token lies within the input.                     *)
(***************************************************************************)
ScanInit ==
    /\ input \in Inputs
    /\ current \in Starts /\ current.boff + current.blen <= Len(input)
    /\ called = current /\ returned = FALSE
    /\ reader = current.boff
    /\ stack = Reset(Entry)
    /\ ip = Idle /\ recover_data = 0
    /\ fail_mode = FALSE /\ last_good_state = [NoState EXCEPT !.addr = -1]
    /\ production_id = -1 /\ symbol_accumulator = 0
    /\ tokens = << current, current >>
    /\ out = << >> /\ done = FALSE

\* A step of the engine inside start().
ScanStep == Next /\ UNCHANGED << current, returned, called >>

\* Seeded fault: the skipped token's length is not added to the offsets.
SkipRestartNoOffset ==
    /\ done /\ ~returned /\ Emitted.type = SkipType
    /\ stack' = Reset(Entry)
    /\ tokens' = [tokens EXCEPT ![1] = tokens[2]]
    /\ fail_mode' = FALSE /\ last_good_state' = [NoState EXCEPT !.addr = -1]
    /\ out' = << >> /\ done' = FALSE
    /\ UNCHANGED << input, reader, ip, recover_data, production_id,
                    symbol_accumulator, current, returned, called >>

(***************************************************************************)
(* A Token of the skipped type: current_token moves past it, the stack is *)
(* reset to the scanner's start state and tokens[0] impersonates the       *)
(* lookahead; the handler returns, start() returns, and the loop calls    *)
(* start() again with fresh fail_mode and last_good_state.  The clone's   *)
(* cursor stays where the skipped token ended.                            *)
(***************************************************************************)
SkipRestart ==
    /\ done /\ ~returned /\ Emitted.type = SkipType
    /\ current' = [current EXCEPT !.coff = @ + Emitted.clen,
                                  !.boff = @ + Emitted.blen]
    /\ stack' = Reset(Entry)
    /\ tokens' = [tokens EXCEPT ![1] = tokens[2]]
    /\ fail_mode' = FALSE /\ last_good_state' = [NoState EXCEPT !.addr = -1]
    /\ out' = << >> /\ done' = FALSE
    /\ UNCHANGED << input, reader, ip, recover_data, production_id,
                    symbol_accumulator, returned, called >>

\* Any other Token: its lengths and type go into current_token; ACTIVE = false.
Return ==
    /\ done /\ ~returned /\ Emitted.type # SkipType
    /\ current' = [current EXCEPT !.clen = Emitted.clen,
                                  !.blen = Emitted.blen,
                                  !.type = Emitted.type]
    /\ returned' = TRUE
    /\ UNCHANGED << vars, called >>

ScanNext == ScanStep \/ SkipRestart \/ Return

\* The while (ACTIVE) loop and start() run without waiting: weakly fair.
ScanSpec == ScanInit /\ [][ScanNext]_svars /\ WF_svars(ScanNext)

-----------------------------------------------------------------------------
(***************************************************************************)
(* scanner() returns: every start() reaches an empty stack (its REPEAT    *)
(* loops consume a character each time round) and the loop of restarts   *)
(* after skipped tokens ends.  A skipped token of length zero, or a       *)
(* restart that does not leave the clone past it, would make              *)
(* while (ACTIVE) run for ever.                                           *)
(***************************************************************************)
ScannerReturns == <>returned
=============================================================================
