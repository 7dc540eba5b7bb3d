------------------------------- MODULE ScanTo -------------------------------
(***************************************************************************)
(* scan_to() of src/unnamed/part_001 (lines 614-680), the SCAN_TO          *)
(* instruction, as an operator over the scanner: Scan(t) is what           *)
(* scanner(t, scanner_index) leaves in t (Scanner checks that composed     *)
(* engine), AtEnd is reader.offset_at_end.  scanner() updates and returns  *)
(* the very token it is given, so 'token' and 'temp_token' of the loop     *)
(* are one record here.  The result says whether a token of one of the     *)
(* target types was found (scan_to then returns the index past the list,   *)
(* else 1) and what the lookahead tokens[1] holds afterwards.              *)
(***************************************************************************)
EXTENDS Integers

CONSTANTS
    Scan(_),    \* scanner(t, scanner_index): the token it makes of t
    AtEnd(_)    \* reader.offset_at_end(byte offset)

\* Seeded fault: the lengths are not cleared before the next scan.
StepPastNoReset(tok) ==
    [tok EXCEPT !.boff = @ + (IF tok.blen > 0 THEN tok.blen ELSE 1),
                !.coff = @ + (IF tok.blen > 0 THEN tok.coff ELSE 1)]

\* The running token moved past a scanned token of none of the target types,
\* and its lengths cleared.  The codepoint offset grows by the token's own
\* codepoint offset, as line 664 has it, not by its codepoint length.
StepPast(tok) ==
    [tok EXCEPT !.boff = @ + (IF tok.blen > 0 THEN tok.blen ELSE 1),
                !.coff = @ + (IF tok.blen > 0 THEN tok.coff ELSE 1),
                !.blen = 0, !.clen = 0]

(***************************************************************************)
(* temp_token is a copy of the lookahead with type 0; a backward scan     *)
(* starts instead at tokens[0] with no length.  The loop scans, stops on  *)
(* a target type, fails at the end of input, and otherwise steps past the *)
(* token (by one byte when it has no length).  A forward scan that finds  *)
(* its target makes the lookahead impersonate temp_token.                 *)
(***************************************************************************)
ScanToOn(Types, lookahead, prev, scanBack) ==
    LET RECURSIVE Loop(_)
        Loop(t) ==
            LET tok == Scan(t) IN
            CASE tok.type \in Types -> [found |-> TRUE, token |-> tok]
              [] AtEnd(tok.boff)    -> [found |-> FALSE, token |-> tok]
              [] OTHER              -> Loop(StepPast(tok))
        t0 == IF scanBack
              THEN [lookahead EXCEPT !.type = 0, !.boff = prev.boff,
                                     !.coff = prev.coff, !.blen = 0, !.clen = 0]
              ELSE [lookahead EXCEPT !.type = 0]
        r == Loop(t0)
    IN  [found |-> r.found,
         lookahead |-> IF r.found /\ ~scanBack THEN r.token ELSE lookahead]
=============================================================================
