------------------------------ MODULE MC_Scanner ------------------------------
(***************************************************************************)
(* scanner() over a lexer bytecode with a skipped production: Skip = ' '+ *)
(* (the skipped type 9), X = 'x'+ (type 10) and XY = 'x'+ 'y' (type 11);   *)
(* 'z' starts no token.  Each token is an INDEX_JUMP on the character      *)
(* class, a SET_TOKEN that records the match so far, and a REPEAT loop,    *)
(* as the compiler lays out a repetition.  Class 1 is the end of input     *)
(* (get_input_value returns 1 there), so the characters have classes 2-5. *)
(***************************************************************************)
EXTENDS Scanner, BytecodeAsm

Space == Char(2, 32)
CharX == Char(3, 120)
CharY == Char(4, 121)
CharZ == Char(5, 122)

MaxInput == 4
ScanInputs == BoundedSeq({Space, CharX, CharY, CharZ}, MaxInput)

TkSkip == 9
TkX == 10
TkXY == 11
Filler == [op |-> "PASS"]

Accepting(tk) == [op |-> "SET_TOKEN", consume |-> TRUE, tok |-> TRUE, value |-> tk]
ClassJump(basis) == [op |-> "INDEX_JUMP", input |-> "CLASS", peek |-> FALSE,
                     basis |-> basis]

\* The loop block of a repetition of one class: consume it, go back.
Repetition(tk, cls) ==
    << Accepting(tk), ClassJump(cls), Data(0), Header(1, 3),
       [op |-> "PASS"], Filler, Filler, [op |-> "REPEAT", off |-> 8] >>

ScanBytecode ==
    << [op |-> "RETURN", keep |-> FALSE],                         \* 1
       [op |-> "RETURN", keep |-> FALSE],                         \* 2
       ClassJump(2), Data(0), Header(2, 10),                      \* 3-5
       [op |-> "RETURN", keep |-> FALSE] >>                       \* 6
    \o [i \in 1..9 |-> Filler]                                    \* 7-15
    \o Repetition(TkSkip, 2) \o << Filler, Filler >>              \* 16-25
    \o << Accepting(TkX), ClassJump(3), Data(0), Header(2, 3),    \* 26-29
          [op |-> "PASS"], Filler, Filler,                         \* 30-32
          [op |-> "REPEAT", off |-> 8], Filler, Filler,            \* 33-35
          Accepting(TkXY), [op |-> "PASS"] >>                      \* 36-37

ScanImage == Image(ScanBytecode)
ScanEntry == SP(3)
NoRoot == -1
NoFork == {}

\* Tokens at the start of the input, of no type or of type X, empty or one
\* byte long: a lookahead as the byte and class reads leave it, and the
\* running token of scan_to after a token of type X.
ScanStarts == {[NewToken EXCEPT !.type = ty, !.blen = l, !.clen = l] :
                 ty \in {0, TkX}, l \in {0, 1}}

\* The number of leading elements of s equal to c.
RECURSIVE Leading(_, _)
Leading(c, s) == IF s # << >> /\ Head(s) = c THEN 1 + Leading(c, Tail(s)) ELSE 0

(***************************************************************************)
(* The reference: from byte 'off' the spaces are skipped, and the token is *)
(* the longest prefix of the rest that is an X or an XY, or none (type 0). *)
(***************************************************************************)
SkipAt(off) == Leading(Space, SubSeq(input, off + 1, Len(input)))
LongestAt(off) ==
    LET rest == SubSeq(input, off + 1, Len(input))
        n == Leading(CharX, rest)
    IN  CASE n = 0 -> [type |-> 0, len |-> 0]
          [] n < Len(rest) /\ rest[n + 1] = CharY -> [type |-> TkXY, len |-> n + 1]
          [] OTHER -> [type |-> TkX, len |-> n]

(***************************************************************************)
(* What scanner(t) makes of t: its offsets moved past the skipped spaces,  *)
(* and the type and length of the longest token there.  With no token it  *)
(* is tokens[0] as it was: t itself when nothing was skipped, else the     *)
(* lookahead it impersonated, one byte long unless at the end of input.   *)
(***************************************************************************)
Scan(t) ==
    LET s == SkipAt(t.boff)
        at == t.boff + s
        m == LongestAt(at)
        stale == IF s = 0 THEN t
                 ELSE [type |-> 0, blen |-> IF at >= Len(input) THEN 0 ELSE 1,
                       clen |-> IF at >= Len(input) THEN 0 ELSE 1]
    IN  [t EXCEPT !.boff = at, !.coff = t.coff + s,
                  !.type = IF m.len > 0 THEN m.type ELSE stale.type,
                  !.blen = IF m.len > 0 THEN m.len ELSE stale.blen,
                  !.clen = IF m.len > 0 THEN m.len ELSE stale.clen]

\* What scanner() returns in current_token is Scan of the token it was
\* given: it starts after every skipped token and is the longest match
\* there, also when the last alternative (XY) failed, whatever SET_TOKEN and
\* the restarts left in tokens[0] and tokens[1].
ScannedToken == returned => current = Scan(called)

-----------------------------------------------------------------------------
(***************************************************************************)
(* scan_to against the tokens of the input: from its start offset the     *)
(* input splits into the tokens Scan finds, each followed by the next one  *)
(* after it (one byte on when there is none).                             *)
(***************************************************************************)
RECURSIVE Chain(_)
Chain(off) ==
    LET at == off + SkipAt(off)
        m == LongestAt(at)
    IN  IF at >= Len(input) THEN << >>
        ELSE << [boff |-> at, blen |-> m.len, clen |-> m.len, type |-> m.type] >>
             \o Chain(at + (IF m.len > 0 THEN m.len ELSE 1))

TargetSets == {{TkX}, {TkXY}, {TkX, TkXY}}
AtEnd(off) == OffsetAtEnd(off)
SCAN_TO == INSTANCE ScanTo
Lookahead(off) == [NewToken EXCEPT !.boff = off, !.coff = off,
                    !.blen = IF off < Len(input) THEN 1 ELSE 0,
                    !.clen = IF off < Len(input) THEN 1 ELSE 0]
View(t) == [boff |-> t.boff, blen |-> t.blen, clen |-> t.clen, type |-> t.type]

\* SCAN_TO finds a target exactly when one of the tokens from its start
\* (tokens[0] when scanning back, else the lookahead) has a target type,
\* and a forward scan leaves the lookahead on the first such token; the
\* type a scan of no token carries over from the token before never makes
\* it stop early, and the lengths of the token before never make it skip.
\* (Codepoint offsets are not compared: see README.)
ScanToFindsTarget ==
    \A off \in 0..Len(input), p \in 0..Len(input), T \in TargetSets,
       back \in BOOLEAN :
        p <= off =>
        LET la == Lookahead(off)
            r == SCAN_TO!ScanToOn(T, la, Lookahead(p), back)
            c == Chain(IF back THEN p ELSE off)
            hits == {i \in 1..Len(c) : c[i].type \in T}
        IN  /\ r.found = (hits # {})
            /\ View(r.lookahead) =
                 IF hits = {} \/ back THEN View(la) ELSE c[Min(hits)]
=============================================================================
