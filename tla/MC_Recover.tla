------------------------------ MODULE MC_Recover ------------------------------
(***************************************************************************)
(* The engine run against the bytecode of S -> 'x' 'y' with an error       *)
(* recovery block R.  S first pushes R as a fail-only state; when an       *)
(* assertion fails, RETURN puts the engine in fail mode, the driver loop   *)
(* drops normal states and runs R, which skips one byte, pushes R again    *)
(* and restarts S; R gives up (RETURN keeping fail mode) at the end of     *)
(* the input.                                                              *)
(***************************************************************************)
EXTENDS Engine, BytecodeAsm

CharX == Char(2, 120)
CharY == Char(2, 121)
CharZ == Char(2, 122)

MaxInput == 4
RecoverInputs == BoundedSeq({CharX, CharY, CharZ}, MaxInput)

ProdS == 1
Filler == [op |-> "PASS"]

RecoverBytecode ==
    << [op |-> "RETURN", keep |-> FALSE],                         \* 1
       [op |-> "RETURN", keep |-> FALSE],                         \* 2
       \* S
       [op |-> "PUSH_FAIL", target |-> FailSP(12)],               \* 3
       [op |-> "TRY_LAZY"], Data(0), Data(0),                     \* 4-6
       [op |-> "ASSERT_CONSUME", mode |-> "BYTE", val |-> 120],   \* 7
       [op |-> "ASSERT_CONSUME", mode |-> "BYTE", val |-> 121],   \* 8
       [op |-> "SET_PROD", prod |-> ProdS],                       \* 9
       [op |-> "REDUCE", len |-> 2, body |-> 0],                  \* 10
       [op |-> "PASS"],                                           \* 11
       \* R: a NOOP on the production (always its default), then a
       \* primary read whose only row is the end-of-input value 1
       [op |-> "NOOP", input |-> "PROD", peek |-> FALSE, basis |-> 0], \* 12
       Data(0), Header(0, 0),                                     \* 13-14
       [op |-> "INDEX_JUMP", input |-> "BYTE", peek |-> FALSE,
        basis |-> 1],                                             \* 15
       Data(0), Header(1, 6),                                     \* 16-17
       [op |-> "SET_TOKEN", consume |-> FALSE, tok |-> FALSE,
        value |-> 1],                                             \* 18
       [op |-> "CONSUME", nothing |-> FALSE],                     \* 19
       [op |-> "PUSH_FAIL", target |-> FailSP(12)],               \* 20
       [op |-> "GOTO", target |-> SP(3)],                         \* 21
       [op |-> "PASS"], Filler,                                   \* 22-23
       [op |-> "RETURN", keep |-> TRUE] >>                        \* 24

RecoverImage == Image(RecoverBytecode)
RecoverEntry == SP(3)
NoRoot == -1
NoFork == {}

(***************************************************************************)
(* The reference: S tried at byte p either matches "xy" (accepted when it  *)
(* ends the input) or fails after q bytes; R then skips the byte at the    *)
(* point of failure and S is tried again after it.                         *)
(***************************************************************************)
RECURSIVE Recovers(_)
Recovers(p) ==
    IF p + 2 <= Len(input) /\ input[p + 1] = CharX /\ input[p + 2] = CharY
    THEN p + 2 = Len(input)
    ELSE LET q == IF p + 1 <= Len(input) /\ input[p + 1] = CharX
                  THEN p + 1 ELSE p
         IN  q < Len(input) /\ Recovers(q + 1)

\* A completed parse accepts exactly when the recovery loop (fail states
\* run by the driver loop in fail mode, push_fail_state, RETURN keeping
\* fail mode) reaches an "xy" that ends the input.
AcceptIffRecovers ==
    done => (Last(out).type = "Accept" <=> Recovers(0))
=============================================================================
