------------------------------- MODULE MC_Peek -------------------------------
(***************************************************************************)
(* The engine run against the bytecode of                                 *)
(*     S -> A 'y' | B 'z'        A -> 'x'        B -> 'x'                  *)
(* Which of A or B to reduce after 'x' is decided by peeking at the byte   *)
(* that follows it (an INDEX_JUMP with the peek flag); the reduction is    *)
(* followed by a primary read of that same byte.                           *)
(***************************************************************************)
EXTENDS Engine, BytecodeAsm

CharX == Char(2, 120)
CharY == Char(2, 121)
CharZ == Char(2, 122)

MaxInput == 3
PeekInputs == BoundedSeq({CharX, CharY, CharZ}, MaxInput)

ProdS == 1
ProdA == 2
ProdB == 3

Filler == [op |-> "PASS"]

\* An INDEX_JUMP over one byte, its scanner pointer and its header.
ByteJump(basis, peek, rows, size) ==
    << [op |-> "INDEX_JUMP", input |-> "BYTE", peek |-> peek, basis |-> basis],
       Data(0), Header(rows, size) >>

PeekBytecode ==
    << [op |-> "RETURN", keep |-> FALSE],                         \* 1
       [op |-> "RETURN", keep |-> FALSE] >>                       \* 2
    \o ByteJump(120, FALSE, 1, 5)                                 \* 3-5
    \o << [op |-> "RETURN", keep |-> FALSE],                      \* 6
          Filler, Filler, Filler, Filler >>                       \* 7-10
    \o ByteJump(121, TRUE, 2, 5)                                  \* 11-13
    \o << [op |-> "RETURN", keep |-> FALSE],                      \* 14
          Filler, Filler, Filler, Filler,                         \* 15-18
          \* peeked 'y': A -> 'x', then S -> A . 'y'
          [op |-> "CONSUME", nothing |-> FALSE],                  \* 19
          [op |-> "REDUCE", len |-> 1, body |-> 2],               \* 20
          [op |-> "SET_PROD", prod |-> ProdA],                    \* 21
          [op |-> "GOTO", target |-> SP(29)],                     \* 22
          [op |-> "PASS"],                                        \* 23
          \* peeked 'z': B -> 'x', then S -> B . 'z'
          [op |-> "CONSUME", nothing |-> FALSE],                  \* 24
          [op |-> "REDUCE", len |-> 1, body |-> 3],               \* 25
          [op |-> "SET_PROD", prod |-> ProdB],                    \* 26
          [op |-> "GOTO", target |-> SP(42)],                     \* 27
          [op |-> "PASS"] >>                                      \* 28
    \o ByteJump(121, FALSE, 1, 5)                                 \* 29-31
    \o << [op |-> "RETURN", keep |-> FALSE],                      \* 32
          Filler, Filler, Filler, Filler,                         \* 33-36
          [op |-> "CONSUME", nothing |-> FALSE],                  \* 37
          [op |-> "REDUCE", len |-> 2, body |-> 0],               \* 38
          [op |-> "SET_PROD", prod |-> ProdS],                    \* 39
          [op |-> "PASS"], Filler >>                              \* 40-41
    \o ByteJump(122, FALSE, 1, 5)                                 \* 42-44
    \o << [op |-> "RETURN", keep |-> FALSE],                      \* 45
          Filler, Filler, Filler, Filler,                         \* 46-49
          [op |-> "CONSUME", nothing |-> FALSE],                  \* 50
          [op |-> "REDUCE", len |-> 2, body |-> 1],               \* 51
          [op |-> "SET_PROD", prod |-> ProdS],                    \* 52
          [op |-> "PASS"] >>                                      \* 53

PeekImage == Image(PeekBytecode)
PeekEntry == SP(3)
NoRoot == -1
NoFork == {}

PeekLanguage == { <<CharX, CharY>>, <<CharX, CharZ>> }

\* A completed parse accepts exactly the two sentences of the grammar: the
\* peek at the byte after 'x' must leave the primary lookahead able to read
\* that byte again (get_input_value, token_transition 1 versus default).
AcceptIffInLanguage ==
    done => (Last(out).type = "Accept" <=> input \in PeekLanguage)
=============================================================================
