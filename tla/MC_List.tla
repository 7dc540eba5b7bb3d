------------------------------- MODULE MC_List -------------------------------
(***************************************************************************)
(* The engine run against the bytecode of                                 *)
(*     S -> '(' L ')' | L        L -> 'x'+                                 *)
(* The first character is dispatched through a hash table whose two       *)
(* values collide on the first probe; the block of S pushes a goto chain   *)
(* (L first, then the continuation); L asserts one 'x', loops over the     *)
(* rest with an index table and REPEAT, and reduces with the dynamic       *)
(* length counted from the snapshot taken by the goto.                     *)
(***************************************************************************)
EXTENDS Engine, BytecodeAsm

CharX == Char(2, 120)
CharL == Char(5, 40)
CharR == Char(5, 41)
CharZ == Char(2, 122)

MaxInput == 4
ListInputs == BoundedSeq({CharX, CharL, CharR, CharZ}, MaxInput)

ProdS == 1
ProdL == 2

ListBytecode ==
    << [op |-> "RETURN", keep |-> FALSE],                         \* 1
       [op |-> "RETURN", keep |-> FALSE],                         \* 2
       \* S: dispatch on the first byte
       [op |-> "HASH_JUMP", input |-> "BYTE", peek |-> FALSE,
        fsize |-> 7],                                             \* 3
       Data(0), Header(1, 2),                                     \* 4, 5
       Cell(40, 0, 1), Cell(120, 4, 0),                           \* 6, 7
       [op |-> "CONSUME", nothing |-> FALSE],                     \* 8  '('
       [op |-> "GOTO", target |-> SP(29)],                        \* 9
       [op |-> "GOTO", target |-> SP(16)],                        \* 10
       [op |-> "PASS"],                                           \* 11
       [op |-> "GOTO", target |-> SP(26)],                        \* 12 'x'
       [op |-> "GOTO", target |-> SP(16)],                        \* 13
       [op |-> "PASS"],                                           \* 14
       [op |-> "RETURN", keep |-> FALSE],                         \* 15 default
       \* L
       [op |-> "ASSERT_CONSUME", mode |-> "BYTE", val |-> 120],   \* 16
       [op |-> "INDEX_JUMP", input |-> "BYTE", peek |-> FALSE,
        basis |-> 120],                                           \* 17
       Data(0), Header(1, 3),                                     \* 18, 19
       [op |-> "REDUCE", len |-> 2, body |-> DynamicBody],        \* 20
       [op |-> "SET_PROD", prod |-> ProdL],                       \* 21
       [op |-> "PASS"],                                           \* 22
       [op |-> "CONSUME", nothing |-> FALSE],                     \* 23 'x'
       [op |-> "REPEAT", off |-> 8],                              \* 24
       [op |-> "PASS"],                                           \* 25
       \* S -> L
       [op |-> "REDUCE", len |-> 1, body |-> 1],                  \* 26
       [op |-> "SET_PROD", prod |-> ProdS],                       \* 27
       [op |-> "PASS"],                                           \* 28
       \* S -> '(' L ')'
       [op |-> "ASSERT_CONSUME", mode |-> "BYTE", val |-> 41],    \* 29
       [op |-> "REDUCE", len |-> 3, body |-> 0],                  \* 30
       [op |-> "SET_PROD", prod |-> ProdS],                       \* 31
       [op |-> "PASS"] >>                                         \* 32

ListImage == Image(ListBytecode)
ListEntry == SP(3)
NoRoot == -1
NoFork == {}

Xs(n) == [i \in 1..n |-> CharX]
ListLanguage ==
    { Xs(n) : n \in 1..MaxInput } \cup
    { << CharL >> \o Xs(n) \o << CharR >> : n \in 1..MaxInput - 2 }

(***************************************************************************)
(* Correctness of the recognizer for this grammar: once start() returns,   *)
(* it has emitted Accept exactly for the inputs in the language.  It       *)
(* depends on the hash probe, the index dispatch, the loop, the goto chain *)
(* and the final end-of-input test together.                               *)
(***************************************************************************)
AcceptIffInLanguage ==
    done => (Last(out).type = "Accept" <=> input \in ListLanguage)
=============================================================================
