------------------------------- MODULE MC_Fork -------------------------------
(***************************************************************************)
(* The engine, given S as its goal production, at an ambiguous point:    *)
(* S -> 'x' with the reduction of S pushed as a goto state and the block   *)
(* ending in FORK.  The ForkDelegate either returns nothing (inconclusive) *)
(* or resolves the point by handing back the Reduce it chose.  With a      *)
(* goal, start() accepts once production_id is S, input left or not.      *)
(* Words 0-2 are what the code's absolute continuation indices need: 0    *)
(* (empty fork) is PASS, 1 (resolved fork, failed scan_to) and 2 (failed *)
(* ASSERT_CONSUME) are RETURNs that put the engine in fail mode.          *)
(***************************************************************************)
EXTENDS Engine, BytecodeAsm

CharX == Char(2, 120)
CharY == Char(2, 121)

MaxInput == 3
ForkInputs == BoundedSeq({CharX, CharY}, MaxInput)

ProdS == 1

ForkBytecode ==
    << [op |-> "RETURN", keep |-> FALSE],                         \* 1
       [op |-> "RETURN", keep |-> FALSE],                         \* 2
       [op |-> "GOTO", target |-> SP(7)],                         \* 3
       [op |-> "ASSERT_CONSUME", mode |-> "BYTE", val |-> 120],   \* 4
       [op |-> "FORK"],                                           \* 5
       [op |-> "PASS"],                                           \* 6
       [op |-> "REDUCE", len |-> 1, body |-> 0],                  \* 7
       [op |-> "SET_PROD", prod |-> ProdS],                       \* 8
       [op |-> "PASS"] >>                                         \* 9

ForkImage == Image(ForkBytecode)
ForkEntry == SP(3)
\* start() is given S as its goal production.
Goal == ProdS

\* What the delegate may answer: nothing, or one Reduce of the shifted 'x'.
DelegateReduce == [type |-> "Reduce", body |-> 1, length |-> 1, production |-> ProdS]
DelegateAnswers == { << >>, << DelegateReduce >> }

\* The engine's own reduction of S (body 0), pushed as a goto state before
\* the fork.
OwnReduce(a) == a.type = "Reduce" /\ a.body = 0
Emitted(P(_)) == \E i \in DOMAIN out : P(out[i])
IsDelegate(a) == a = DelegateReduce

(***************************************************************************)
(* A FORK hands its branch to the delegate: when the delegate answers with *)
(* actions, they reach the sink in place and the branch that forked is    *)
(* failed, so the goto reduction pushed before it never runs and start()  *)
(* ends with Error; when it answers nothing, the engine goes on with its  *)
(* own branch and accepts after its own reduction.  fork() continues at   *)
(* the absolute index 1 or 0 to get this.                                 *)
(***************************************************************************)
ForkHandsOver ==
    done /\ Len(input) > 0 /\ input[1] = CharX =>
        IF Emitted(IsDelegate)
        THEN ~Emitted(OwnReduce) /\ Last(out).type = "Error"
        ELSE Emitted(OwnReduce) /\ Last(out).type = "Accept"
=============================================================================
