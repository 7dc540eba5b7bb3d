----------------------------- MODULE BytecodeAsm -----------------------------
(***************************************************************************)
(* Writing bytecode images for the model-checking modules: the word        *)
(* encodings the grammar compiler emits for the engine (spec section 6),   *)
(* in the record form Engine reads.                                        *)
(***************************************************************************)
EXTENDS Integers, Sequences

\* A state pointer to the block at 'a', run in normal mode.
SP(a) == [addr |-> a, normal |-> TRUE, fail |-> FALSE, goto |-> FALSE]

\* A state pointer to the block at 'a', run in fail mode only.
FailSP(a) == [addr |-> a, normal |-> FALSE, fail |-> TRUE, goto |-> FALSE]

\* A data word holding the 32-bit value v.
Data(v) == [op |-> "DATA", hi |-> v \div 65536, lo |-> v % 65536]

\* A table header word: high and low halves.
Header(hi, lo) == [op |-> "DATA", hi |-> hi, lo |-> lo]

\* A hash cell: 11-bit value, 11-bit instruction offset, step biased by 512.
Cell(value, off, step) ==
    [op |-> "DATA", hi |-> off \div 32 + (step + 512) * 64,
                    lo |-> (value % 2048) + (off % 32) * 2048]

\* The image whose word 0 is PASS and whose words 1.. are 'words'.
Image(words) ==
    [i \in 0..Len(words) |-> IF i = 0 THEN [op |-> "PASS"] ELSE words[i]]

\* Characters: one byte each, with a character class.
Char(cls, b) == [cls |-> cls, cp |-> b, byte |-> b]
=============================================================================
