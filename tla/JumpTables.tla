----------------------------- MODULE JumpTables -----------------------------
(***************************************************************************)
(* The table lookups of the two dispatch instructions of src/unnamed/      *)
(* part_001, as pure operators: the probe loop of hash_jump() and the row  *)
(* arithmetic of index_jump().  Engine applies them to its bytecode image; *)
(* MC_JumpTables checks them against each other and against a plain       *)
(* lookup of the table's contents.                                         *)
(*                                                                         *)
(* A word is a DATA record of its high and low 16-bit halves (see Engine). *)
(* A hash cell packs an 11-bit value (bits 0-10), an 11-bit instruction    *)
(* offset (bits 11-21) and a 10-bit step biased by 512 (bits 22-31).       *)
(***************************************************************************)
EXTENDS Integers

\* Seeded fault: the cell value compared without the 0x7FF mask.
CellValueUnmasked(cell) == cell.lo

CellValue(cell) == cell.lo % 2048
CellOffset(cell) == (cell.hi * 32 + cell.lo \div 2048) % 2048
CellStep(cell) == ((cell.hi \div 64) % 1024) - 512

(***************************************************************************)
(* The loop of hash_jump() over the cells at words[tstart ..]: probing     *)
(* starts at input & modulus, where modulus is 2^k - 1, and follows the    *)
(* steps until the value matches (the cell's offset into the instruction   *)
(* field) or a step is 0 (fsize: the default block at the end of the      *)
(* field).  The code's loop has no bound; 'fuel' bounds it, and a table    *)
(* that would run it longer yields -2.  TLA+ % is the two's-complement &   *)
(* of the code on a negative input (a production id of -1).                *)
(***************************************************************************)
HashProbe(words, tstart, value, k, fsize, fuel) ==
    LET RECURSIVE Probe(_, _)
        Probe(h, f) ==
            LET cell == words[tstart + h] IN
            CASE f = 0 -> -2
              [] CellValue(cell) = value -> CellOffset(cell)
              [] CellStep(cell) = 0 -> fsize
              [] OTHER -> Probe(h + CellStep(cell), f - 1)
    IN Probe(value % (2 ^ k), fuel)

\* Seeded fault: the row bound taken as inclusive.
IndexOffsetInclusive(value, basis, rows, size) ==
    LET v == value - basis IN
    IF v >= 0 /\ v <= rows THEN v * size + size ELSE 0

(***************************************************************************)
(* index_jump(): the input minus the basis selects a row when it is in     *)
(* [0, rows); the result is the offset from the table start, row_size past *)
(* the row's start, and 0 (the default block at the table start) else.    *)
(***************************************************************************)
IndexOffset(value, basis, rows, size) ==
    LET v == value - basis IN
    IF v >= 0 /\ v < rows THEN v * size + size ELSE 0
=============================================================================
