--------------------------- MODULE MC_JumpTables ---------------------------
(***************************************************************************)
(* The cross-check of spec section 8: HASH_JUMP and INDEX_JUMP agree on    *)
(* the outcome for the same discriminant and equivalent table contents.   *)
(*                                                                         *)
(* The grammar compiler, which lays out the tables, is not in the sources. *)
(* Here a table is built one key at a time, in every order, the way an    *)
(* open-addressing table with coalesced chains is: a key goes to its home *)
(* cell (key & modulus) when that is free, else to the first free cell,   *)
(* linked from the end of the chain that starts at its home.  A free cell *)
(* holds step 0 and a value whose home is another cell, so that no probe  *)
(* that starts there matches it.  The index table of the same contents    *)
(* has one row per value from the least key to the greatest; a row of a  *)
(* value that is not a key holds the default block.                       *)
(***************************************************************************)
EXTENDS JumpTables, BytecodeAsm, FiniteSetsExt

CONSTANTS
    Keys,       \* the discriminant values a table may hold (below 2048)
    Blocks,     \* instruction offsets of the keys' blocks
    K,          \* the modulus bit count: 2^K home cells
    Probes      \* the discriminants looked up

VARIABLES
    entries,    \* the table contents: key -> block offset
    table       \* the hash cells, free ones as Free

vars == << entries, table >>

Size == 2 ^ K + Cardinality(Keys)
FSize == 64     \* the instruction field size: the default block's offset
Free == [v |-> -1, off |-> 0, step |-> 0]

RECURSIVE ChainEnd(_, _)
ChainEnd(t, c) == IF t[c].step = 0 THEN c ELSE ChainEnd(t, c + t[c].step)

Insert(t, key, off) ==
    LET home == key % (2 ^ K)
        new == [v |-> key, off |-> off, step |-> 0]
    IN IF t[home] = Free THEN [t EXCEPT ![home] = new]
       ELSE LET last == ChainEnd(t, home)
                free == Min({i \in 0..(Size - 1) : t[i] = Free})
            IN [t EXCEPT ![last].step = free - last, ![free] = new]

\* The words of the hash table.
HashWords ==
    [i \in 0..(Size - 1) |->
        IF table[i] = Free THEN Cell((i + 1) % (2 ^ K), 0, 0)
        ELSE Cell(table[i].v, table[i].off, table[i].step)]

Basis == IF entries = << >> THEN 0 ELSE Min(DOMAIN entries)
Rows == IF entries = << >> THEN 0 ELSE Max(DOMAIN entries) - Basis + 1
RowSize == 2

\* The block at offset o of the index table: the default block at 0, a
\* row's block, or words past the last row.
IndexBlock(o) ==
    LET r == o \div RowSize - 1 IN
    CASE o = 0 -> "default"
      [] r \notin 0..(Rows - 1) \/ o % RowSize # 0 -> "past the table"
      [] Basis + r \in DOMAIN entries -> entries[Basis + r]
      [] OTHER -> "default"

HashOutcome(v) ==
    LET r == HashProbe(HashWords, 0, v, K, FSize, Size) IN
    IF r = FSize THEN "default" ELSE r

IndexOutcome(v) == IndexBlock(IndexOffset(v, Basis, Rows, RowSize))

\* The contents, looked up directly.
Lookup(v) == IF v \in DOMAIN entries THEN entries[v] ELSE "default"

\* -1, every home and overflow cell, a value past the keys, and the keys
\* plus 2048, which a cell's 11-bit value field cannot tell from the keys.
AllProbes == {-1} \cup (0..Size) \cup {13} \cup {k + 2048 : k \in Keys}

Init == entries = << >> /\ table = [i \in 0..(Size - 1) |-> Free]

Add(key, off) ==
    /\ key \notin DOMAIN entries
    /\ entries' = [x \in DOMAIN entries \cup {key} |->
                     IF x = key THEN off ELSE entries[x]]
    /\ table' = Insert(table, key, off)

Next == \E key \in Keys, off \in Blocks : Add(key, off)

Spec == Init /\ [][Next]_vars

(***************************************************************************)
(* Spec 8: for every table contents and every discriminant, a production  *)
(* id of -1 and codepoints past the 11 bits of a cell included, the probe *)
(* loop of hash_jump() ends, and it and index_jump() both select the      *)
(* block the contents give for the discriminant.                          *)
(***************************************************************************)
JumpTablesAgree ==
    \A v \in Probes : HashOutcome(v) = Lookup(v) /\ IndexOutcome(v) = Lookup(v)
=============================================================================
