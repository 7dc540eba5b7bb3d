------------------------------ MODULE Notebook ------------------------------
(***************************************************************************)
(* The notebook layout of the web lab, src/site/assets/js/lab/notebook.ts: *)
(* class NB (the columns), NBColumn (the cells of a column), NBField with  *)
(* its row and column indices, and NBBlankField, the placeholder whose     *)
(* delete() removes it from the notebook after a 100 ms timeout.           *)
(*                                                                         *)
(* Data abstraction.  A field is a model value: a content field or a      *)
(* blank.  Heights, elements and styles are left out; they change no      *)
(* index.  The callers (the drag operations of ./dragndrop_operations)    *)
(* are not in the sources: every public method may be called with any    *)
(* argument from small sets, within the two assumptions stated at Swap     *)
(* and RemoveCol.  A method that throws (a TypeError on a missing column, *)
(* or its own throw) keeps the effects made before the throw.             *)
(***************************************************************************)
EXTENDS Integers, Sequences, SequencesExt, FiniteSetsExt

CONSTANTS
    Contents,   \* content fields (NBContentField)
    Blanks,     \* blank fields (NBBlankField)
    InitCols,   \* the constructor's num_of_columns
    MaxCols,    \* bound on the number of columns insertCol may reach
    Rows,       \* virtual row arguments of addField; the default Infinity
                \* is a number larger than any row
    MaxPending  \* bound on the delete timers pending for one blank

Fields == Contents \cup Blanks

VARIABLES
    columns,    \* NB.columns: the cells of each column, in order
    col,        \* NBField.col
    r_row,      \* NBField.r_row: the index among all cells of the column
    v_row,      \* NBField.v_row: the index among non-blank cells
    host,       \* NBField.nb_host is the notebook (TRUE) or null
    collapsed,  \* NBContentField.collapsed
    deleting,   \* NBBlankField.deleting
    pending     \* delete timers not yet fired, per blank

vars == <<columns, col, r_row, v_row, host, collapsed, deleting, pending>>

\* The layout as one record, for the operators below.
L == [columns |-> columns, col |-> col, r_row |-> r_row, v_row |-> v_row,
      host |-> host]

SetL(l) == /\ columns' = l.columns /\ col' = l.col /\ r_row' = l.r_row
           /\ v_row' = l.v_row /\ host' = l.host

Position(c, f) == SelectInSeq(c, LAMBDA x : x = f)

\* Seeded faults: r_row counted from 1; v_row counting the blanks too.
SetIndexRowFromOne(l, k) ==
    LET c == l.columns[k + 1] IN
    [l EXCEPT
       !.col = [f \in Fields |-> IF f \in ToSet(c) THEN k ELSE l.col[f]],
       !.r_row = [f \in Fields |-> IF f \in ToSet(c) THEN Position(c, f) ELSE l.r_row[f]],
       !.v_row = [f \in Fields |-> IF f \in ToSet(c) /\ f \notin Blanks
                                   THEN Position(SelectSeq(c, LAMBDA x : x \notin Blanks), f) - 1
                                   ELSE l.v_row[f]]]

SetIndexCountsBlanks(l, k) ==
    LET c == l.columns[k + 1] IN
    [l EXCEPT
       !.col = [f \in Fields |-> IF f \in ToSet(c) THEN k ELSE l.col[f]],
       !.r_row = [f \in Fields |-> IF f \in ToSet(c) THEN Position(c, f) - 1 ELSE l.r_row[f]],
       !.v_row = [f \in Fields |-> IF f \in ToSet(c) /\ f \notin Blanks
                                   THEN Position(c, f) - 1 ELSE l.v_row[f]]]

\* NBColumn.setIndex(k): r_row and col of every cell, v_row of non-blanks.
SetIndex(l, k) ==
    LET c == l.columns[k + 1]
        real == SelectSeq(c, LAMBDA x : x \notin Blanks)
    IN [l EXCEPT
          !.col = [f \in Fields |-> IF f \in ToSet(c) THEN k ELSE l.col[f]],
          !.r_row = [f \in Fields |-> IF f \in ToSet(c) THEN Position(c, f) - 1
                                      ELSE l.r_row[f]],
          !.v_row = [f \in Fields |-> IF f \in ToSet(real) THEN Position(real, f) - 1
                                      ELSE l.v_row[f]]]

RECURSIVE SetIndexFrom(_, _)
SetIndexFrom(l, k) ==
    IF k >= Len(l.columns) THEN l ELSE SetIndexFrom(SetIndex(l, k), k + 1)

\* NBColumn.findRealIndex: the first cell whose v_row reaches the row.
FindRealIndex(l, k, v) ==
    LET c == l.columns[k + 1]
        hits == {i \in 1..Len(c) : l.v_row[c[i]] >= 0 /\ l.v_row[c[i]] >= v}
    IN IF hits = {} THEN Len(c) ELSE Min(hits) - 1

\* NBColumn.remove(field): splice it out when found.
ColumnRemove(l, k, f) ==
    LET c == l.columns[k + 1] IN
    IF f \notin ToSet(c) THEN l
    ELSE SetIndex([l EXCEPT !.columns[k + 1] = RemoveAt(c, Position(c, f)),
                            !.host[f] = FALSE, !.col[f] = -1, !.v_row[f] = -1], k)

\* NBColumn.add(field, row): insert before the real index, or push.
ColumnAdd(l, k, f, v) ==
    LET c == l.columns[k + 1]
        i == FindRealIndex(l, k, v)
    IN SetIndex([l EXCEPT !.columns[k + 1] = IF i < Len(c) THEN InsertAt(c, i + 1, f)
                                                      ELSE Append(c, f),
                          !.host[f] = TRUE, !.v_row[f] = -1], k)

\* The loop "for (const row of this.columns) row.remove(field)".
RECURSIVE RemoveFromAll(_, _, _)
RemoveFromAll(l, f, k) ==
    IF k >= Len(l.columns) THEN l ELSE RemoveFromAll(ColumnRemove(l, k, f), f, k + 1)

Clamp(x, lo, hi) == IF x < lo THEN lo ELSE IF x > hi THEN hi ELSE x

(***************************************************************************)
(* NB.addField(field, col, row).  With no column left the clamp yields -1  *)
(* and columns[-1].add throws after nb_host was set.                       *)
(***************************************************************************)
AddFieldOn(l, f, c, v) ==
    LET l0 == [l EXCEPT !.host[f] = TRUE]
        k == Clamp(c, 0, Len(l.columns) - 1)
    IN IF Len(l.columns) = 0 THEN l0
       ELSE ColumnAdd(RemoveFromAll(l0, f, 0), k, f, v)

\* Seeded fault: removeField taking column 0 for "no column" (col <= 0).
RemoveFieldOnSkipsFirst(l, f) ==
    IF l.col[f] <= 0 \/ ~l.host[f] \/ l.col[f] >= Len(l.columns) THEN l
    ELSE [ColumnRemove(l, l.col[f], f) EXCEPT
            !.col[f] = -1, !.v_row[f] = -1, !.r_row[f] = -1, !.host[f] = FALSE]

(***************************************************************************)
(* NB.removeField(field): false for a field with col < 0 or another host; *)
(* a col past the last column throws a TypeError before any change.        *)
(***************************************************************************)
RemoveFieldOn(l, f) ==
    IF l.col[f] < 0 \/ ~l.host[f] \/ l.col[f] >= Len(l.columns) THEN l
    ELSE [ColumnRemove(l, l.col[f], f) EXCEPT
            !.col[f] = -1, !.v_row[f] = -1, !.r_row[f] = -1, !.host[f] = FALSE]

\* NBColumn.cell_count: the cells that are not blanks.
CellCount(c) == Len(SelectSeq(c, LAMBDA x : x \notin Blanks))

\* Seeded fault: removeCol without the cell_count check.
RemoveColUnchecked(l, i) == SetIndexFrom([l EXCEPT !.columns = RemoveAt(@, i + 1)], 0)

\* NB.removeCol(i): throws for a column with a cell that is not a blank.
RemoveColOn(l, i) ==
    IF CellCount(l.columns[i + 1]) > 0 THEN l
    ELSE SetIndexFrom([l EXCEPT !.columns = RemoveAt(@, i + 1)], 0)

\* NB.insertCol(i): splice a new empty column in and reindex every column.
InsertColOn(l, i) == SetIndexFrom([l EXCEPT !.columns = InsertAt(@, i + 1, << >>)], 0)

(***************************************************************************)
(* NBColumn.swap(other, own_index) on column k: the field at own_index and *)
(* other exchange places, other's place found through its col and r_row.  *)
(***************************************************************************)
SwapOn(l, k, oi, other) ==
    LET own == l.columns[k + 1][oi + 1]
        ok == l.col[other]
    IN IF own = other \/ ~l.host[other] \/ ok < 0 \/ ok >= Len(l.columns) THEN l
       ELSE LET l1 == [l EXCEPT !.columns[k + 1][oi + 1] = other]
                l2 == [l1 EXCEPT !.columns[ok + 1][l.r_row[other] + 1] = own]
            IN SetIndex(SetIndex(l2, k), ok)

-----------------------------------------------------------------------------
\* The NB constructor: between one and three empty columns; NBField defaults.
Init ==
    /\ columns = [i \in 1..Clamp(InitCols, 1, 3) |-> << >>]
    /\ col = [f \in Fields |-> 0]
    /\ r_row = [f \in Fields |-> 0]
    /\ v_row = [f \in Fields |-> 0]
    /\ host = [f \in Fields |-> FALSE]
    /\ collapsed = [f \in Contents |-> FALSE]
    /\ deleting = [b \in Blanks |-> FALSE]
    /\ pending = [b \in Blanks |-> 0]

AddField(f, c, v) ==
    /\ SetL(AddFieldOn(L, f, c, v))
    /\ UNCHANGED <<collapsed, deleting, pending>>

RemoveField(f) ==
    /\ SetL(RemoveFieldOn(L, f))
    /\ UNCHANGED <<collapsed, deleting, pending>>

\* Assumption: the callers never remove the last column.
RemoveCol(i) ==
    /\ Len(columns) > 1
    /\ SetL(RemoveColOn(L, i))
    /\ UNCHANGED <<collapsed, deleting, pending>>

InsertCol(i) ==
    /\ Len(columns) < MaxCols
    /\ SetL(InsertColOn(L, i))
    /\ UNCHANGED <<collapsed, deleting, pending>>

\* Assumption: the field moved in is a content field, the only kind a
\* MoveFieldDragOperation is made for (NBContentField header, line 429).
Swap(k, oi, other) ==
    /\ other \in Contents
    /\ SetL(SwapOn(L, k, oi, other))
    /\ UNCHANGED <<collapsed, deleting, pending>>

\* NBBlankField.delete(): a hosted blank arms a timer bound to its host.
BlankDelete(b) ==
    /\ deleting' = [deleting EXCEPT ![b] = TRUE]
    /\ IF host[b]
       THEN pending[b] < MaxPending /\ pending' = [pending EXCEPT ![b] = @ + 1]
       ELSE UNCHANGED pending
    /\ UNCHANGED <<columns, col, r_row, v_row, host, collapsed>>

\* The timeout of delete() fires: nb_host.removeField(this).
TimerFires(b) ==
    /\ pending[b] > 0
    /\ pending' = [pending EXCEPT ![b] = @ - 1]
    /\ SetL(RemoveFieldOn(L, b))
    /\ UNCHANGED <<collapsed, deleting>>

\* NBContentField.setExpanded(e) on a hosted field.
SetExpanded(f, e) ==
    /\ host[f]
    /\ collapsed' = [collapsed EXCEPT ![f] = ~e]
    /\ UNCHANGED <<columns, col, r_row, v_row, host, deleting, pending>>

ColIndex == 0..(Len(columns) - 1)

Next ==
    \/ \E f \in Fields, c \in 0..(MaxCols - 1), v \in Rows : AddField(f, c, v)
    \/ \E f \in Fields : RemoveField(f)
    \/ \E i \in ColIndex : RemoveCol(i)
    \/ \E i \in 0..Len(columns) : InsertCol(i)
    \/ \E k \in ColIndex, f \in Fields :
          \E oi \in 0..(Len(columns[k + 1]) - 1) : Swap(k, oi, f)
    \/ \E b \in Blanks : BlankDelete(b) \/ TimerFires(b)
    \/ \E f \in Contents, e \in BOOLEAN : SetExpanded(f, e)

\* setTimeout callbacks run: a pending timer eventually fires.
Spec == Init /\ [][Next]_vars /\ \A b \in Blanks : WF_vars(TimerFires(b))

-----------------------------------------------------------------------------
TypeOK ==
    /\ Len(columns) \in 0..MaxCols
    /\ \A k \in 1..Len(columns) : \A i \in 1..Len(columns[k]) : columns[k][i] \in Fields
    /\ \A f \in Fields : /\ col[f] \in -1..(MaxCols - 1)
                         /\ r_row[f] \in -1..(Cardinality(Fields) - 1)
                         /\ v_row[f] \in -1..(Cardinality(Fields) - 1)
                         /\ host[f] \in BOOLEAN
    /\ collapsed \in [Contents -> BOOLEAN] /\ deleting \in [Blanks -> BOOLEAN]
    /\ pending \in [Blanks -> 0..MaxPending]

Places(f) == {<<k, i>> \in (1..Len(columns)) \X (1..Cardinality(Fields)) :
                 i <= Len(columns[k]) /\ columns[k][i] = f}

(***************************************************************************)
(* Every cell knows where it is: after any sequence of calls, a field in   *)
(* the layout occurs once, has the notebook as host, and its col, r_row    *)
(* and (for a content field) v_row give its column, its index among all   *)
(* cells and its index among the non-blank cells.  findRealIndex, swap and *)
(* removeField trust these indices.                                         *)
(***************************************************************************)
LayoutIndexed ==
    \A k \in 1..Len(columns) : \A i \in 1..Len(columns[k]) :
        LET f == columns[k][i] IN
        /\ Cardinality(Places(f)) = 1
        /\ host[f] /\ col[f] = k - 1 /\ r_row[f] = i - 1
        /\ f \in Contents => v_row[f] = CellCount(SubSeq(columns[k], 1, i - 1))

(***************************************************************************)
(* No content field is lost: a content field whose nb_host is the notebook *)
(* is in the layout, at the column and row it records.  removeCol refuses *)
(* a column holding one, and swap and addField move it without dropping   *)
(* it.                                                                     *)
(***************************************************************************)
ContentFieldsPlaced ==
    \A f \in Contents :
        host[f] => /\ col[f] \in ColIndex
                   /\ r_row[f] \in 0..(Len(columns[col[f] + 1]) - 1)
                   /\ columns[col[f] + 1][r_row[f] + 1] = f

(***************************************************************************)
(* A deleted blank goes away: when NBBlankField.delete() has armed its     *)
(* timer while the blank sits in the layout, the blank is eventually out   *)
(* of the layout, whatever swaps, inserts and column changes run before    *)
(* the 100 ms timeout calls nb_host.removeField with the blank's col,      *)
(* which those calls may have changed meanwhile.                           *)
(***************************************************************************)
DeletedBlankLeaves ==
    \A b \in Blanks : (pending[b] > 0 /\ Places(b) # {}) ~> Places(b) = {}

=============================================================================
