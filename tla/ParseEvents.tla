----------------------------- MODULE ParseEvents -----------------------------
(***************************************************************************)
(* What the engine promises its sink (spec sections 6 and 8): the stream   *)
(* of ParseActions describing the parse of one input.                      *)
(*   - Shifts come in input order; a Skip comes right before a Shift       *)
(*     exactly when that Shift does not start where the previous one       *)
(*     ended; no Shift reaches past the end of the input.                  *)
(*   - A Reduce never folds more symbols than the stream has produced and  *)
(*     not yet folded (the tree a consumer builds never underflows).      *)
(*   - A session ends with exactly one terminal action (Accept, Error, or  *)
(*     Token for a scanner) and nothing follows it.                       *)
(*   - Accept comes only once every byte of the input has been shifted,    *)
(*     unless the caller gave a goal production (RootAccept).              *)
(* Events are abstracted to their type and the fields above.              *)
(***************************************************************************)
EXTENDS Integers, Sequences, SequencesExt

CONSTANTS Inputs, RootAccept

VARIABLES input, events

ShiftsOf(ev) == SelectSeq(ev, LAMBDA a : a.type = "Shift")

\* The byte offset where the next Shift is expected to start.
NextOffset ==
    LET s == ShiftsOf(events) IN
    IF s = << >> THEN 0 ELSE Last(s).boff + Last(s).blen

\* Symbols produced and not yet folded by a Reduce.
Nodes ==
    FoldLeft(LAMBDA n, a : CASE a.type = "Shift" -> n + 1
                             [] a.type = "Reduce" -> n - (a.length - 1)
                             [] OTHER -> n,
             0, events)

Ended == events # << >> /\ Last(events).type \in {"Accept", "Error", "Token"}

Init == input \in Inputs /\ events = << >>

Shift ==
    /\ ~Ended
    /\ \E off \in NextOffset..Len(input), len \in 0..Len(input) :
          /\ off + len <= Len(input)
          /\ events' = events \o
                (IF off > NextOffset THEN << [type |-> "Skip"] >> ELSE << >>)
                \o << [type |-> "Shift", boff |-> off, blen |-> len] >>
    /\ UNCHANGED input

Reduce ==
    /\ ~Ended
    /\ \E n \in 0..Nodes :
          events' = Append(events, [type |-> "Reduce", length |-> n])
    /\ UNCHANGED input

Accept ==
    /\ ~Ended
    /\ RootAccept \/ NextOffset = Len(input)
    /\ events' = Append(events, [type |-> "Accept"])
    /\ UNCHANGED input

Error ==
    /\ ~Ended
    /\ events' = Append(events, [type |-> "Error"])
    /\ UNCHANGED input

Scanned ==
    /\ ~Ended
    /\ events' = Append(events, [type |-> "Token"])
    /\ UNCHANGED input

Next == Shift \/ Reduce \/ Accept \/ Error \/ Scanned

Spec == Init /\ [][Next]_<< input, events >>
=============================================================================
