------------------------------- MODULE Cells -------------------------------
(***************************************************************************)
(* What the sequencer's modules take its files for: cells that hold the    *)
(* set with the value last saved, and the empty set before the first save. *)
(***************************************************************************)
CONSTANTS Path, Value

VARIABLE cell

Init == cell = [p \in Path |-> {}]

\* saveState, saveNotes, saveWithdrawals, saveUsers
Save(p, v) == cell' = [cell EXCEPT ![p] = {v}]

Next == \E p \in Path, v \in Value : Save(p, v)

Spec == Init /\ [][Next]_cell
=============================================================================
