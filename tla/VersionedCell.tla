---------------------------- MODULE VersionedCell ----------------------------
(***************************************************************************)
(* What StateStore promises of one grain's state: a cell that is written,   *)
(* erased, and replaced on condition.  A conditional write names what its   *)
(* writer last saw there, and goes through only while that is still there.  *)
(* Writes are numbered; 0 is the empty cell.                                *)
(***************************************************************************)
EXTENDS Integers

CONSTANT Writers

VARIABLES
    cell,       \* the number of the write that is in the cell
    last,       \* writes so far
    seen,       \* writer -> the write its ETag stands for
    trusted     \* FALSE once something happened the promise does not cover

cellvars == <<cell, last, seen, trusted>>

CellInit == cell = 0 /\ last = 0 /\ seen = [w \in Writers |-> 0] /\ trusted = TRUE

\* A writer may end, and with it what it had seen.
Forgets == seen' \in [Writers -> Nat] /\ \A w \in Writers : seen'[w] \in {0, seen[w]}

Fresh == last' = last + 1 /\ cell' = last'

Write == Fresh /\ Forgets

Erase == cell' = 0 /\ last' = last /\ Forgets

See(w) == seen' = [seen EXCEPT ![w] = cell] /\ UNCHANGED <<cell, last>>

Replace(w) ==
    /\ seen[w] = cell
    /\ Fresh
    /\ seen' = [seen EXCEPT ![w] = cell']

Forget == Forgets /\ UNCHANGED <<cell, last>>

CellNext ==
    \/ trusted = TRUE /\ (Write \/ Erase \/ Forget \/ \E w \in Writers : See(w) \/ Replace(w))
    \/ trusted' = FALSE

CellSpec == CellInit /\ [][CellNext]_cellvars
=============================================================================
