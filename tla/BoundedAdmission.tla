-------------------------- MODULE BoundedAdmission --------------------------
(***************************************************************************)
(* What a bounded pool promises its callers, whatever executes the work: a *)
(* gate opens at most once and never reopens, work enters only through the *)
(* open gate, at most Capacity pieces are inside, and what entered leaves  *)
(* once.  ProcessPool and AsyncFacade implement this specification.        *)
(***************************************************************************)
EXTENDS Integers, FiniteSets

CONSTANTS
    Work,      \* a finite set of pieces of work
    Capacity   \* how many may be inside at once

VARIABLES
    gate,   \* "unopened", "open" or "shut"
    inside  \* the pieces of work admitted and not yet released

Init ==
    /\ gate \in {"unopened", "open"}
    /\ inside = {}

Open ==
    /\ gate = "unopened"
    /\ gate' = "open"
    /\ UNCHANGED inside

Shut ==
    /\ gate # "shut"
    /\ gate' = "shut"
    /\ UNCHANGED inside

Enter(w) ==
    /\ gate = "open"
    /\ w \notin inside
    /\ Cardinality(inside) < Capacity
    /\ inside' = inside \cup {w}
    /\ UNCHANGED gate

Leave(w) ==
    /\ w \in inside
    /\ inside' = inside \ {w}
    /\ UNCHANGED gate

Next == Open \/ Shut \/ \E w \in Work : Enter(w) \/ Leave(w)

Spec == Init /\ [][Next]_<<gate, inside>>

=============================================================================
