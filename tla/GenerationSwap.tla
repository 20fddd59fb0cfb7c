--------------------------- MODULE GenerationSwap ---------------------------
(***************************************************************************)
(* What hot swapping promises its readers: while the gate is open a reader *)
(* pins the current version, a version is disposed of only once nobody     *)
(* pins it and it is no longer the current one (or the gate is shut), and  *)
(* at most one version besides the current one is ever live.               *)
(* FirewallManager implements this specification.                          *)
(***************************************************************************)
EXTENDS Integers, FiniteSets

CONSTANTS Readers, Versions, NoVersion

VARIABLES
    gate,     \* "unopened", "open" or "shut"
    current,  \* the version that new readers pin
    live,     \* the versions that were started and not disposed of
    pinned    \* pinned[r]: the version reader r uses, or NoVersion

Init ==
    /\ gate = "unopened"
    /\ current \in Versions
    /\ live = {}
    /\ pinned = [r \in Readers |-> NoVersion]

(* The first version starts and serves. *)
Open ==
    /\ gate = "unopened"
    /\ gate' = "open"
    /\ live' = {current}
    /\ UNCHANGED <<current, pinned>>

Shut ==
    /\ gate # "shut"
    /\ gate' = "shut"
    /\ UNCHANGED <<current, live, pinned>>

(* A successor may start only when no other version lingers. *)
Prepare(v) ==
    /\ gate = "open"
    /\ v # current
    /\ live \subseteq {current}
    /\ live' = live \cup {v}
    /\ UNCHANGED <<gate, current, pinned>>

Publish(v) ==
    /\ gate = "open"
    /\ v \in live
    /\ current' = v
    /\ UNCHANGED <<gate, live, pinned>>

Pin(r) ==
    /\ gate = "open"
    /\ pinned[r] = NoVersion
    /\ current \in live
    /\ pinned' = [pinned EXCEPT ![r] = current]
    /\ UNCHANGED <<gate, current, live>>

Unpin(r) ==
    /\ pinned[r] # NoVersion
    /\ pinned' = [pinned EXCEPT ![r] = NoVersion]
    /\ UNCHANGED <<gate, current, live>>

Dispose(v) ==
    /\ v \in live
    /\ v # current \/ gate = "shut"
    /\ \A r \in Readers : pinned[r] # v
    /\ live' = live \ {v}
    /\ UNCHANGED <<gate, current, pinned>>

Next ==
    \/ Open \/ Shut
    \/ \E v \in Versions : Prepare(v) \/ Publish(v) \/ Dispose(v)
    \/ \E r \in Readers : Pin(r) \/ Unpin(r)

Spec == Init /\ [][Next]_<<gate, current, live, pinned>>

=============================================================================
