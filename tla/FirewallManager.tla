-------------------------- MODULE FirewallManager --------------------------
(***************************************************************************)
(* FirewallManager (src/llm_ffw/manager.py): one firewall generation is    *)
(* active; a reload starts a candidate generation, makes it active while   *)
(* requests keep running, waits for the requests that still lease the      *)
(* previous generation, and closes it.                                     *)
(*                                                                         *)
(* Sections under `_condition' are actions.  `_reload_lock' and            *)
(* `_lifecycle_lock' are held across blocking calls, so their holders are  *)
(* variables; a wait on the condition is the guard of the action after it. *)
(* The locals of a reload or a close are global variables here: only the   *)
(* holder of `_reload_lock' has any.  A generation is known by an          *)
(* identifier, reused once nothing refers to it any more.                  *)
(***************************************************************************)
EXTENDS Integers, FiniteSets

CONSTANTS
    Requests,        \* concurrent sanitize_* callers
    Operators,       \* threads that start, reload, restart and close
    Generations,     \* identifiers of firewall generations
    Catalogs,        \* secret-catalog coordinates (catalog_id and version)
    Builtin,         \* the coordinates of BUILTIN_SECRET_CATALOG
    CleanupMayFail,  \* whether Firewall.close and Firewall.kill may raise
    None             \* no thread, no generation, no catalog

ASSUME ManagerAssumption ==
    /\ IsFiniteSet(Requests)
    /\ Builtin \in Catalogs
    /\ CleanupMayFail \in BOOLEAN
    /\ None \notin Operators \cup Generations \cup Catalogs

VARIABLES
    state,          \* FirewallManagerState
    active,         \* the generation new requests lease
    retired,        \* generations replaced and not yet closed (_retired)
    inflight,       \* inflight[g]: _Generation.in_flight
    lease,          \* lease[r]: the generation request r holds, or None
    fw,             \* fw[g]: the firewall of generation g
    catalog,        \* catalog[g]: the coordinates g was built with
    reloadLock,     \* the holder of _reload_lock
    lifecycleLock,  \* the holder of _lifecycle_lock
    op,             \* op[t]: where thread t is
    restarting,     \* the reload is a restart (allow_unchanged)
    wanted,         \* the coordinates a reload requests
    candidate,      \* the generation a reload builds
    previous,       \* the generation a reload replaced
    toClose,        \* the generations a close has still to close
    failed          \* a close has met a failure

leaseVars == <<inflight, lease>>
jobVars   == <<restarting, wanted, candidate, previous>>
closeVars == <<toClose, failed>>
lockVars  == <<reloadLock, lifecycleLock>>
vars == <<state, active, retired, inflight, lease, fw, catalog, reloadLock,
          lifecycleLock, op, restarting, wanted, candidate, previous, toClose, failed>>

ManagerStates == {"new", "starting", "running", "reloading", "closing", "closed",
                  "broken"}

(* A firewall is new, running, crashed (a worker died or a request timed out *)
(* while it ran), closed, or failed (it did not start or did not shut down): *)
(* the pool calls crashed and failed alike BROKEN.  A candidate that neither *)
(* close nor kill could stop is abandoned.                                   *)
FirewallStates == {"new", "running", "crashed", "failed", "closed", "abandoned"}

Points == {"idle", "starting", "checking", "building", "probing", "discarding",
           "restoring", "activating", "draining", "cleaning", "closeLocking",
           "closeDraining", "closing"}

Serving == state \in {"running", "reloading"}

Started(g) == fw[g] \in {"running", "crashed"}

(* What the objects of the program still refer to. *)
Referenced == {active, candidate, previous} \cup retired \cup {lease[r] : r \in Requests}

ThreadGoto(t, point) == op' = [op EXCEPT ![t] = point]

(* Firewall.close: it may raise unless there is nothing to shut down. *)
Closes(g) ==
    \/ fw' = [fw EXCEPT ![g] = "closed"]
    \/ /\ CleanupMayFail
       /\ fw[g] \notin {"new", "closed"}
       /\ fw' = [fw EXCEPT ![g] = "failed"]

(* A reload gives _reload_lock back and forgets its locals. *)
EndReload(t) ==
    /\ reloadLock' = None
    /\ restarting' = FALSE
    /\ wanted' = None
    /\ candidate' = None
    /\ previous' = None
    /\ ThreadGoto(t, "idle")

-----------------------------------------------------------------------------
Init ==
    /\ state = "new"
    /\ active \in Generations
    /\ retired = {}
    /\ inflight = [g \in Generations |-> 0]
    /\ lease = [r \in Requests |-> None]
    /\ fw = [g \in Generations |-> IF g = active THEN "new" ELSE "closed"]
    /\ catalog = [g \in Generations |-> Builtin]
    /\ reloadLock = None
    /\ lifecycleLock = None
    /\ op = [t \in Operators |-> "idle"]
    /\ restarting = FALSE
    /\ wanted = None
    /\ candidate = None
    /\ previous = None
    /\ toClose = {}
    /\ failed = FALSE

-----------------------------------------------------------------------------
(* Leases: _acquire_generation and _release_generation.                      *)

(* Mutant of Acquire: a closing manager still admits requests. *)
AcquireWhileClosing(r) ==
    /\ lease[r] = None
    /\ Serving \/ state = "closing"
    /\ lease' = [lease EXCEPT ![r] = active]
    /\ inflight' = [inflight EXCEPT ![active] = @ + 1]
    /\ UNCHANGED <<state, active, retired, fw, catalog, lockVars, op, jobVars, closeVars>>

(* A request in any other state raises FirewallUnavailableError. *)
Acquire(r) ==
    /\ lease[r] = None
    /\ Serving
    /\ lease' = [lease EXCEPT ![r] = active]
    /\ inflight' = [inflight EXCEPT ![active] = @ + 1]
    /\ UNCHANGED <<state, active, retired, fw, catalog, lockVars, op, jobVars, closeVars>>

(* Mutant of Release: the lease is released a second time. *)
ReleaseTwice(r) ==
    /\ lease[r] # None
    /\ inflight' = [inflight EXCEPT ![lease[r]] = @ - 1]
    /\ UNCHANGED <<state, active, retired, lease, fw, catalog, lockVars, op, jobVars,
                   closeVars>>

(* Mutant of Release: it releases the generation that is active by now. *)
ReleaseActive(r) ==
    /\ lease[r] # None
    /\ inflight' = [inflight EXCEPT ![active] = @ - 1]
    /\ state' = IF inflight[active] < 1 THEN "broken" ELSE state
    /\ lease' = [lease EXCEPT ![r] = None]
    /\ UNCHANGED <<active, retired, fw, catalog, lockVars, op, jobVars, closeVars>>

(* The request ended, with a result or an error; an underflow breaks the     *)
(* manager.                                                                  *)
Release(r) ==
    /\ lease[r] # None
    /\ inflight' = [inflight EXCEPT ![lease[r]] = @ - 1]
    /\ state' = IF inflight[lease[r]] < 1 THEN "broken" ELSE state
    /\ lease' = [lease EXCEPT ![r] = None]
    /\ UNCHANGED <<active, retired, fw, catalog, lockVars, op, jobVars, closeVars>>

(* A worker of a generation dies, or a timed-out request quarantines it. *)
Crash(g) ==
    /\ fw[g] = "running"
    /\ fw' = [fw EXCEPT ![g] = "crashed"]
    /\ UNCHANGED <<state, active, retired, leaseVars, catalog, lockVars, op, jobVars,
                   closeVars>>

-----------------------------------------------------------------------------
(* start(): a serving manager is returned as it is; any other but NEW raises.*)

StartBegin(t) ==
    /\ op[t] = "idle"
    /\ lifecycleLock = None
    /\ state = "new"
    /\ state' = "starting"
    /\ lifecycleLock' = t
    /\ ThreadGoto(t, "starting")
    /\ UNCHANGED <<active, retired, leaseVars, fw, catalog, reloadLock, jobVars, closeVars>>

StartEnds(t) ==
    /\ op[t] = "starting"
    /\ \/ state' = "running" /\ fw' = [fw EXCEPT ![active] = "running"]
       \/ state' = "broken" /\ fw' = [fw EXCEPT ![active] = "failed"]
    /\ lifecycleLock' = None
    /\ ThreadGoto(t, "idle")
    /\ UNCHANGED <<active, retired, leaseVars, catalog, reloadLock, jobVars, closeVars>>

-----------------------------------------------------------------------------
(* reload(), reload_builtin_catalog() and restart().                         *)

(* reload_builtin_catalog is a reload of Builtin. *)
Reload(t, c) ==
    /\ op[t] = "idle"
    /\ reloadLock = None
    /\ reloadLock' = t
    /\ wanted' = c
    /\ ThreadGoto(t, "checking")
    /\ UNCHANGED <<state, active, retired, leaseVars, fw, catalog, lifecycleLock,
                   restarting, candidate, previous, closeVars>>

(* Mutant of Restart: the built-in catalog replaces that of the generation. *)
RestartBuiltin(t) ==
    /\ op[t] = "idle"
    /\ reloadLock = None
    /\ reloadLock' = t
    /\ restarting' = TRUE
    /\ wanted' = Builtin
    /\ ThreadGoto(t, "checking")
    /\ UNCHANGED <<state, active, retired, leaseVars, fw, catalog, lifecycleLock,
                   candidate, previous, closeVars>>

(* The catalog is read under _reload_lock, in whatever state. *)
Restart(t) ==
    /\ op[t] = "idle"
    /\ reloadLock = None
    /\ reloadLock' = t
    /\ restarting' = TRUE
    /\ wanted' = catalog[active]
    /\ ThreadGoto(t, "checking")
    /\ UNCHANGED <<state, active, retired, leaseVars, fw, catalog, lifecycleLock,
                   candidate, previous, closeVars>>

(* Not running, a retired generation left behind, or nothing to change. *)
Refused ==
    \/ state # "running"
    \/ retired # {}
    \/ ~restarting /\ wanted = catalog[active]

RefuseReload(t) ==
    /\ op[t] = "checking"
    /\ Refused
    /\ EndReload(t)
    /\ UNCHANGED <<state, active, retired, leaseVars, fw, catalog, lifecycleLock, closeVars>>

BeginReload(t) ==
    /\ op[t] = "checking"
    /\ ~Refused
    /\ state' = "reloading"
    /\ ThreadGoto(t, "building")
    /\ UNCHANGED <<active, retired, leaseVars, fw, catalog, lockVars, jobVars, closeVars>>

Build(t, g) ==
    /\ op[t] = "building"
    /\ g \notin Referenced
    /\ candidate' = g
    /\ fw' = [fw EXCEPT ![g] = "new"]
    /\ catalog' = [catalog EXCEPT ![g] = wanted]
    /\ ThreadGoto(t, "probing")
    /\ UNCHANGED <<state, active, retired, leaseVars, lockVars, restarting, wanted,
                   previous, closeVars>>

(* The constructor raises: there is no candidate to discard. *)
BuildFails(t) ==
    /\ op[t] = "building"
    /\ ThreadGoto(t, "restoring")
    /\ UNCHANGED <<state, active, retired, leaseVars, fw, catalog, lockVars, jobVars,
                   closeVars>>

(* candidate.start(), while the active generation keeps serving. *)
CandidateStarts(t) ==
    /\ op[t] = "probing"
    /\ fw' = [fw EXCEPT ![candidate] = "running"]
    /\ ThreadGoto(t, "activating")
    /\ UNCHANGED <<state, active, retired, leaseVars, catalog, lockVars, jobVars, closeVars>>

CandidateFails(t) ==
    /\ op[t] = "probing"
    /\ fw' = [fw EXCEPT ![candidate] = "failed"]
    /\ ThreadGoto(t, "discarding")
    /\ UNCHANGED <<state, active, retired, leaseVars, catalog, lockVars, jobVars, closeVars>>

(* close, then kill if that raises; a failing kill is ignored. *)
DiscardCandidate(t) ==
    /\ op[t] = "discarding"
    /\ \/ fw' = [fw EXCEPT ![candidate] = "closed"]
       \/ CleanupMayFail /\ fw' = [fw EXCEPT ![candidate] = "abandoned"]
    /\ ThreadGoto(t, "restoring")
    /\ UNCHANGED <<state, active, retired, leaseVars, catalog, lockVars, jobVars, closeVars>>

GiveUp(t) ==
    /\ op[t] = "restoring"
    /\ state' = IF state = "reloading" THEN "running" ELSE state
    /\ EndReload(t)
    /\ UNCHANGED <<active, retired, leaseVars, fw, catalog, lifecycleLock, closeVars>>

(* _activate_and_drain: new requests lease the candidate from here on. *)
Activate(t) ==
    /\ op[t] = "activating"
    /\ IF state = "reloading"
       THEN /\ previous' = active
            /\ active' = candidate
            /\ retired' = retired \cup {active}
            /\ state' = "running"
            /\ ThreadGoto(t, "draining")
       ELSE /\ ThreadGoto(t, "discarding")
            /\ UNCHANGED <<previous, active, retired, state>>
    /\ UNCHANGED <<leaseVars, fw, catalog, lockVars, restarting, wanted, candidate, closeVars>>

(* Mutant of Drained: the leases of the previous generation are not awaited. *)
DrainIgnoresLeases(t) ==
    /\ op[t] = "draining"
    /\ ThreadGoto(t, "cleaning")
    /\ UNCHANGED <<state, active, retired, leaseVars, fw, catalog, lockVars, jobVars,
                   closeVars>>

Drained(t) ==
    /\ op[t] = "draining"
    /\ inflight[previous] = 0 \/ state # "running"
    /\ IF state = "running"
       THEN ThreadGoto(t, "cleaning") /\ UNCHANGED <<reloadLock, jobVars>>
       ELSE EndReload(t)
    /\ UNCHANGED <<state, active, retired, leaseVars, fw, catalog, lifecycleLock, closeVars>>

(* A failing close leaves the previous generation in _retired. *)
CleanPrevious(t) ==
    /\ op[t] = "cleaning"
    /\ Closes(previous)
    /\ retired' = IF fw'[previous] = "closed" THEN retired \ {previous} ELSE retired
    /\ EndReload(t)
    /\ UNCHANGED <<state, active, leaseVars, catalog, lifecycleLock, closeVars>>

-----------------------------------------------------------------------------
(* close(): both locks are held until it returns.                            *)

(* Mutant of LockClose: close does not wait for a reload to end. *)
CloseIgnoresReload(t) ==
    /\ op[t] = "idle"
    /\ ThreadGoto(t, "closeLocking")
    /\ UNCHANGED <<state, active, retired, leaseVars, fw, catalog, lockVars, jobVars,
                   closeVars>>

LockClose(t) ==
    /\ op[t] = "idle"
    /\ reloadLock = None
    /\ reloadLock' = t
    /\ ThreadGoto(t, "closeLocking")
    /\ UNCHANGED <<state, active, retired, leaseVars, fw, catalog, lifecycleLock, jobVars,
                   closeVars>>

(* Mutant of CloseBegin: the retired generation is forgotten. *)
CloseActiveOnly(t) ==
    /\ op[t] = "closeLocking"
    /\ lifecycleLock = None
    /\ state # "closed"
    /\ lifecycleLock' = t
    /\ state' = "closing"
    /\ toClose' = {active}
    /\ ThreadGoto(t, "closeDraining")
    /\ UNCHANGED <<active, retired, leaseVars, fw, catalog, reloadLock, jobVars, failed>>

CloseBegin(t) ==
    /\ op[t] = "closeLocking"
    /\ lifecycleLock = None
    /\ state # "closed"
    /\ lifecycleLock' = t
    /\ state' = "closing"
    /\ toClose' = {active} \cup retired
    /\ ThreadGoto(t, "closeDraining")
    /\ UNCHANGED <<active, retired, leaseVars, fw, catalog, reloadLock, jobVars, failed>>

AlreadyClosed(t) ==
    /\ op[t] = "closeLocking"
    /\ lifecycleLock = None
    /\ state = "closed"
    /\ reloadLock' = None
    /\ ThreadGoto(t, "idle")
    /\ UNCHANGED <<state, active, retired, leaseVars, fw, catalog, lifecycleLock, jobVars,
                   closeVars>>

CloseDrained(t) ==
    /\ op[t] = "closeDraining"
    /\ \A g \in toClose : inflight[g] = 0
    /\ ThreadGoto(t, "closing")
    /\ UNCHANGED <<state, active, retired, leaseVars, fw, catalog, lockVars, jobVars, closeVars>>

(* The active generation first; a failure does not stop the loop. *)
CloseGeneration(t, g) ==
    /\ op[t] = "closing"
    /\ g \in toClose
    /\ active \in toClose => g = active
    /\ Closes(g)
    /\ toClose' = toClose \ {g}
    /\ failed' = (failed \/ fw'[g] = "failed")
    /\ UNCHANGED <<state, active, retired, leaseVars, catalog, lockVars, op, jobVars>>

CloseFinish(t) ==
    /\ op[t] = "closing"
    /\ toClose = {}
    /\ IF failed
       THEN state' = "broken" /\ UNCHANGED retired
       ELSE state' = "closed" /\ retired' = {}
    /\ failed' = FALSE
    /\ reloadLock' = None
    /\ lifecycleLock' = None
    /\ ThreadGoto(t, "idle")
    /\ UNCHANGED <<active, leaseVars, fw, catalog, jobVars, toClose>>

-----------------------------------------------------------------------------
OperatorCall(t) ==
    \/ StartBegin(t) \/ Restart(t) \/ LockClose(t)
    \/ \E c \in Catalogs : Reload(t, c)

OperatorStep(t) ==
    \/ StartEnds(t)
    \/ RefuseReload(t) \/ BeginReload(t) \/ BuildFails(t)
    \/ \E g \in Generations : Build(t, g) \/ CloseGeneration(t, g)
    \/ CandidateStarts(t) \/ CandidateFails(t) \/ DiscardCandidate(t) \/ GiveUp(t)
    \/ Activate(t) \/ Drained(t) \/ CleanPrevious(t)
    \/ CloseBegin(t) \/ AlreadyClosed(t) \/ CloseDrained(t) \/ CloseFinish(t)

Next ==
    \/ \E r \in Requests : Acquire(r) \/ Release(r)
    \/ \E g \in Generations : Crash(g)
    \/ \E t \in Operators : OperatorCall(t) \/ OperatorStep(t)

Spec == Init /\ [][Next]_vars

(* A request ends (its timeout bounds it) and a thread inside a call keeps   *)
(* running; nobody is required to send a request or to call an operation.    *)
FairSpec ==
    /\ Spec
    /\ \A r \in Requests : WF_vars(Release(r))
    /\ \A t \in Operators : WF_vars(OperatorStep(t))

-----------------------------------------------------------------------------
(* Every variable has a value the code can give it. *)
TypeOK ==
    /\ state \in ManagerStates
    /\ active \in Generations
    /\ retired \in SUBSET Generations
    /\ inflight \in [Generations -> Nat]
    /\ lease \in [Requests -> Generations \cup {None}]
    /\ fw \in [Generations -> FirewallStates]
    /\ catalog \in [Generations -> Catalogs]
    /\ reloadLock \in Operators \cup {None}
    /\ lifecycleLock \in Operators \cup {None}
    /\ op \in [Operators -> Points]
    /\ restarting \in BOOLEAN
    /\ wanted \in Catalogs \cup {None}
    /\ candidate \in Generations \cup {None}
    /\ previous \in Generations \cup {None}
    /\ toClose \in SUBSET Generations
    /\ failed \in BOOLEAN

(* The counter of a generation is the number of requests that lease it, also *)
(* for a generation that was replaced meanwhile: the underflow that would    *)
(* break the manager cannot happen, and no drain waits for a lost lease.     *)
Lessees(g) == {r \in Requests : lease[r] = g}
LeasesCounted == \A g \in Generations : inflight[g] = Cardinality(Lessees(g))

(* A reload that is past its checks is not interrupted before it activates   *)
(* its candidate: the branches of _activate_and_drain for a closing or       *)
(* broken manager are not reached, since close waits for _reload_lock.  And  *)
(* the manager is RELOADING only while someone reloads: however a candidate  *)
(* fails, the reload that gives it up leaves a manager that can be reloaded, *)
(* restarted or closed again.                                                *)
ReloadUndisturbed ==
    \A t \in Operators : op[t] \in {"building", "probing", "activating"} => state = "reloading"

SomeoneReloads ==
    state = "reloading" =>
        \E t \in Operators :
            op[t] \in {"building", "probing", "activating", "discarding", "restoring"}

ReloadIsExclusive == ReloadUndisturbed /\ SomeoneReloads

(* A generation that was not shut down is one the manager still refers to,   *)
(* and a closed manager shut all of them down, the one a failed cleanup left *)
(* in _retired included: only a candidate that resisted kill is lost.        *)
NothingLeaks ==
    \A g \in Generations : fw[g] \notin {"closed", "abandoned"} =>
        g \in {active, candidate} \cup retired /\ state # "closed"

(* A restart keeps the catalog of the generation it replaces, even when      *)
(* other threads reload meanwhile, and a reload never installs the           *)
(* coordinates that are already active.                                      *)
CatalogChangesAsAsked ==
    [][active' # active => (restarting <=> catalog'[active'] = catalog[active])]_vars

(* Every operation returns: a reload drains the old generation although new  *)
(* requests keep arriving, and a close drains every generation.              *)
OperatorsReturn == \A t \in Operators : op[t] # "idle" ~> op[t] = "idle"

-----------------------------------------------------------------------------
(* The manager implements hot swapping: the gate is open while it serves, a  *)
(* version is live while its workers run or have crashed, and a lease pins.  *)
Gate == CASE state \in {"new", "starting"} -> "unopened"
          [] Serving                      -> "open"
          [] OTHER                        -> "shut"

Swap == INSTANCE GenerationSwap WITH
    Readers <- Requests, Versions <- Generations, NoVersion <- None,
    gate <- Gate, current <- active,
    live <- {g \in Generations : Started(g)}, pinned <- lease

ImplementsSwap == Swap!Spec

-----------------------------------------------------------------------------
(* An inductive invariant for the leases, the locks and the course of a      *)
(* reload.                                                                   *)

(* The two locks are held wherever the code is inside them, so that at most  *)
(* one thread reloads or closes and at most one starts or closes.            *)
LocksHeld ==
    \A t \in Operators :
        /\ op[t] \notin {"idle", "starting"} => reloadLock = t
        /\ op[t] \in {"starting", "closeDraining", "closing"} => lifecycleLock = t
        /\ op[t] = "starting" => state = "starting"

(* The locals of a reload are assigned before they are used. *)
LocalsAssigned ==
    \A t \in Operators :
        /\ op[t] \in {"checking", "building"} => wanted \in Catalogs
        /\ op[t] \in {"probing", "discarding", "activating"} => candidate \in Generations
        /\ op[t] \in {"draining", "cleaning"} => previous \in Generations

(* A restart asks for the active catalog, a reload past its checks for       *)
(* another one, and the candidate is built with the one asked for.           *)
CatalogPlanned ==
    /\ reloadLock = None => ~restarting
    /\ \A t \in Operators :
        /\ op[t] = "checking" /\ restarting => wanted = catalog[active]
        /\ op[t] \in {"building", "probing", "activating"} =>
              (restarting <=> wanted = catalog[active])
        /\ op[t] \in {"probing", "activating"} => catalog[candidate] = wanted
        /\ op[t] \in {"closeLocking", "closeDraining", "closing"} => ~restarting

ReloadInv ==
    /\ TypeOK
    /\ LeasesCounted
    /\ ReloadIsExclusive
    /\ LocksHeld
    /\ LocalsAssigned
    /\ CatalogPlanned

(* No firewall is lost from sight: a candidate is discarded before a failed  *)
(* reload forgets it and is the active generation when a successful one      *)
(* does, the previous generation stays in _retired until it is closed, and   *)
(* whatever a close has been through is closed unless it has met a failure.  *)
FirewallsAccounted ==
    /\ NothingLeaks
    /\ reloadLock = None => candidate = None
    /\ \A t \in Operators :
        /\ op[t] \in {"discarding", "restoring"} => state = "reloading"
        /\ op[t] = "restoring" /\ candidate # None => fw[candidate] \in {"closed", "abandoned"}
        /\ op[t] \in {"checking", "building", "closeLocking", "closeDraining", "closing"} =>
              candidate = None
        /\ op[t] \in {"draining", "cleaning"} =>
              state = "running" /\ previous \in retired /\ candidate = active
        /\ op[t] \in {"closeDraining", "closing"} =>
              /\ state = "closing"
              /\ toClose \subseteq {active} \cup retired
              /\ failed \/ \A g \in ({active} \cup retired) \ toClose : fw[g] = "closed"

(* What hot swapping needs besides: the active generation is started while   *)
(* the manager serves and none is before, only a manager without retired     *)
(* generations builds a candidate, and what is being closed has no lease.    *)
SwapPrepared ==
    /\ state \in {"new", "starting"} => \A g \in Generations : ~Started(g)
    /\ Serving => Started(active)
    /\ state = "reloading" => retired = {}
    /\ \A t \in Operators :
        /\ op[t] = "probing" => fw[candidate] = "new"
        /\ op[t] = "discarding" => fw[candidate] = "failed"
        /\ op[t] = "activating" => Started(candidate)
        /\ op[t] \in {"probing", "discarding", "activating"} => candidate # active
        /\ op[t] \in {"draining", "cleaning"} => previous # active
        /\ op[t] = "cleaning" => inflight[previous] = 0
        /\ op[t] = "closing" => \A g \in toClose : inflight[g] = 0

SwapInv == ReloadInv /\ FirewallsAccounted /\ SwapPrepared

=============================================================================
