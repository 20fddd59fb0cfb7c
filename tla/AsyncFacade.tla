---------------------------- MODULE AsyncFacade ----------------------------
(***************************************************************************)
(* AsyncFirewall, AsyncFirewallManager and their _AsyncRequestRunner       *)
(* (src/llm_ffw/async_facade.py).  One event loop runs the request tasks   *)
(* and the lifecycle tasks; what they do between two awaits is one action. *)
(* Each request runs the synchronous facade in a bounded thread pool, and  *)
(* its slot belongs to the thread's work: not to the task, which may be    *)
(* cancelled.  Cancelling a lifecycle task changes nothing (its cleanup is *)
(* awaited with a shield), so no action models it.                         *)
(***************************************************************************)
EXTENDS Integers, FiniteSets

CONSTANTS
    Requests,      \* request tasks
    Closers,       \* tasks that call start, reload, close, terminate, kill
    MaxInFlight,   \* slots of the asyncio semaphore
    MaxWorkers,    \* threads of the request executor
    CloseMayFail,  \* whether the synchronous close, terminate or kill may raise
    Nobody         \* no task: the lifecycle lock is free

ASSUME AsyncAssumption ==
    /\ IsFiniteSet(Requests)
    /\ MaxInFlight \in Nat \ {0}
    /\ MaxWorkers \in Nat \ {0}
    /\ CloseMayFail \in BOOLEAN
    /\ Nobody \notin Closers

VARIABLES
    accepting,    \* _AsyncRequestRunner._accepting
    runnerClosed, \* _AsyncRequestRunner._closed
    capacity,     \* free slots of _capacity
    pending,      \* _pending: the requests whose future is not done
    task,         \* task[r]: idle, acquiring (waits for a slot) or awaiting
    job,          \* job[r]: r's work in the thread pool, and its completion
    closed,       \* the facade's own _closed
    lock,         \* the holder of the facade's asyncio _lifecycle_lock
    op,           \* op[t]: where lifecycle task t is
    forced,       \* forced[t]: t calls terminate or kill
    outcome,      \* outcome[t]: how t's last close, terminate or kill ended
    firewall      \* the synchronous facade underneath

requestVars == <<capacity, pending, task, job>>
runnerVars  == <<accepting, runnerClosed>>
closerVars  == <<closed, lock, op, forced, outcome>>
vars == <<accepting, runnerClosed, capacity, pending, task, job, closed, lock, op,
          forced, outcome, firewall>>

Admitting == accepting /\ ~runnerClosed

RunningJobs == {r \in Requests : job[r] = "running"}

CloserGoto(t, point) == op' = [op EXCEPT ![t] = point]

-----------------------------------------------------------------------------
Init ==
    /\ accepting = TRUE
    /\ runnerClosed = FALSE
    /\ capacity = MaxInFlight
    /\ pending = {}
    /\ task = [r \in Requests |-> "idle"]
    /\ job = [r \in Requests |-> "none"]
    /\ closed = FALSE
    /\ lock = Nobody
    /\ op = [t \in Closers |-> "idle"]
    /\ forced = [t \in Closers |-> FALSE]
    /\ outcome = [t \in Closers |-> "none"]
    /\ firewall = "new"

-----------------------------------------------------------------------------
(* Requests: _AsyncRequestRunner.run.                                        *)

(* No slot is free: the task waits for one. *)
QueueUp(r) ==
    /\ task[r] = "idle" /\ job[r] = "none"
    /\ Admitting
    /\ capacity = 0
    /\ task' = [task EXCEPT ![r] = "acquiring"]
    /\ UNCHANGED <<runnerVars, capacity, pending, job, closerVars, firewall>>

(* Admission timeout, or cancellation while waiting. *)
GiveUp(r) ==
    /\ task[r] = "acquiring"
    /\ task' = [task EXCEPT ![r] = "idle"]
    /\ UNCHANGED <<runnerVars, capacity, pending, job, closerVars, firewall>>

(* Mutant of Admit: a task that waited is not checked again. *)
AdmitUnchecked(r) ==
    /\ \/ task[r] = "acquiring"
       \/ task[r] = "idle" /\ job[r] = "none" /\ Admitting
    /\ capacity > 0
    /\ capacity' = capacity - 1
    /\ pending' = pending \cup {r}
    /\ job' = [job EXCEPT ![r] = "queued"]
    /\ task' = [task EXCEPT ![r] = "awaiting"]
    /\ UNCHANGED <<runnerVars, closerVars, firewall>>

(* A slot is acquired, at once or after waiting; the runner still accepts,   *)
(* so the request goes to the thread pool and its future is tracked.         *)
Admit(r) ==
    /\ \/ task[r] = "acquiring"
       \/ task[r] = "idle" /\ job[r] = "none"
    /\ capacity > 0
    /\ Admitting
    /\ capacity' = capacity - 1
    /\ pending' = pending \cup {r}
    /\ job' = [job EXCEPT ![r] = "queued"]
    /\ task' = [task EXCEPT ![r] = "awaiting"]
    /\ UNCHANGED <<runnerVars, closerVars, firewall>>

(* The runner stopped accepting meanwhile: the slot is released again. *)
RefuseLate(r) ==
    /\ task[r] = "acquiring"
    /\ capacity > 0
    /\ ~Admitting
    /\ task' = [task EXCEPT ![r] = "idle"]
    /\ UNCHANGED <<runnerVars, capacity, pending, job, closerVars, firewall>>

(* The caller's task is cancelled: the work and its slot live on. *)
CancelTask(r) ==
    /\ task[r] = "awaiting"
    /\ task' = [task EXCEPT ![r] = "idle"]
    /\ UNCHANGED <<runnerVars, capacity, pending, job, closerVars, firewall>>

(* The future is done and `completed', registered first, has run. *)
Resume(r) ==
    /\ task[r] = "awaiting"
    /\ job[r] = "none"
    /\ task' = [task EXCEPT ![r] = "idle"]
    /\ UNCHANGED <<runnerVars, capacity, pending, job, closerVars, firewall>>

(* A thread of the executor takes up the request ... *)
StartJob(r) ==
    /\ job[r] = "queued"
    /\ Cardinality(RunningJobs) < MaxWorkers
    /\ job' = [job EXCEPT ![r] = "running"]
    /\ UNCHANGED <<runnerVars, capacity, pending, task, closerVars, firewall>>

(* ... and the synchronous facade returns or raises: the loop is notified.   *)
EndJob(r) ==
    /\ job[r] = "running"
    /\ job' = [job EXCEPT ![r] = "finished"]
    /\ UNCHANGED <<runnerVars, capacity, pending, task, closerVars, firewall>>

(* Mutant of Completed: a request whose caller is gone keeps its slot. *)
CompletedIfAwaited(r) ==
    /\ job[r] = "finished"
    /\ job' = [job EXCEPT ![r] = "none"]
    /\ pending' = pending \ {r}
    /\ capacity' = IF task[r] = "awaiting" THEN capacity + 1 ELSE capacity
    /\ UNCHANGED <<runnerVars, task, closerVars, firewall>>

(* Mutant of Completed: a request whose caller is gone stays pending. *)
CompletedStaysPending(r) ==
    /\ job[r] = "finished"
    /\ job' = [job EXCEPT ![r] = "none"]
    /\ pending' = IF task[r] = "awaiting" THEN pending \ {r} ELSE pending
    /\ capacity' = capacity + 1
    /\ UNCHANGED <<runnerVars, task, closerVars, firewall>>

Completed(r) ==
    /\ job[r] = "finished"
    /\ job' = [job EXCEPT ![r] = "none"]
    /\ pending' = pending \ {r}
    /\ capacity' = capacity + 1
    /\ UNCHANGED <<runnerVars, task, closerVars, firewall>>

-----------------------------------------------------------------------------
(* start and the manager's reload, reload_builtin_catalog and restart: the   *)
(* lock is held while a thread runs the synchronous operation.               *)

TransitionBegin(t) ==
    /\ op[t] = "idle"
    /\ lock = Nobody
    /\ ~closed
    /\ lock' = t
    /\ CloserGoto(t, "transition")
    /\ UNCHANGED <<runnerVars, requestVars, closed, forced, outcome, firewall>>

(* Only a new firewall starts; a reload leaves the facade running. *)
TransitionEnds(t) ==
    /\ op[t] = "transition"
    /\ firewall' \in IF firewall = "new" THEN {"running", "broken"} ELSE {firewall}
    /\ lock' = Nobody
    /\ CloserGoto(t, "idle")
    /\ UNCHANGED <<runnerVars, requestVars, closed, forced, outcome>>

(* A worker dies, or a request times out. *)
Crash ==
    /\ firewall = "running"
    /\ firewall' = "broken"
    /\ UNCHANGED <<runnerVars, requestVars, closerVars>>

-----------------------------------------------------------------------------
(* close, terminate, kill: _finish_lifecycle and _close_impl.                *)

CloseBegin(t, force) ==
    /\ op[t] = "idle"
    /\ lock = Nobody
    /\ ~closed
    /\ lock' = t
    /\ forced' = [forced EXCEPT ![t] = force]
    /\ outcome' = [outcome EXCEPT ![t] = "none"]
    /\ CloserGoto(t, "scheduled")
    /\ UNCHANGED <<runnerVars, requestVars, closed, firewall>>

AlreadyClosed(t, force) ==
    /\ op[t] = "idle"
    /\ lock = Nobody
    /\ closed
    /\ forced' = [forced EXCEPT ![t] = force]
    /\ outcome' = [outcome EXCEPT ![t] = "returned"]
    /\ UNCHANGED <<runnerVars, requestVars, closed, lock, op, firewall>>

(* Mutant of StopAccepting: admission stays open while the runner drains. *)
KeepAccepting(t) ==
    /\ op[t] = "scheduled"
    /\ CloserGoto(t, IF forced[t] THEN "operating" ELSE "draining")
    /\ UNCHANGED <<runnerVars, requestVars, closed, lock, forced, outcome, firewall>>

(* The cleanup task runs: from here on nothing is admitted. *)
StopAccepting(t) ==
    /\ op[t] = "scheduled"
    /\ accepting' = FALSE
    /\ CloserGoto(t, IF forced[t] THEN "operating" ELSE "draining")
    /\ UNCHANGED <<runnerClosed, requestVars, closed, lock, forced, outcome, firewall>>

Drained(t) ==
    /\ op[t] = "draining"
    /\ pending = {}
    /\ CloserGoto(t, "operating")
    /\ UNCHANGED <<runnerVars, requestVars, closed, lock, forced, outcome, firewall>>

(* The synchronous close, terminate or kill, in a thread. *)
Operate(t) ==
    /\ op[t] = "operating"
    /\ \/ firewall' = "closed" /\ outcome' = [outcome EXCEPT ![t] = "returned"]
       \/ /\ CloseMayFail
          /\ firewall # "new"
          /\ firewall' = "broken"
          /\ outcome' = [outcome EXCEPT ![t] = "raised"]
    /\ CloserGoto(t, "shutting")
    /\ UNCHANGED <<runnerVars, requestVars, closed, lock, forced>>

(* Mutant of CloseRunner: the runner is closed before it drained. *)
CloseRunnerUndrained(t) ==
    /\ op[t] = "shutting"
    /\ accepting' = FALSE
    /\ runnerClosed' = TRUE
    /\ CloserGoto(t, "joining")
    /\ UNCHANGED <<requestVars, closed, lock, forced, outcome, firewall>>

(* _AsyncRequestRunner.shutdown: drained again, then closed. *)
CloseRunner(t) ==
    /\ op[t] = "shutting"
    /\ pending = {}
    /\ accepting' = FALSE
    /\ runnerClosed' = TRUE
    /\ CloserGoto(t, "joining")
    /\ UNCHANGED <<requestVars, closed, lock, forced, outcome, firewall>>

(* Mutant of CloseEnds: the lock is not given back. *)
CloseKeepsLock(t) ==
    /\ op[t] = "joining"
    /\ \A r \in Requests : job[r] \notin {"queued", "running"}
    /\ closed' = TRUE
    /\ CloserGoto(t, "idle")
    /\ UNCHANGED <<runnerVars, requestVars, lock, forced, outcome, firewall>>

(* executor.shutdown(wait=True) returns once its threads are done. *)
CloseEnds(t) ==
    /\ op[t] = "joining"
    /\ \A r \in Requests : job[r] \notin {"queued", "running"}
    /\ closed' = TRUE
    /\ lock' = Nobody
    /\ CloserGoto(t, "idle")
    /\ UNCHANGED <<runnerVars, requestVars, forced, outcome, firewall>>

-----------------------------------------------------------------------------
RequestStep(r) ==
    \/ QueueUp(r) \/ GiveUp(r) \/ Admit(r) \/ RefuseLate(r) \/ CancelTask(r) \/ Resume(r)

JobStep(r) == StartJob(r) \/ EndJob(r) \/ Completed(r)

CloserStep(t) ==
    \/ TransitionEnds(t) \/ StopAccepting(t) \/ Drained(t) \/ Operate(t)
    \/ CloseRunner(t) \/ CloseEnds(t)

Next ==
    \/ \E r \in Requests : RequestStep(r) \/ JobStep(r)
    \/ \E t \in Closers : \/ TransitionBegin(t) \/ CloserStep(t)
                          \/ \E force \in BOOLEAN : CloseBegin(t, force) \/ AlreadyClosed(t, force)
    \/ Crash

Spec == Init /\ [][Next]_vars

(* Threads run queued work, a request ends (its timeout bounds it), the loop *)
(* runs completion callbacks, and lifecycle tasks keep running.              *)
FairSpec ==
    /\ Spec
    /\ \A r \in Requests : WF_vars(JobStep(r))
    /\ \A t \in Closers : WF_vars(CloserStep(t))

-----------------------------------------------------------------------------
(* Every variable has a value the code can give it; the lifecycle lock is    *)
(* held by the one task that is inside an operation.                         *)
TypeOK ==
    /\ accepting \in BOOLEAN
    /\ runnerClosed \in BOOLEAN
    /\ capacity \in 0..MaxInFlight
    /\ pending \in SUBSET Requests
    /\ task \in [Requests -> {"idle", "acquiring", "awaiting"}]
    /\ job \in [Requests -> {"none", "queued", "running", "finished"}]
    /\ closed \in BOOLEAN
    /\ lock \in Closers \cup {Nobody}
    /\ op \in [Closers -> {"idle", "transition", "scheduled", "draining", "operating",
                           "shutting", "joining"}]
    /\ forced \in [Closers -> BOOLEAN]
    /\ outcome \in [Closers -> {"none", "returned", "raised"}]
    /\ firewall \in {"new", "running", "broken", "closed"}
    /\ \A t \in Closers : lock = t <=> op[t] # "idle"

(* A slot is taken exactly while the work of a request is in the thread pool *)
(* or its completion has not run: cancelling callers neither frees slots     *)
(* early, which would grow the pool's queue, nor loses them.                 *)
SlotsFollowWork ==
    /\ pending = {r \in Requests : job[r] # "none"}
    /\ capacity + Cardinality(pending) = MaxInFlight

(* A graceful close closes the firewall under no request: from its drain to  *)
(* the end nothing is pending, late acquirers included.                      *)
GracefulCloseIsDrained ==
    \A t \in Closers :
        op[t] \in {"operating", "shutting", "joining"} /\ ~forced[t] => pending = {}

(* Once the runner is closed the thread pool has no work: its shutdown, with *)
(* cancel_futures, never cancels a request somebody awaits.                  *)
ClosedRunnerIsIdle == runnerClosed => \A r \in Requests : job[r] = "none"

(* Every lifecycle operation ends, however requests are cancelled. *)
ClosersReturn == \A t \in Closers : op[t] # "idle" ~> op[t] = "idle"

(* "Synchronous API parity": a terminate or kill that returns has closed the *)
(* firewall, also after a close that failed.                                 *)
KillCloses ==
    \A t \in Closers :
        forced[t] /\ outcome[t] = "returned" => firewall = "closed"

-----------------------------------------------------------------------------
(* The runner implements bounded admission: the gate is open while it        *)
(* accepts, and a request is inside while its future is tracked.             *)
Admission == INSTANCE BoundedAdmission WITH
    Work <- Requests, Capacity <- MaxInFlight,
    gate <- IF Admitting THEN "open" ELSE "shut", inside <- pending

ImplementsAdmission == Admission!Spec

-----------------------------------------------------------------------------
(* The inductive strengthening of the invariants above. *)

(* A task that waits for a slot has no work left of an earlier request. *)
WaitersHaveNoWork == \A r \in Requests : task[r] = "acquiring" => job[r] = "none"

(* From StopAccepting on the runner admits nothing. *)
StoppedUnderClose ==
    \A t \in Closers :
        op[t] \in {"draining", "operating", "shutting", "joining"} => ~accepting

ClosedRunnerIsShut == runnerClosed => ~accepting /\ pending = {}

IndInv ==
    /\ TypeOK
    /\ SlotsFollowWork
    /\ WaitersHaveNoWork
    /\ StoppedUnderClose
    /\ GracefulCloseIsDrained
    /\ ClosedRunnerIsShut

=============================================================================
