---------------------------- MODULE ProcessPool ----------------------------
(***************************************************************************)
(* ProcessScannerPool (src/llm_ffw/process_pool.py): a bounded pool of     *)
(* scanner processes.  Callers acquire one slot of a bounded semaphore,    *)
(* submit a scan to a ProcessPoolExecutor, and await a second future that  *)
(* a completion callback resolves after giving the slot back.  Lifecycle   *)
(* threads start, shut down, terminate or kill the pool concurrently.      *)
(*                                                                         *)
(* Each action is one section executed under `_state_lock', or one step of *)
(* the standard library's executor, which this module models from how the  *)
(* pool uses it.  `_lifecycle_lock' is held across blocking calls, so its  *)
(* holder is a variable.                                                   *)
(***************************************************************************)
EXTENDS Integers, FiniteSets

CONSTANTS
    Requests,        \* callers, each inside one scan() or process() call
    Threads,         \* threads that call start/shutdown/terminate/kill
    MaxInFlight,     \* the semaphore's bound, ProcessScannerPoolConfig.max_in_flight
    CleanupMayFail,  \* whether the executor's shutdown and terminate may raise
    Nobody           \* no thread: the lifecycle lock is free

ASSUME PoolAssumption ==
    /\ IsFiniteSet(Requests)
    /\ MaxInFlight \in Nat \ {0}
    /\ CleanupMayFail \in BOOLEAN
    /\ Requests \cap Threads = {}
    /\ Nobody \notin Requests \cup Threads

VARIABLES
    state,      \* ProcessPoolState
    attached,   \* whether the attribute _executor refers to the executor
    lifecycle,  \* the holder of _lifecycle_lock
    permits,    \* free slots of the semaphore _capacity
    pc,         \* pc[r]: where caller r is
    rescanned,  \* rescanned[r]: r is in the second scan of process()
    raw,        \* raw[r]: the executor's future for r's scan
    cb,         \* cb[r]: progress of the completion callback `complete'
    runner,     \* runner[r]: the thread that runs that callback
    result,     \* result[r]: the future handed to the caller
    op,         \* op[t]: where lifecycle thread t is
    captured,   \* captured[t]: the local `executor' of shutdown() is not None
    exec,       \* the executor: absent, open, closing (shut down) or broken
    cancelling, \* the executor cancels queued work while it shuts down
    killed      \* the worker processes were signalled to terminate

callerVars == <<pc, rescanned, raw, cb, runner, result>>
threadVars == <<op, captured>>
execVars   == <<exec, cancelling, killed>>
vars == <<state, attached, lifecycle, permits, pc, rescanned, raw, cb, runner,
          result, op, captured, exec, cancelling, killed>>

PoolStates == {"new", "starting", "running", "shutting_down", "closed", "broken"}

CallerPoints == {"calling", "checked", "admitted", "brokenSubmit", "unwinding",
                 "registering", "waiting", "expired", "timedOut", "breaking",
                 "answered", "done"}

RawOutcomes == {"value", "error", "broken", "cancelled"}

ThreadPoints == {"idle", "spawning", "probing", "discarding", "closing",
                 "joining", "closeFinish", "signalling", "forced"}

-----------------------------------------------------------------------------
Outstanding(r) == raw[r] \in {"pending", "running"}

(* The callback has been entered and has not returned. *)
InCallback(r) == cb[r] \in {"mark", "release", "publish"}

(* The executor's manager thread runs callbacks itself, one at a time. *)
ManagerBusy == \E r \in Requests : runner[r] = "manager" /\ InCallback(r)

CallerBusy(r) == runner[r] = "caller" /\ InCallback(r)

(* executor.shutdown(wait=True) joins the manager thread, which ends once the *)
(* executor is shut down or broken and has nothing left to resolve.           *)
ManagerExited ==
    /\ exec \in {"closing", "broken"}
    /\ \A r \in Requests : ~Outstanding(r)
    /\ ~ManagerBusy

(* The stage at which `complete' starts for a future with this outcome. *)
CallbackEntry(outcome) == IF outcome = "broken" THEN "mark" ELSE "release"

(* Mutant of BreakIfRunning: a pool that is shutting down is broken as well. *)
BreakAlways == state' = "broken"

(* A pool observed broken while it serves is quarantined. *)
BreakIfRunning == state' = IF state = "running" THEN "broken" ELSE state

Goto(r, point) == pc' = [pc EXCEPT ![r] = point]
ThreadGoto(t, point) == op' = [op EXCEPT ![t] = point]

-----------------------------------------------------------------------------
Init ==
    /\ state = "new"
    /\ attached = FALSE
    /\ lifecycle = Nobody
    /\ permits = MaxInFlight
    /\ pc = [r \in Requests |-> "calling"]
    /\ rescanned = [r \in Requests |-> FALSE]
    /\ raw = [r \in Requests |-> "none"]
    /\ cb = [r \in Requests |-> "none"]
    /\ runner = [r \in Requests |-> "none"]
    /\ result = [r \in Requests |-> "none"]
    /\ op = [t \in Threads |-> "idle"]
    /\ captured = [t \in Threads |-> FALSE]
    /\ exec = "absent"
    /\ cancelling = FALSE
    /\ killed = FALSE

-----------------------------------------------------------------------------
(* Admission and submission: _submit.                                        *)

(* The first state check, before a slot is requested. *)
CheckRunning(r) ==
    /\ pc[r] = "calling"
    /\ Goto(r, IF state = "running" THEN "checked" ELSE "done")
    /\ UNCHANGED <<state, attached, lifecycle, permits, rescanned, raw, cb, runner,
                   result, threadVars, execVars>>

AcquireSlot(r) ==
    /\ pc[r] = "checked"
    /\ permits > 0
    /\ permits' = permits - 1
    /\ Goto(r, "admitted")
    /\ UNCHANGED <<state, attached, lifecycle, rescanned, raw, cb, runner, result,
                   threadVars, execVars>>

(* The admission timeout elapses: ProcessPoolSaturatedError. *)
Saturated(r) ==
    /\ pc[r] = "checked"
    /\ permits = 0
    /\ Goto(r, "done")
    /\ UNCHANGED <<state, attached, lifecycle, permits, rescanned, raw, cb, runner,
                   result, threadVars, execVars>>

(* Mutant of Submit: no second state check once the slot is acquired. *)
SubmitUnchecked(r) ==
    /\ pc[r] = "admitted"
    /\ exec = "open"
    /\ raw' = [raw EXCEPT ![r] = "pending"]
    /\ Goto(r, "registering")
    /\ UNCHANGED <<state, attached, lifecycle, permits, rescanned, cb, runner,
                   result, threadVars, execVars>>

(* The second state check and executor.submit, both under _state_lock. *)
Submit(r) ==
    /\ pc[r] = "admitted"
    /\ state = "running"
    /\ exec = "open"
    /\ raw' = [raw EXCEPT ![r] = "pending"]
    /\ Goto(r, "registering")
    /\ UNCHANGED <<state, attached, lifecycle, permits, rescanned, cb, runner,
                   result, threadVars, execVars>>

(* executor.submit raises BrokenProcessPool, or RuntimeError once shut down. *)
SubmitRaises(r) ==
    /\ pc[r] = "admitted"
    /\ state = "running"
    /\ exec \in {"broken", "closing"}
    /\ Goto(r, IF exec = "broken" THEN "brokenSubmit" ELSE "unwinding")
    /\ UNCHANGED <<state, attached, lifecycle, permits, rescanned, raw, cb, runner,
                   result, threadVars, execVars>>

(* Mutant of SubmitRefused: the slot is released before raising, and again   *)
(* by the error path.                                                        *)
RefuseReleases(r) ==
    /\ pc[r] = "admitted"
    /\ state # "running"
    /\ permits' = permits + 1
    /\ Goto(r, "unwinding")
    /\ UNCHANGED <<state, attached, lifecycle, rescanned, raw, cb, runner, result,
                   threadVars, execVars>>

(* The pool stopped while the caller waited for its slot. *)
SubmitRefused(r) ==
    /\ pc[r] = "admitted"
    /\ state # "running"
    /\ Goto(r, "unwinding")
    /\ UNCHANGED <<state, attached, lifecycle, permits, rescanned, raw, cb, runner,
                   result, threadVars, execVars>>

MarkBrokenSubmit(r) ==
    /\ pc[r] = "brokenSubmit"
    /\ BreakIfRunning
    /\ Goto(r, "unwinding")
    /\ UNCHANGED <<attached, lifecycle, permits, rescanned, raw, cb, runner, result,
                   threadVars, execVars>>

Unwind(r) ==
    /\ pc[r] = "unwinding"
    /\ permits' = permits + 1
    /\ Goto(r, "done")
    /\ UNCHANGED <<state, attached, lifecycle, rescanned, raw, cb, runner, result,
                   threadVars, execVars>>

(* result_future is created and `complete' added to the raw future; a raw    *)
(* future that is already resolved calls `complete' in this thread.          *)
Register(r) ==
    /\ pc[r] = "registering"
    /\ result' = [result EXCEPT ![r] = "pending"]
    /\ cb' = [cb EXCEPT ![r] = IF Outstanding(r) THEN "armed" ELSE CallbackEntry(raw[r])]
    /\ runner' = [runner EXCEPT ![r] = IF Outstanding(r) THEN "none" ELSE "caller"]
    /\ Goto(r, "waiting")
    /\ UNCHANGED <<state, attached, lifecycle, permits, rescanned, raw, threadVars,
                   execVars>>

-----------------------------------------------------------------------------
(* The completion callback `complete', run by the manager thread or, after a *)
(* cancellation, by the caller.                                              *)

(* Mutant of CallbackMark: the error path skips the release. *)
MarkSkipsRelease(r) ==
    /\ cb[r] = "mark"
    /\ BreakIfRunning
    /\ cb' = [cb EXCEPT ![r] = "publish"]
    /\ UNCHANGED <<attached, lifecycle, permits, pc, rescanned, raw, runner, result,
                   threadVars, execVars>>

CallbackMark(r) ==
    /\ cb[r] = "mark"
    /\ BreakIfRunning
    /\ cb' = [cb EXCEPT ![r] = "release"]
    /\ UNCHANGED <<attached, lifecycle, permits, pc, rescanned, raw, runner, result,
                   threadVars, execVars>>

(* Mutant of CallbackRelease: a cancelled scan keeps its slot. *)
CancelledKeepsSlot(r) ==
    /\ cb[r] = "release"
    /\ permits' = IF raw[r] = "cancelled" THEN permits ELSE permits + 1
    /\ cb' = [cb EXCEPT ![r] = "publish"]
    /\ UNCHANGED <<state, attached, lifecycle, pc, rescanned, raw, runner, result,
                   threadVars, execVars>>

CallbackRelease(r) ==
    /\ cb[r] = "release"
    /\ permits' = permits + 1
    /\ cb' = [cb EXCEPT ![r] = "publish"]
    /\ UNCHANGED <<state, attached, lifecycle, pc, rescanned, raw, runner, result,
                   threadVars, execVars>>

(* Mutant of CallbackPublish: the answer may be published before the release. *)
PublishEarly(r) ==
    /\ cb[r] \in {"release", "publish"}
    /\ cb' = IF cb[r] = "release" THEN cb ELSE [cb EXCEPT ![r] = "over"]
    /\ result' = [result EXCEPT ![r] =
                    IF @ # "pending" THEN @
                    ELSE IF raw[r] \in {"value", "cancelled"} THEN raw[r]
                    ELSE "error"]
    /\ UNCHANGED <<state, attached, lifecycle, permits, pc, rescanned, raw, runner,
                   threadVars, execVars>>

(* A caller's cancellation wins: publishing into a cancelled future is       *)
(* skipped, or its InvalidStateError swallowed.                              *)
CallbackPublish(r) ==
    /\ cb[r] = "publish"
    /\ cb' = [cb EXCEPT ![r] = "over"]
    /\ result' = [result EXCEPT ![r] =
                    IF @ # "pending" THEN @
                    ELSE IF raw[r] \in {"value", "cancelled"} THEN raw[r]
                    ELSE "error"]
    /\ UNCHANGED <<state, attached, lifecycle, permits, pc, rescanned, raw, runner,
                   threadVars, execVars>>

-----------------------------------------------------------------------------
(* Awaiting the result: scan, _scan_for_policy, process.                     *)

(* future.result returns or raises what was published. *)
Answered(r) ==
    /\ pc[r] = "waiting"
    /\ ~CallerBusy(r)
    /\ result[r] # "pending"
    /\ Goto(r, "answered")
    /\ UNCHANGED <<state, attached, lifecycle, permits, rescanned, raw, cb, runner,
                   result, threadVars, execVars>>

(* future.result raises TimeoutError. *)
Expire(r) ==
    /\ pc[r] = "waiting"
    /\ ~CallerBusy(r)
    /\ result[r] = "pending"
    /\ Goto(r, "expired")
    /\ UNCHANGED <<state, attached, lifecycle, permits, rescanned, raw, cb, runner,
                   result, threadVars, execVars>>

(* future.cancel(), and propagate_cancellation into a raw future that is     *)
(* still queued; an answer published meanwhile makes it a no-op.             *)
CancelResult(r) ==
    IF result[r] # "pending"
    THEN UNCHANGED <<raw, cb, runner, result>>
    ELSE /\ result' = [result EXCEPT ![r] = "cancelled"]
         /\ IF raw[r] = "pending"
            THEN /\ raw' = [raw EXCEPT ![r] = "cancelled"]
                 /\ cb' = [cb EXCEPT ![r] = CallbackEntry("cancelled")]
                 /\ runner' = [runner EXCEPT ![r] = "caller"]
            ELSE UNCHANGED <<raw, cb, runner>>

CancelExpired(r) ==
    /\ pc[r] = "expired"
    /\ CancelResult(r)
    /\ Goto(r, "timedOut")
    /\ UNCHANGED <<state, attached, lifecycle, permits, rescanned, threadVars, execVars>>

(* A user of submit() cancels the future it was given, and leaves. *)
Abandon(r) ==
    /\ pc[r] = "waiting"
    /\ ~CallerBusy(r)
    /\ CancelResult(r)
    /\ Goto(r, "done")
    /\ UNCHANGED <<state, attached, lifecycle, permits, rescanned, threadVars, execVars>>

(* _break_timed_out_generation: only a running pool is quarantined. *)
BreakGeneration(r) ==
    /\ pc[r] = "timedOut"
    /\ ~CallerBusy(r)
    /\ lifecycle = Nobody
    /\ IF state = "running"
       THEN /\ state' = "broken"
            /\ attached' = FALSE
            /\ lifecycle' = r
            /\ Goto(r, "breaking")
       ELSE /\ Goto(r, "done")
            /\ UNCHANGED <<state, attached, lifecycle>>
    /\ UNCHANGED <<permits, rescanned, raw, cb, runner, result, threadVars, execVars>>

(* Mutant of SignalWorkers: shuts the executor down and signals nobody. *)
ShutWithoutSignal ==
    /\ exec' = IF exec = "open" THEN "closing" ELSE exec
    /\ cancelling' = TRUE
    /\ killed' = killed

(* terminate_workers and kill_workers: shut the executor down without        *)
(* waiting, cancel queued work, signal every live worker.                    *)
SignalWorkers ==
    /\ exec' = IF exec = "open" THEN "closing" ELSE exec
    /\ cancelling' = TRUE
    /\ killed' = TRUE

(* Mutant of TerminateBroken: the lifecycle lock is not given back. *)
TerminateKeepsLock(r) ==
    /\ pc[r] = "breaking"
    /\ \/ SignalWorkers
       \/ CleanupMayFail /\ UNCHANGED execVars
    /\ Goto(r, "done")
    /\ UNCHANGED <<state, attached, lifecycle, permits, rescanned, raw, cb, runner,
                   result, threadVars>>

TerminateBroken(r) ==
    /\ pc[r] = "breaking"
    /\ \/ SignalWorkers
       \/ CleanupMayFail /\ UNCHANGED execVars   \* swallowed
    /\ lifecycle' = Nobody
    /\ Goto(r, "done")
    /\ UNCHANGED <<state, attached, permits, rescanned, raw, cb, runner, result,
                   threadVars>>

(* The call ends: with its findings, an error, or after its policy decision. *)
Return(r) ==
    /\ pc[r] = "answered"
    /\ Goto(r, "done")
    /\ UNCHANGED <<state, attached, lifecycle, permits, rescanned, raw, cb, runner,
                   result, threadVars, execVars>>

(* process(): a policy that removed text scans the cleaned text again, as a  *)
(* new submission that competes for a slot of its own.                       *)
Rescan(r) ==
    /\ pc[r] = "answered"
    /\ result[r] = "value"
    /\ ~rescanned[r]
    /\ rescanned' = [rescanned EXCEPT ![r] = TRUE]
    /\ raw' = [raw EXCEPT ![r] = "none"]
    /\ cb' = [cb EXCEPT ![r] = "none"]
    /\ runner' = [runner EXCEPT ![r] = "none"]
    /\ result' = [result EXCEPT ![r] = "none"]
    /\ Goto(r, "calling")
    /\ UNCHANGED <<state, attached, lifecycle, permits, threadVars, execVars>>

-----------------------------------------------------------------------------
(* start(): the lifecycle lock is held until it returns.                     *)

StartBegin(t) ==
    /\ op[t] = "idle"
    /\ lifecycle = Nobody
    /\ state = "new"
    /\ state' = "starting"
    /\ lifecycle' = t
    /\ ThreadGoto(t, "spawning")
    /\ UNCHANGED <<attached, permits, callerVars, captured, execVars>>

Spawn(t) ==
    /\ op[t] = "spawning"
    /\ exec' = "open"
    /\ attached' = TRUE
    /\ ThreadGoto(t, "probing")
    /\ UNCHANGED <<state, lifecycle, permits, callerVars, captured, cancelling, killed>>

SpawnFails(t) ==
    /\ op[t] = "spawning"
    /\ state' = "broken"
    /\ lifecycle' = Nobody
    /\ ThreadGoto(t, "idle")
    /\ UNCHANGED <<attached, permits, callerVars, captured, execVars>>

Ready(t) ==
    /\ op[t] = "probing"
    /\ state' = "running"
    /\ lifecycle' = Nobody
    /\ ThreadGoto(t, "idle")
    /\ UNCHANGED <<attached, permits, callerVars, captured, execVars>>

(* Readiness fails: BROKEN first, then the executor is shut down and joined. *)
ProbeFails(t) ==
    /\ op[t] = "probing"
    /\ state' = "broken"
    /\ exec' = IF exec = "open" THEN "closing" ELSE exec
    /\ cancelling' = TRUE
    /\ ThreadGoto(t, "discarding")
    /\ UNCHANGED <<attached, lifecycle, permits, callerVars, captured, killed>>

Discarded(t) ==
    /\ op[t] = "discarding"
    /\ ManagerExited
    /\ attached' = FALSE
    /\ lifecycle' = Nobody
    /\ ThreadGoto(t, "idle")
    /\ UNCHANGED <<state, permits, callerVars, captured, execVars>>

-----------------------------------------------------------------------------
(* shutdown(): both locks are released while the executor is joined.         *)

(* shutdown, terminate or kill before start. *)
CloseUnstarted(t) ==
    /\ op[t] = "idle"
    /\ lifecycle = Nobody
    /\ state = "new"
    /\ state' = "closed"
    /\ UNCHANGED <<attached, lifecycle, permits, callerVars, threadVars, execVars>>

(* Mutant of ShutdownBegin: the lifecycle lock is kept while the executor is *)
(* joined.                                                                   *)
ShutdownBeginLocked(t) ==
    /\ op[t] = "idle"
    /\ lifecycle = Nobody
    /\ state \notin {"new", "closed"}
    /\ state' = "shutting_down"
    /\ lifecycle' = t
    /\ captured' = [captured EXCEPT ![t] = attached]
    /\ ThreadGoto(t, "closing")
    /\ UNCHANGED <<attached, permits, callerVars, execVars>>

ShutdownBegin(t) ==
    /\ op[t] = "idle"
    /\ lifecycle = Nobody
    /\ state \notin {"new", "closed"}
    /\ state' = "shutting_down"
    /\ captured' = [captured EXCEPT ![t] = attached]
    /\ ThreadGoto(t, "closing")
    /\ UNCHANGED <<attached, lifecycle, permits, callerVars, execVars>>

(* Mutant of ShutdownExecutor: the executor is not waited for. *)
ShutdownWithoutWait(t, cancel) ==
    /\ op[t] = "closing"
    /\ captured[t]
    /\ exec' = IF exec = "open" THEN "closing" ELSE exec
    /\ cancelling' = cancel
    /\ ThreadGoto(t, "closeFinish")
    /\ UNCHANGED <<state, attached, lifecycle, permits, callerVars, captured, killed>>

(* executor.shutdown(wait=True, cancel_futures=cancel): it waits for the     *)
(* manager thread, unless terminate_workers dropped the reference to it.     *)
ShutdownExecutor(t, cancel) ==
    /\ op[t] = "closing"
    /\ captured[t]
    /\ exec' = IF exec = "open" THEN "closing" ELSE exec
    /\ cancelling' = cancel
    /\ ThreadGoto(t, IF killed THEN "closeFinish" ELSE "joining")
    /\ UNCHANGED <<state, attached, lifecycle, permits, callerVars, captured, killed>>

NothingToShutDown(t) ==
    /\ op[t] = "closing"
    /\ ~captured[t]
    /\ ThreadGoto(t, "closeFinish")
    /\ UNCHANGED <<state, attached, lifecycle, permits, callerVars, captured, execVars>>

Joined(t) ==
    /\ op[t] = "joining"
    /\ ManagerExited
    /\ ThreadGoto(t, "closeFinish")
    /\ UNCHANGED <<state, attached, lifecycle, permits, callerVars, captured, execVars>>

(* Mutant of ShutdownRaises: a failing shutdown breaks even a closed pool. *)
RaiseBreaksClosed(t) ==
    /\ CleanupMayFail
    /\ op[t] = "joining"
    /\ state' = "broken"
    /\ captured' = [captured EXCEPT ![t] = FALSE]
    /\ ThreadGoto(t, "idle")
    /\ UNCHANGED <<attached, lifecycle, permits, callerVars, execVars>>

ShutdownRaises(t) ==
    /\ CleanupMayFail
    /\ op[t] = "joining"
    /\ state' = IF state = "closed" THEN state ELSE "broken"
    /\ captured' = [captured EXCEPT ![t] = FALSE]
    /\ ThreadGoto(t, "idle")
    /\ UNCHANGED <<attached, lifecycle, permits, callerVars, execVars>>

ShutdownFinish(t) ==
    /\ op[t] = "closeFinish"
    /\ lifecycle = Nobody
    /\ attached' = (attached /\ ~captured[t])
    /\ state' = IF state = "broken" THEN state ELSE "closed"
    /\ captured' = [captured EXCEPT ![t] = FALSE]
    /\ ThreadGoto(t, "idle")
    /\ UNCHANGED <<lifecycle, permits, callerVars, execVars>>

-----------------------------------------------------------------------------
(* terminate() and kill(): _force_shutdown, under the lifecycle lock.        *)

(* Mutant of ForceBegin: admission stays open while workers are signalled. *)
ForceKeepsState(t) ==
    /\ op[t] = "idle"
    /\ lifecycle = Nobody
    /\ state \notin {"new", "closed"}
    /\ attached
    /\ attached' = FALSE
    /\ lifecycle' = t
    /\ ThreadGoto(t, "signalling")
    /\ UNCHANGED <<state, permits, callerVars, captured, execVars>>

ForceBegin(t) ==
    /\ op[t] = "idle"
    /\ lifecycle = Nobody
    /\ state \notin {"new", "closed"}
    /\ attached
    /\ attached' = FALSE
    /\ state' = "shutting_down"
    /\ lifecycle' = t
    /\ ThreadGoto(t, "signalling")
    /\ UNCHANGED <<permits, callerVars, captured, execVars>>

(* RuntimeError("active pool has no executor"). *)
ForceUnattached(t) ==
    /\ op[t] = "idle"
    /\ lifecycle = Nobody
    /\ state \notin {"new", "closed"}
    /\ ~attached
    /\ ThreadGoto(t, "forced")
    /\ UNCHANGED <<state, attached, lifecycle, permits, callerVars, captured, execVars>>

ForceSignal(t) ==
    /\ op[t] = "signalling"
    /\ \/ SignalWorkers /\ state' = "closed"
       \/ CleanupMayFail /\ state' = "broken" /\ UNCHANGED execVars
    /\ lifecycle' = Nobody
    /\ ThreadGoto(t, "forced")
    /\ UNCHANGED <<attached, permits, callerVars, captured>>

ForceReturn(t) ==
    /\ op[t] = "forced"
    /\ ThreadGoto(t, "idle")
    /\ UNCHANGED <<state, attached, lifecycle, permits, callerVars, captured, execVars>>

-----------------------------------------------------------------------------
(* The executor (standard library): its manager thread hands queued work to  *)
(* workers and resolves the raw futures, running their callbacks itself.     *)

Dispatch(r) ==
    /\ exec \in {"open", "closing"}
    /\ ~ManagerBusy
    /\ raw[r] = "pending"
    /\ raw' = [raw EXCEPT ![r] = "running"]
    /\ UNCHANGED <<state, attached, lifecycle, permits, pc, rescanned, cb, runner,
                   result, threadVars, execVars>>

(* The manager thread resolves r's raw future and enters its callback. *)
ResolveRaw(r, outcome) ==
    /\ ~ManagerBusy
    /\ raw' = [raw EXCEPT ![r] = outcome]
    /\ IF cb[r] = "armed"
       THEN /\ cb' = [cb EXCEPT ![r] = CallbackEntry(outcome)]
            /\ runner' = [runner EXCEPT ![r] = "manager"]
       ELSE UNCHANGED <<cb, runner>>
    /\ UNCHANGED <<state, attached, lifecycle, permits, pc, rescanned, result,
                   threadVars, execVars>>

(* A worker returns findings, or its scan raises. *)
WorkerAnswers(r, outcome) ==
    /\ exec \in {"open", "closing"}
    /\ raw[r] = "running"
    /\ ResolveRaw(r, outcome)

(* A worker process dies; the executor is unusable from here on. *)
WorkerDies ==
    /\ exec \in {"open", "closing"}
    /\ ~ManagerExited
    /\ exec' = "broken"
    /\ UNCHANGED <<state, attached, lifecycle, permits, callerVars, threadVars,
                   cancelling, killed>>

(* Every future of a broken executor fails with BrokenProcessPool. *)
FailOutstanding(r) ==
    /\ exec = "broken"
    /\ Outstanding(r)
    /\ ResolveRaw(r, "broken")

(* cancel_futures: queued work is cancelled during a shutdown. *)
DropQueued(r) ==
    /\ exec = "closing"
    /\ cancelling
    /\ raw[r] = "pending"
    /\ ResolveRaw(r, "cancelled")

-----------------------------------------------------------------------------
CallbackStep(r) == CallbackMark(r) \/ CallbackRelease(r) \/ CallbackPublish(r)

(* What a caller does once inside the call, its request timer included. *)
CallerStep(r) ==
    \/ AcquireSlot(r) \/ Saturated(r)
    \/ Submit(r) \/ SubmitRaises(r) \/ SubmitRefused(r)
    \/ MarkBrokenSubmit(r) \/ Unwind(r) \/ Register(r)
    \/ Answered(r) \/ Expire(r) \/ CancelExpired(r)
    \/ BreakGeneration(r) \/ TerminateBroken(r)
    \/ Return(r) \/ Rescan(r)

(* What a lifecycle thread does once inside the call. *)
ThreadStep(t) ==
    \/ Spawn(t) \/ SpawnFails(t) \/ Ready(t) \/ ProbeFails(t) \/ Discarded(t)
    \/ \E cancel \in BOOLEAN : ShutdownExecutor(t, cancel)
    \/ NothingToShutDown(t) \/ Joined(t) \/ ShutdownRaises(t) \/ ShutdownFinish(t)
    \/ ForceSignal(t) \/ ForceReturn(t)

ThreadCall(t) ==
    \/ StartBegin(t) \/ CloseUnstarted(t) \/ ShutdownBegin(t)
    \/ ForceBegin(t) \/ ForceUnattached(t)

ExecutorStep(r) ==
    \/ Dispatch(r)
    \/ \E outcome \in {"value", "error"} : WorkerAnswers(r, outcome)
    \/ FailOutstanding(r) \/ DropQueued(r)

Next ==
    \/ \E r \in Requests : \/ CheckRunning(r) \/ Abandon(r)
                           \/ CallerStep(r) \/ CallbackStep(r) \/ ExecutorStep(r)
    \/ \E t \in Threads : ThreadCall(t) \/ ThreadStep(t)
    \/ WorkerDies

Spec == Init /\ [][Next]_vars

(* Callers, callbacks and lifecycle threads keep running, request timers     *)
(* fire, killed workers die, and the manager thread resolves what a broken   *)
(* or cancelling executor still holds.  No worker is required to answer, and *)
(* nobody is required to call the pool.                                      *)
FairSpec ==
    /\ Spec
    /\ \A r \in Requests : WF_vars(CallerStep(r)) /\ WF_vars(CallbackStep(r))
    /\ \A r \in Requests : WF_vars(rescanned[r] /\ CheckRunning(r))
    /\ \A t \in Threads : WF_vars(ThreadStep(t))
    /\ WF_vars(killed /\ WorkerDies)
    /\ WF_vars(\E r \in Requests : FailOutstanding(r) \/ DropQueued(r))

-----------------------------------------------------------------------------
VariablesTyped ==
    /\ state \in PoolStates
    /\ attached \in BOOLEAN
    /\ lifecycle \in {Nobody} \cup Requests \cup Threads
    /\ permits \in Nat
    /\ pc \in [Requests -> CallerPoints]
    /\ rescanned \in [Requests -> BOOLEAN]
    /\ raw \in [Requests -> {"none", "pending", "running"} \cup RawOutcomes]
    /\ cb \in [Requests -> {"none", "armed", "mark", "release", "publish", "over"}]
    /\ runner \in [Requests -> {"none", "manager", "caller"}]
    /\ result \in [Requests -> {"none", "pending", "value", "error", "cancelled"}]
    /\ op \in [Threads -> ThreadPoints]
    /\ captured \in [Threads -> BOOLEAN]
    /\ exec \in {"absent", "open", "closing", "broken"}
    /\ cancelling \in BOOLEAN
    /\ killed \in BOOLEAN

(* Every variable has a value the code can give it, and the semaphore never  *)
(* exceeds its bound.                                                        *)
TypeOK == VariablesTyped /\ permits <= MaxInFlight

(* A caller owns a slot from the moment the semaphore admits it until the    *)
(* error path or the completion callback has given the slot back.            *)
Holds(r) ==
    \/ pc[r] \in {"admitted", "brokenSubmit", "unwinding", "registering"}
    \/ cb[r] \in {"armed", "mark", "release"}

Holders == {r \in Requests : Holds(r)}

(* Every slot is free or owned by one caller: across refusals, broken        *)
(* submissions, cancellations, worker crashes and late answers no slot is    *)
(* lost and none is released twice (BoundedSemaphore would raise).           *)
PermitsConserved == permits + Cardinality(Holders) = MaxInFlight

(* While the pool reports RUNNING it has an executor that was not shut down  *)
(* by the pool: the RuntimeError branches of _submit cannot be reached.      *)
RunningIsServed == state = "running" => attached /\ exec \in {"open", "broken"}

(* A shutdown that joined its executor, and that no terminate or kill cut    *)
(* short, leaves no scan queued or running when it closes the pool.          *)
CloseIsQuiescent ==
    \A t \in Threads :
        op[t] = "closeFinish" /\ captured[t] /\ ~killed =>
            \A r \in Requests : ~Outstanding(r)

(* A caller that has its answer owns no slot any more: the callback releases *)
(* before it publishes, so the second scan of process() is never refused     *)
(* because of the slot of the first.                                         *)
AnsweredOwnsNoSlot == \A r \in Requests : result[r] \in {"value", "error"} => ~Holds(r)

(* CLOSED is final, whatever a slower shutdown or failing cleanup does next. *)
ClosedIsFinal == [][state = "closed" => state' = "closed"]_vars

-----------------------------------------------------------------------------
(* The pool implements bounded admission: the gate is open exactly while the *)
(* pool is RUNNING, and a scan is inside from its executor.submit until its  *)
(* slot is released.                                                         *)
Submitted(r) == pc[r] = "registering" \/ cb[r] \in {"armed", "mark", "release"}

Inside == {r \in Requests : Submitted(r)}

Gate == CASE state \in {"new", "starting"} -> "unopened"
          [] state = "running"             -> "open"
          [] OTHER                         -> "shut"

Admission == INSTANCE BoundedAdmission WITH
    Work <- Requests, Capacity <- MaxInFlight,
    gate <- Gate, inside <- Inside

ImplementsAdmission == Admission!Spec

-----------------------------------------------------------------------------
(* Every caller gets an answer, an error or a timeout, even if workers hang. *)
CallersReturn ==
    \A r \in Requests : pc[r] = "checked" ~> pc[r] = "done" \/ result[r] = "value"

(* Once the workers of a generation were terminated, every slot comes back.  *)
CapacityRecovers == killed ~> permits = MaxInFlight

(* A shutdown that waits on hung workers is ended by terminate or kill.      *)
EscalationEndsShutdown ==
    \A t, u \in Threads :
        op[u] = "signalling" ~> op[t] \notin {"closing", "joining", "closeFinish"}

(* terminate() and kill(): "immediately and permanently close the pool".     *)
ForceCloses == \A t \in Threads : op[t] = "forced" => state = "closed"

-----------------------------------------------------------------------------
(* The inductive strengthening of the invariants above.                      *)

Stopped == state \in {"shutting_down", "closed", "broken"}

(* How a caller's position, its callback, its two futures relate. *)
CallerCoherent ==
    \A r \in Requests :
        /\ pc[r] \in {"calling", "checked", "admitted", "brokenSubmit", "unwinding",
                      "registering"} => cb[r] = "none" /\ result[r] = "none"
        /\ pc[r] \in {"waiting", "expired", "timedOut", "breaking", "answered"}
              => cb[r] # "none"
        /\ pc[r] = "registering" => raw[r] # "none"
        /\ pc[r] # "registering" /\ cb[r] = "none" => raw[r] = "none"
        /\ cb[r] = "armed" => Outstanding(r)
        /\ cb[r] \in {"mark", "release", "publish", "over"} => raw[r] \in RawOutcomes
        /\ result[r] \in {"value", "error"} => cb[r] = "over"

(* Who holds the lifecycle lock, and what the pool looks like meanwhile. *)
LifecycleCoherent ==
    /\ \A t \in Threads :
        /\ op[t] \in {"spawning", "probing"} => state = "starting" /\ lifecycle = t
        /\ op[t] = "probing" => attached /\ exec \in {"open", "broken"}
        /\ op[t] \in {"discarding", "signalling"} =>
              Stopped /\ state # "closed" /\ lifecycle = t
        /\ op[t] \in {"closing", "joining", "closeFinish"} => Stopped
    /\ \A r \in Requests : pc[r] = "breaking" => Stopped /\ lifecycle = r
    /\ RunningIsServed

IndInv ==
    /\ VariablesTyped
    /\ CallerCoherent
    /\ LifecycleCoherent
    /\ PermitsConserved
    /\ CloseIsQuiescent

=============================================================================
