------------------------- MODULE FirewallLifecycle -------------------------
(***************************************************************************)
(* Firewall (src/llm_ffw/facade.py) over its ProcessScannerPool: start,    *)
(* close, terminate and kill each hold the facade's own `_lifecycle_lock'  *)
(* for the whole pool operation, while requests go to the pool's process() *)
(* without any facade lock.  The pool is the module this one extends; here *)
(* only the facade may call its lifecycle operations.                      *)
(***************************************************************************)
EXTENDS ProcessPool

VARIABLES
    facadeLock,  \* the holder of Firewall._lifecycle_lock
    call,        \* call[t]: the facade operation thread t executes
    stage        \* stage[t]: how far it is

facadeVars == <<facadeLock, call, stage>>
allVars == <<vars, facadeVars>>

(* terminate and kill differ in the signal they send only: both are "force". *)
Calls  == {"none", "start", "close", "force"}
Stages == {"idle", "waiting", "entered", "inPool"}

FirewallInit ==
    /\ Init
    /\ facadeLock = Nobody
    /\ call = [t \in Threads |-> "none"]
    /\ stage = [t \in Threads |-> "idle"]

-----------------------------------------------------------------------------
(* A thread calls start, close, terminate or kill ... *)
Invoke(t, c) ==
    /\ stage[t] = "idle"
    /\ c # "none"
    /\ call' = [call EXCEPT ![t] = c]
    /\ stage' = [stage EXCEPT ![t] = "waiting"]
    /\ UNCHANGED <<vars, facadeLock>>

(* Mutant of Enter: the lock is taken over from its holder. *)
EnterAnyway(t) ==
    /\ stage[t] = "waiting"
    /\ facadeLock' = t
    /\ stage' = [stage EXCEPT ![t] = "entered"]
    /\ UNCHANGED <<vars, call>>

(* ... and takes the facade's lock. *)
Enter(t) ==
    /\ stage[t] = "waiting"
    /\ facadeLock = Nobody
    /\ facadeLock' = t
    /\ stage' = [stage EXCEPT ![t] = "entered"]
    /\ UNCHANGED <<vars, call>>

EnterPool(t) ==
    /\ stage[t] = "entered"
    /\ \/ call[t] = "start" /\ StartBegin(t)
       \/ call[t] = "close" /\ (ShutdownBegin(t) \/ CloseUnstarted(t))
       \/ call[t] = "force" /\ (ForceBegin(t) \/ ForceUnattached(t) \/ CloseUnstarted(t))
    /\ stage' = [stage EXCEPT ![t] = "inPool"]
    /\ UNCHANGED <<facadeLock, call>>

(* The call changes nothing: a running firewall is started again, a used     *)
(* pool refuses to start, a closed one has nothing left to close.            *)
NoEffect(t) ==
    /\ stage[t] = "entered"
    /\ lifecycle = Nobody
    /\ IF call[t] = "start" THEN state # "new" ELSE state = "closed"
    /\ stage' = [stage EXCEPT ![t] = "inPool"]
    /\ UNCHANGED <<vars, facadeLock, call>>

InPool(t) ==
    /\ ThreadStep(t)
    /\ UNCHANGED facadeVars

(* The pool operation returned or raised; an exception becomes a             *)
(* FirewallUnavailableError after the lock is released.                      *)
Leave(t) ==
    /\ stage[t] = "inPool"
    /\ op[t] = "idle"
    /\ facadeLock' = Nobody
    /\ call' = [call EXCEPT ![t] = "none"]
    /\ stage' = [stage EXCEPT ![t] = "idle"]
    /\ UNCHANGED vars

(* sanitize_*: process() on the pool; the facade never cancels a future it   *)
(* still waits for.                                                          *)
Request(r) ==
    /\ CheckRunning(r) \/ CallerStep(r) \/ CallbackStep(r)
    /\ UNCHANGED facadeVars

Workers ==
    /\ WorkerDies \/ \E r \in Requests : ExecutorStep(r)
    /\ UNCHANGED facadeVars

FacadeStep(t) == EnterPool(t) \/ NoEffect(t) \/ InPool(t) \/ Leave(t)

FirewallNext ==
    \/ \E t \in Threads : \/ \E c \in Calls : Invoke(t, c)
                          \/ Enter(t) \/ FacadeStep(t)
    \/ \E r \in Requests : Request(r)
    \/ Workers

FirewallSpec == FirewallInit /\ [][FirewallNext]_allVars

(* The pool's fairness, for the steps the facade leaves unchanged, and       *)
(* threads that keep running inside a call.                                  *)
ThreadFairness ==
    /\ \A t \in Threads : WF_allVars(FacadeStep(t))
    /\ \A r \in Requests :
          /\ WF_allVars(CallerStep(r) /\ UNCHANGED facadeVars)
          /\ WF_allVars(CallbackStep(r) /\ UNCHANGED facadeVars)
    /\ WF_allVars(killed /\ WorkerDies /\ UNCHANGED facadeVars)
    /\ WF_allVars((\E r \in Requests : FailOutstanding(r) \/ DropQueued(r))
                  /\ UNCHANGED facadeVars)

(* Workers take up queued scans and answer them, or die. *)
WorkerFairness ==
    \A r \in Requests :
        /\ WF_allVars(Dispatch(r) /\ UNCHANGED facadeVars)
        /\ WF_allVars(ExecutorStep(r) /\ UNCHANGED facadeVars)

(* Workers answer: what a graceful shutdown counts on. *)
FairFirewall == FirewallSpec /\ ThreadFairness /\ WorkerFairness

(* Workers may hang, but no thread is starved of the facade's lock. *)
HungFirewall == FirewallSpec /\ ThreadFairness /\ \A t \in Threads : SF_allVars(Enter(t))

-----------------------------------------------------------------------------
FacadeTyped ==
    /\ call \in [Threads -> Calls]
    /\ stage \in [Threads -> Stages]
    /\ facadeLock \in Threads \cup {Nobody}
    /\ \A t \in Threads : facadeLock = t <=> stage[t] \in {"entered", "inPool"}

(* Every variable has a value the code can give it, and the facade's lock is *)
(* held by the one thread that is between Enter and Leave.                   *)
FacadeTypeOK == TypeOK /\ FacadeTyped

(* A close() that returns normally leaves the pool CLOSED, although workers  *)
(* crash, requests time out and completion callbacks run late meanwhile: the *)
(* pool alone only promises it to a shutdown with no other one beside it.    *)
CloseCloses ==
    [][\A t \in Threads :
          op[t] = "closeFinish" /\ op'[t] = "idle" => state' = "closed"]_allVars

(* Every lifecycle operation that has the facade's lock gives it back, as    *)
(* long as workers answer or die.                                            *)
OperationsReturn ==
    \A t \in Threads : stage[t] = "entered" ~> stage[t] = "idle"

(* "Terminate workers at the service's graceful-shutdown deadline": a call   *)
(* of terminate or kill returns, also while a close() waits for hung workers.*)
DeadlineEscalates ==
    \A t \in Threads :
        stage[t] = "waiting" /\ call[t] = "force" ~> stage[t] = "idle"

-----------------------------------------------------------------------------
(* The inductive strengthening of CloseCloses. *)

Closing(t) == op[t] \in {"closing", "joining", "closeFinish"}

(* Only the thread that holds the facade's lock is inside a pool operation,  *)
(* and nothing takes the pool out of SHUTTING_DOWN under a close() of it.    *)
OneOperation ==
    \A t \in Threads :
        /\ op[t] # "idle" => stage[t] = "inPool"
        /\ Closing(t) => state = "shutting_down"

FacadeInv == FacadeTyped /\ OneOperation

=============================================================================
