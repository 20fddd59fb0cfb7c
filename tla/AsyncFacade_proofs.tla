------------------------- MODULE AsyncFacade_proofs -------------------------
(***************************************************************************)
(* Proofs about AsyncFacade, for every set of request and lifecycle tasks  *)
(* and every bound on slots and threads.  IndInv adds three facts to the   *)
(* checked invariants: a task that waits for a slot has no earlier work in *)
(* the pool, from StopAccepting on nothing is admitted, and a closed       *)
(* runner neither accepts nor holds pending work.                          *)
(***************************************************************************)
EXTENDS AsyncFacade, FiniteSetTheorems, TLAPS

(* The requests whose future is tracked are finitely many. *)
LEMMA PendingFinite ==
  ASSUME IndInv
  PROVE  IsFiniteSet(pending) /\ Cardinality(pending) \in Nat
PROOF
  <1>1. IsFiniteSet(pending)
    BY AsyncAssumption, FS_Subset DEF IndInv, TypeOK
  <1>2. QED
    BY <1>1, FS_CardinalityType

(* A facade that was just constructed. *)
LEMMA InitIndInv == Init => IndInv
PROOF
  <1> SUFFICES ASSUME Init PROVE IndInv
    OBVIOUS
  <1> USE AsyncAssumption DEF Init
  <1>1. TypeOK
    <2>1. capacity \in 0..MaxInFlight /\ pending \in SUBSET Requests
      OBVIOUS
    <2>2. \A t \in Closers : lock = t <=> op[t] # "idle"
      OBVIOUS
    <2>3. forced \in [Closers -> BOOLEAN]
      OBVIOUS
    <2>4. /\ lock \in Closers \cup {Nobody}
          /\ op \in [Closers -> {"idle", "transition", "scheduled", "draining",
                                "operating", "shutting", "joining"}]
          /\ outcome \in [Closers -> {"none", "returned", "raised"}]
          /\ firewall \in {"new", "running", "broken", "closed"}
      OBVIOUS
    <2>5. QED
      BY <2>1, <2>2, <2>3, <2>4 DEF TypeOK
  <1>2. SlotsFollowWork
    <2>1. \A r \in Requests : job[r] = "none"
      OBVIOUS
    <2>2. Cardinality({}) = 0
      BY FS_EmptySet
    <2>3. QED
      BY <2>1, <2>2 DEF SlotsFollowWork
  <1>3. QED
    BY <1>1, <1>2
       DEF IndInv, WaitersHaveNoWork, StoppedUnderClose, GracefulCloseIsDrained,
           ClosedRunnerIsShut

(* A task that enters the thread pool takes one free slot ... *)
LEMMA AdmitStep ==
  ASSUME IndInv, NEW r \in Requests, Admit(r)
  PROVE  IndInv'
PROOF
  <1> USE DEF IndInv
  <1>1. r \notin pending
    BY DEF Admit, WaitersHaveNoWork, SlotsFollowWork
  <1>2. Cardinality(pending') = Cardinality(pending) + 1
    BY <1>1, PendingFinite, FS_AddElement DEF Admit
  <1>3. SlotsFollowWork'
    BY <1>1, <1>2, PendingFinite, AsyncAssumption DEF Admit, SlotsFollowWork, TypeOK
  <1>4. TypeOK'
    BY AsyncAssumption DEF Admit, TypeOK, runnerVars, closerVars
  <1>5. WaitersHaveNoWork'
    BY DEF Admit, WaitersHaveNoWork, TypeOK
  <1>6. QED
    BY <1>3, <1>4, <1>5
       DEF Admit, Admitting, StoppedUnderClose, GracefulCloseIsDrained,
           ClosedRunnerIsShut, runnerVars, closerVars

(* ... and its completion gives that slot back. *)
LEMMA CompletedStep ==
  ASSUME IndInv, NEW r \in Requests, Completed(r)
  PROVE  IndInv'
PROOF
  <1> USE DEF IndInv
  <1>1. r \in pending
    BY DEF Completed, TypeOK, SlotsFollowWork
  <1>2. Cardinality(pending') = Cardinality(pending) - 1 /\ Cardinality(pending') \in Nat
    <2>1. IsFiniteSet(pending')
      BY PendingFinite, FS_Subset DEF Completed
    <2>2. QED
      BY <1>1, <2>1, PendingFinite, FS_RemoveElement, FS_CardinalityType DEF Completed
  <1>3. capacity + Cardinality(pending) = MaxInFlight /\ capacity \in Nat
    BY AsyncAssumption DEF SlotsFollowWork, TypeOK
  <1>4. capacity' \in 0..MaxInFlight /\ capacity' + Cardinality(pending') = MaxInFlight
    BY <1>2, <1>3, PendingFinite, AsyncAssumption DEF Completed
  <1>5. pending' = {s \in Requests : job'[s] # "none"}
    BY DEF Completed, SlotsFollowWork, TypeOK
  <1>6. TypeOK'
    BY <1>4 DEF Completed, TypeOK, runnerVars, closerVars
  <1>7. QED
    BY <1>4, <1>5, <1>6
       DEF Completed, SlotsFollowWork, WaitersHaveNoWork, StoppedUnderClose,
           GracefulCloseIsDrained, ClosedRunnerIsShut, runnerVars, closerVars

(* Other steps of a request move its task or its work only. *)
LEMMA RequestStepsKeep ==
  ASSUME IndInv, NEW r \in Requests,
         \/ QueueUp(r) \/ GiveUp(r) \/ RefuseLate(r) \/ CancelTask(r) \/ Resume(r)
         \/ StartJob(r) \/ EndJob(r)
  PROVE  IndInv'
PROOF
  <1> USE DEF IndInv, QueueUp, GiveUp, RefuseLate, CancelTask, Resume, StartJob, EndJob,
              runnerVars, closerVars
  <1>1. TypeOK'
    BY DEF TypeOK
  <1>2. \A s \in Requests : job'[s] = "none" <=> job[s] = "none"
    BY DEF TypeOK
  <1>3. SlotsFollowWork'
    BY <1>2 DEF SlotsFollowWork
  <1>4. WaitersHaveNoWork'
    BY DEF WaitersHaveNoWork, TypeOK
  <1>5. QED
    BY <1>1, <1>3, <1>4
       DEF StoppedUnderClose, GracefulCloseIsDrained, ClosedRunnerIsShut

(* A lifecycle step closes admission before it drains, and drains before it  *)
(* closes anything; no other lifecycle task is inside an operation.          *)
LEMMA CloserStepsKeep ==
  ASSUME IndInv, NEW t \in Closers,
         \/ TransitionBegin(t) \/ CloserStep(t)
         \/ \E force \in BOOLEAN : CloseBegin(t, force) \/ AlreadyClosed(t, force)
  PROVE  IndInv'
PROOF
  <1> USE DEF IndInv, runnerVars, requestVars, CloserGoto
  <1>0. Nobody \notin Closers
    BY AsyncAssumption
  <1>1. CASE TransitionBegin(t)
    BY <1>0, <1>1
       DEF TransitionBegin, TypeOK, SlotsFollowWork, WaitersHaveNoWork, StoppedUnderClose,
           GracefulCloseIsDrained, ClosedRunnerIsShut
  <1>2. CASE TransitionEnds(t)
    BY <1>0, <1>2
       DEF TransitionEnds, TypeOK, SlotsFollowWork, WaitersHaveNoWork, StoppedUnderClose,
           GracefulCloseIsDrained, ClosedRunnerIsShut
  <1>3. ASSUME NEW force \in BOOLEAN, CloseBegin(t, force)
        PROVE  IndInv'
    BY <1>0, <1>3
       DEF CloseBegin, TypeOK, SlotsFollowWork, WaitersHaveNoWork, StoppedUnderClose,
           GracefulCloseIsDrained, ClosedRunnerIsShut
  <1>4. ASSUME NEW force \in BOOLEAN, AlreadyClosed(t, force)
        PROVE  IndInv'
    BY <1>0, <1>4
       DEF AlreadyClosed, TypeOK, SlotsFollowWork, WaitersHaveNoWork, StoppedUnderClose,
           GracefulCloseIsDrained, ClosedRunnerIsShut
  <1>5. CASE StopAccepting(t)
    BY <1>0, <1>5
       DEF StopAccepting, TypeOK, SlotsFollowWork, WaitersHaveNoWork, StoppedUnderClose,
           GracefulCloseIsDrained, ClosedRunnerIsShut
  <1>6. CASE Drained(t)
    BY <1>0, <1>6
       DEF Drained, TypeOK, SlotsFollowWork, WaitersHaveNoWork, StoppedUnderClose,
           GracefulCloseIsDrained, ClosedRunnerIsShut
  <1>7. CASE Operate(t)
    BY <1>0, <1>7
       DEF Operate, TypeOK, SlotsFollowWork, WaitersHaveNoWork, StoppedUnderClose,
           GracefulCloseIsDrained, ClosedRunnerIsShut
  <1>8. CASE CloseRunner(t)
    BY <1>0, <1>8
       DEF CloseRunner, TypeOK, SlotsFollowWork, WaitersHaveNoWork, StoppedUnderClose,
           GracefulCloseIsDrained, ClosedRunnerIsShut
  <1>9. CASE CloseEnds(t)
    BY <1>0, <1>9
       DEF CloseEnds, TypeOK, SlotsFollowWork, WaitersHaveNoWork, StoppedUnderClose,
           GracefulCloseIsDrained, ClosedRunnerIsShut
  <1>10. QED
    BY <1>1, <1>2, <1>3, <1>4, <1>5, <1>6, <1>7, <1>8, <1>9 DEF CloserStep

(* Every step of a request, its work, a lifecycle task or the firewall. *)
LEMMA StepIndInv == IndInv /\ [Next]_vars => IndInv'
PROOF
  <1> SUFFICES ASSUME IndInv, [Next]_vars PROVE IndInv'
    OBVIOUS
  <1>1. CASE Crash
    BY <1>1
       DEF Crash, IndInv, TypeOK, SlotsFollowWork, WaitersHaveNoWork, StoppedUnderClose,
           GracefulCloseIsDrained, ClosedRunnerIsShut, runnerVars, requestVars, closerVars
  <1>2. CASE UNCHANGED vars
    BY <1>2
       DEF vars, IndInv, TypeOK, SlotsFollowWork, WaitersHaveNoWork, StoppedUnderClose,
           GracefulCloseIsDrained, ClosedRunnerIsShut
  <1>3. QED
    BY <1>1, <1>2, AdmitStep, CompletedStep, RequestStepsKeep, CloserStepsKeep
       DEF Next, RequestStep, JobStep

(* The inductive invariant holds in every reachable state. *)
THEOREM Inductive == Spec => []IndInv
PROOF
  BY InitIndInv, StepIndInv, PTL DEF Spec

(* The type invariant, the bound on free slots and the lock's holder. *)
THEOREM TypeCorrect == Spec => []TypeOK
PROOF
  <1>1. IndInv => TypeOK
    BY DEF IndInv
  <1>2. QED
    BY <1>1, Inductive, PTL

(* A slot is taken exactly while its request's work lives, for any number of *)
(* requests and however their tasks are cancelled.                           *)
THEOREM SlotsConserved == Spec => []SlotsFollowWork
PROOF
  <1>1. IndInv => SlotsFollowWork
    BY DEF IndInv
  <1>2. QED
    BY <1>1, Inductive, PTL

(* A graceful close closes the firewall under no request. *)
THEOREM GracefulCloseDrains == Spec => []GracefulCloseIsDrained
PROOF
  <1>1. IndInv => GracefulCloseIsDrained
    BY DEF IndInv
  <1>2. QED
    BY <1>1, Inductive, PTL

(* A closed runner's thread pool has no work left. *)
THEOREM ClosedRunnerIdle == Spec => []ClosedRunnerIsIdle
PROOF
  <1>1. IndInv => ClosedRunnerIsIdle
    BY DEF IndInv, ClosedRunnerIsShut, SlotsFollowWork, ClosedRunnerIsIdle
  <1>2. QED
    BY <1>1, Inductive, PTL

-----------------------------------------------------------------------------
(* The runner implements bounded admission: waiters that lose their slot to  *)
(* a close, cancelled callers and concurrent lifecycle tasks never admit a   *)
(* request beyond the bound or after the runner stopped accepting.           *)
THEOREM RunnerImplementsAdmission == Spec => ImplementsAdmission
PROOF
  <1> DEFINE gate == IF Admitting THEN "open" ELSE "shut"
  <1>1. Init => Admission!Init
    BY DEF Init, Admission!Init, Admitting
  <1>2. IndInv /\ [Next]_vars => [Admission!Next]_<<gate, pending>>
    <2> SUFFICES ASSUME IndInv, [Next]_vars
                 PROVE  [Admission!Next]_<<gate, pending>>
      OBVIOUS
    <2>1. ASSUME NEW r \in Requests, Admit(r)
          PROVE  Admission!Enter(r)
      <3>1. r \notin pending
        BY <2>1 DEF Admit, IndInv, WaitersHaveNoWork, SlotsFollowWork
      <3>2. Cardinality(pending) < MaxInFlight
        BY <2>1, PendingFinite, AsyncAssumption
           DEF Admit, IndInv, TypeOK, SlotsFollowWork
      <3>3. Admission!Cardinality(pending) = Cardinality(pending)
        BY DEF Admission!Cardinality, Cardinality
      <3>4. QED
        BY <2>1, <3>1, <3>2, <3>3 DEF Admit, Admission!Enter, Admitting, runnerVars
    <2>2. ASSUME NEW r \in Requests, Completed(r)
          PROVE  Admission!Leave(r)
      BY <2>2
         DEF Completed, IndInv, TypeOK, SlotsFollowWork, Admission!Leave, Admitting,
             runnerVars
    <2>3. ASSUME NEW r \in Requests,
                 \/ QueueUp(r) \/ GiveUp(r) \/ RefuseLate(r) \/ CancelTask(r) \/ Resume(r)
                 \/ StartJob(r) \/ EndJob(r)
          PROVE  UNCHANGED <<gate, pending>>
      BY <2>3
         DEF QueueUp, GiveUp, RefuseLate, CancelTask, Resume, StartJob, EndJob,
             runnerVars, Admitting
    <2>4. ASSUME NEW t \in Closers,
                 \/ TransitionBegin(t) \/ CloserStep(t)
                 \/ \E force \in BOOLEAN : CloseBegin(t, force) \/ AlreadyClosed(t, force)
          PROVE  pending' = pending /\ (gate' = gate \/ gate' = "shut")
      BY <2>4
         DEF TransitionBegin, CloserStep, CloseBegin, AlreadyClosed, TransitionEnds,
             StopAccepting, Drained, Operate, CloseRunner, CloseEnds, runnerVars,
             requestVars, Admitting
    <2>5. CASE Crash \/ UNCHANGED vars
      BY <2>5 DEF Crash, vars, runnerVars, requestVars, Admitting
    <2>6. gate # "open" => gate = "shut"
      OBVIOUS
    <2>7. QED
      BY <2>1, <2>2, <2>3, <2>4, <2>5, <2>6
         DEF Next, RequestStep, JobStep, Admission!Next, Admission!Shut
  <1>3. QED
    BY <1>1, <1>2, Inductive, PTL DEF Spec, ImplementsAdmission, Admission!Spec

=============================================================================
