------------------------- MODULE ProcessPool_proofs -------------------------
(***************************************************************************)
(* Proofs about ProcessPool, for every set of callers and lifecycle        *)
(* threads, every bound on the work in flight, and executors whose cleanup *)
(* may or may not raise.  The inductive invariant is IndInv: types, the    *)
(* coherence of each caller with its callback and futures, the coherence   *)
(* of the lifecycle lock with the pool's state, conservation of slots, and *)
(* quiescence at close.                                                    *)
(*                                                                         *)
(* The proofs about FirewallLifecycle follow: the facade only drives the   *)
(* pool the way the pool's own specification allows, and its lifecycle     *)
(* lock makes a close() that returns normally leave the pool CLOSED.  The  *)
(* invariant is FacadeInv: one thread at a time is inside a pool           *)
(* operation, and nothing moves a pool that this thread is closing.        *)
(***************************************************************************)
EXTENDS FirewallLifecycle, FiniteSetTheorems, TLAPS

-----------------------------------------------------------------------------
(* Frames: what the lifecycle threads and what the callers never write.      *)

(* Lifecycle threads touch neither slots nor callers. *)
LEMMA ThreadsLeaveCallers ==
  ASSUME NEW t \in Threads, ThreadCall(t) \/ ThreadStep(t)
  PROVE  UNCHANGED <<permits, callerVars>>
PROOF
  BY DEF ThreadCall, ThreadStep, StartBegin, Spawn, SpawnFails, Ready, ProbeFails,
         Discarded,
         CloseUnstarted, ShutdownBegin, NothingToShutDown, Joined,
         ShutdownRaises, ShutdownFinish, ForceBegin, ForceUnattached,
         ForceSignal, ForceReturn, ShutdownExecutor, callerVars

(* Callers, callbacks and the executor never move a lifecycle thread. *)
LEMMA CallersLeaveThreads ==
  ASSUME NEW r \in Requests,
         \/ CheckRunning(r) \/ Abandon(r)
         \/ CallerStep(r) \/ CallbackStep(r) \/ ExecutorStep(r)
  PROVE  UNCHANGED threadVars
PROOF
  BY DEF CallerStep, CallbackStep, ExecutorStep, threadVars, CheckRunning,
         AcquireSlot, Saturated, Submit, SubmitRaises,
         SubmitRefused, MarkBrokenSubmit, Unwind, Register, CallbackMark,
         CallbackRelease, CallbackPublish, Answered, Expire, CancelExpired,
         Abandon, BreakGeneration, TerminateBroken, Return, Rescan, Dispatch,
         WorkerAnswers, FailOutstanding, DropQueued, ResolveRaw

-----------------------------------------------------------------------------
(* Every step keeps every variable in its type. *)
LEMMA TypedStep ==
  ASSUME VariablesTyped, [Next]_vars
  PROVE  VariablesTyped'
PROOF
  <1> USE DEF VariablesTyped, callerVars, threadVars, execVars, PoolStates,
              CallerPoints, RawOutcomes, ThreadPoints
  <1>1. ASSUME NEW r \in Requests, CheckRunning(r)
        PROVE  VariablesTyped'
    BY <1>1 DEF CheckRunning, Goto
  <1>2. ASSUME NEW r \in Requests, AcquireSlot(r)
        PROVE  VariablesTyped'
    BY <1>2 DEF AcquireSlot, Goto
  <1>3. ASSUME NEW r \in Requests, Saturated(r)
        PROVE  VariablesTyped'
    BY <1>3 DEF Saturated, Goto
  <1>4. ASSUME NEW r \in Requests, Submit(r)
        PROVE  VariablesTyped'
    BY <1>4 DEF Submit, Goto
  <1>5. ASSUME NEW r \in Requests, SubmitRaises(r)
        PROVE  VariablesTyped'
    BY <1>5 DEF SubmitRaises, Goto
  <1>6. ASSUME NEW r \in Requests, SubmitRefused(r)
        PROVE  VariablesTyped'
    BY <1>6 DEF SubmitRefused, Goto
  <1>7. ASSUME NEW r \in Requests, MarkBrokenSubmit(r)
        PROVE  VariablesTyped'
    BY <1>7 DEF MarkBrokenSubmit, Goto, BreakIfRunning
  <1>8. ASSUME NEW r \in Requests, Unwind(r)
        PROVE  VariablesTyped'
    BY <1>8 DEF Unwind, Goto
  <1>9. ASSUME NEW r \in Requests, Register(r)
        PROVE  VariablesTyped'
    BY <1>9 DEF Register, Goto, CallbackEntry, Outstanding
  <1>10. ASSUME NEW r \in Requests, CallbackMark(r)
        PROVE  VariablesTyped'
    BY <1>10 DEF CallbackMark, BreakIfRunning
  <1>11. ASSUME NEW r \in Requests, CallbackRelease(r)
        PROVE  VariablesTyped'
    BY <1>11 DEF CallbackRelease
  <1>12. ASSUME NEW r \in Requests, CallbackPublish(r)
        PROVE  VariablesTyped'
    BY <1>12 DEF CallbackPublish
  <1>13. ASSUME NEW r \in Requests, Answered(r)
        PROVE  VariablesTyped'
    BY <1>13 DEF Answered, Goto
  <1>14. ASSUME NEW r \in Requests, Expire(r)
        PROVE  VariablesTyped'
    BY <1>14 DEF Expire, Goto
  <1>15. ASSUME NEW r \in Requests, CancelExpired(r)
        PROVE  VariablesTyped'
    BY <1>15 DEF CancelExpired, Goto, CancelResult, CallbackEntry
  <1>16. ASSUME NEW r \in Requests, Abandon(r)
        PROVE  VariablesTyped'
    BY <1>16 DEF Abandon, Goto, CancelResult, CallbackEntry
  <1>17. ASSUME NEW r \in Requests, BreakGeneration(r)
        PROVE  VariablesTyped'
    BY <1>17 DEF BreakGeneration, Goto
  <1>18. ASSUME NEW r \in Requests, TerminateBroken(r)
        PROVE  VariablesTyped'
    BY <1>18 DEF TerminateBroken, Goto, SignalWorkers
  <1>19. ASSUME NEW r \in Requests, Return(r)
        PROVE  VariablesTyped'
    BY <1>19 DEF Return, Goto
  <1>20. ASSUME NEW r \in Requests, Rescan(r)
        PROVE  VariablesTyped'
    BY <1>20 DEF Rescan, Goto
  <1>21. ASSUME NEW r \in Requests, Dispatch(r)
        PROVE  VariablesTyped'
    BY <1>21 DEF Dispatch
  <1>22. ASSUME NEW r \in Requests, NEW o \in {"value", "error"}, WorkerAnswers(r, o)
        PROVE  VariablesTyped'
    BY <1>22 DEF WorkerAnswers, ResolveRaw, CallbackEntry
  <1>23. ASSUME NEW r \in Requests, FailOutstanding(r)
        PROVE  VariablesTyped'
    BY <1>23 DEF FailOutstanding, ResolveRaw, CallbackEntry
  <1>24. ASSUME NEW r \in Requests, DropQueued(r)
        PROVE  VariablesTyped'
    BY <1>24 DEF DropQueued, ResolveRaw, CallbackEntry
  <1>25. ASSUME NEW t \in Threads, StartBegin(t)
        PROVE  VariablesTyped'
    BY <1>25 DEF StartBegin, ThreadGoto
  <1>26. ASSUME NEW t \in Threads, Spawn(t)
        PROVE  VariablesTyped'
    BY <1>26 DEF Spawn, ThreadGoto
  <1>27. ASSUME NEW t \in Threads, SpawnFails(t)
        PROVE  VariablesTyped'
    BY <1>27 DEF SpawnFails, ThreadGoto
  <1>28. ASSUME NEW t \in Threads, Ready(t)
        PROVE  VariablesTyped'
    BY <1>28 DEF Ready, ThreadGoto
  <1>29. ASSUME NEW t \in Threads, ProbeFails(t)
        PROVE  VariablesTyped'
    BY <1>29 DEF ProbeFails, ThreadGoto
  <1>30. ASSUME NEW t \in Threads, Discarded(t)
        PROVE  VariablesTyped'
    BY <1>30 DEF Discarded, ThreadGoto
  <1>31. ASSUME NEW t \in Threads, CloseUnstarted(t)
        PROVE  VariablesTyped'
    BY <1>31 DEF CloseUnstarted
  <1>32. ASSUME NEW t \in Threads, ShutdownBegin(t)
        PROVE  VariablesTyped'
    BY <1>32 DEF ShutdownBegin, ThreadGoto
  <1>33. ASSUME NEW t \in Threads, NothingToShutDown(t)
        PROVE  VariablesTyped'
    BY <1>33 DEF NothingToShutDown, ThreadGoto
  <1>34. ASSUME NEW t \in Threads, Joined(t)
        PROVE  VariablesTyped'
    BY <1>34 DEF Joined, ThreadGoto
  <1>35. ASSUME NEW t \in Threads, ShutdownRaises(t)
        PROVE  VariablesTyped'
    BY <1>35 DEF ShutdownRaises, ThreadGoto
  <1>36. ASSUME NEW t \in Threads, ShutdownFinish(t)
        PROVE  VariablesTyped'
    BY <1>36 DEF ShutdownFinish, ThreadGoto
  <1>37. ASSUME NEW t \in Threads, ForceBegin(t)
        PROVE  VariablesTyped'
    BY <1>37 DEF ForceBegin, ThreadGoto
  <1>38. ASSUME NEW t \in Threads, ForceUnattached(t)
        PROVE  VariablesTyped'
    BY <1>38 DEF ForceUnattached, ThreadGoto
  <1>39. ASSUME NEW t \in Threads, ForceSignal(t)
        PROVE  VariablesTyped'
    BY <1>39 DEF ForceSignal, ThreadGoto, SignalWorkers
  <1>40. ASSUME NEW t \in Threads, ForceReturn(t)
        PROVE  VariablesTyped'
    BY <1>40 DEF ForceReturn, ThreadGoto
  <1>41. ASSUME NEW t \in Threads, NEW cancel \in BOOLEAN, ShutdownExecutor(t, cancel)
        PROVE  VariablesTyped'
    BY <1>41 DEF ShutdownExecutor, ThreadGoto
  <1>42. ASSUME WorkerDies
        PROVE  VariablesTyped'
    BY <1>42 DEF WorkerDies
  <1>43. CASE UNCHANGED vars
    BY <1>43 DEF vars
  <1>44. QED
    BY <1>1, <1>2, <1>3, <1>4, <1>5, <1>6, <1>7, <1>8, <1>9, <1>10, <1>11,
       <1>12, <1>13, <1>14, <1>15, <1>16, <1>17, <1>18, <1>19, <1>20, <1>21,
       <1>22, <1>23, <1>24, <1>25, <1>26, <1>27, <1>28, <1>29, <1>30, <1>31,
       <1>32, <1>33, <1>34, <1>35, <1>36, <1>37, <1>38, <1>39, <1>40, <1>41,
       <1>42, <1>43
       DEF Next, CallerStep, CallbackStep, ExecutorStep, ThreadCall, ThreadStep

-----------------------------------------------------------------------------
(* A caller, its callback and its two futures stay in step. *)
LEMMA CallerCoherentStep ==
  ASSUME VariablesTyped, CallerCoherent, [Next]_vars
  PROVE  CallerCoherent'
PROOF
  <1> USE DEF CallerCoherent, VariablesTyped, Outstanding, RawOutcomes,
              InCallback, callerVars
  <1>1. ASSUME NEW r \in Requests, CheckRunning(r)
        PROVE  CallerCoherent'
    BY <1>1 DEF CheckRunning, Goto
  <1>2. ASSUME NEW r \in Requests, AcquireSlot(r)
        PROVE  CallerCoherent'
    BY <1>2 DEF AcquireSlot, Goto
  <1>3. ASSUME NEW r \in Requests, Saturated(r)
        PROVE  CallerCoherent'
    BY <1>3 DEF Saturated, Goto
  <1>4. ASSUME NEW r \in Requests, Submit(r)
        PROVE  CallerCoherent'
    BY <1>4 DEF Submit, Goto
  <1>5. ASSUME NEW r \in Requests, SubmitRaises(r)
        PROVE  CallerCoherent'
    BY <1>5 DEF SubmitRaises, Goto
  <1>6. ASSUME NEW r \in Requests, SubmitRefused(r)
        PROVE  CallerCoherent'
    BY <1>6 DEF SubmitRefused, Goto
  <1>7. ASSUME NEW r \in Requests, MarkBrokenSubmit(r)
        PROVE  CallerCoherent'
    BY <1>7 DEF MarkBrokenSubmit, Goto, BreakIfRunning
  <1>8. ASSUME NEW r \in Requests, Unwind(r)
        PROVE  CallerCoherent'
    BY <1>8 DEF Unwind, Goto
  <1>9. ASSUME NEW r \in Requests, Register(r)
        PROVE  CallerCoherent'
    BY <1>9 DEF Register, Goto, CallbackEntry, Outstanding
  <1>10. ASSUME NEW r \in Requests, CallbackMark(r)
        PROVE  CallerCoherent'
    BY <1>10 DEF CallbackMark, BreakIfRunning
  <1>11. ASSUME NEW r \in Requests, CallbackRelease(r)
        PROVE  CallerCoherent'
    BY <1>11 DEF CallbackRelease
  <1>12. ASSUME NEW r \in Requests, CallbackPublish(r)
        PROVE  CallerCoherent'
    BY <1>12 DEF CallbackPublish
  <1>13. ASSUME NEW r \in Requests, Answered(r)
        PROVE  CallerCoherent'
    BY <1>13 DEF Answered, Goto
  <1>14. ASSUME NEW r \in Requests, Expire(r)
        PROVE  CallerCoherent'
    BY <1>14 DEF Expire, Goto
  <1>15. ASSUME NEW r \in Requests, CancelExpired(r)
        PROVE  CallerCoherent'
    BY <1>15 DEF CancelExpired, Goto, CancelResult, CallbackEntry
  <1>16. ASSUME NEW r \in Requests, Abandon(r)
        PROVE  CallerCoherent'
    BY <1>16 DEF Abandon, Goto, CancelResult, CallbackEntry
  <1>17. ASSUME NEW r \in Requests, BreakGeneration(r)
        PROVE  CallerCoherent'
    BY <1>17 DEF BreakGeneration, Goto
  <1>18. ASSUME NEW r \in Requests, TerminateBroken(r)
        PROVE  CallerCoherent'
    BY <1>18 DEF TerminateBroken, Goto, SignalWorkers
  <1>19. ASSUME NEW r \in Requests, Return(r)
        PROVE  CallerCoherent'
    BY <1>19 DEF Return, Goto
  <1>20. ASSUME NEW r \in Requests, Rescan(r)
        PROVE  CallerCoherent'
    BY <1>20 DEF Rescan, Goto
  <1>21. ASSUME NEW r \in Requests, Dispatch(r)
        PROVE  CallerCoherent'
    BY <1>21 DEF Dispatch
  <1>22. ASSUME NEW r \in Requests, NEW o \in {"value", "error"}, WorkerAnswers(r, o)
        PROVE  CallerCoherent'
    BY <1>22 DEF WorkerAnswers, ResolveRaw, CallbackEntry
  <1>23. ASSUME NEW r \in Requests, FailOutstanding(r)
        PROVE  CallerCoherent'
    BY <1>23 DEF FailOutstanding, ResolveRaw, CallbackEntry
  <1>24. ASSUME NEW r \in Requests, DropQueued(r)
        PROVE  CallerCoherent'
    BY <1>24 DEF DropQueued, ResolveRaw, CallbackEntry
  <1>25. ASSUME NEW t \in Threads, ThreadCall(t) \/ ThreadStep(t)
        PROVE  CallerCoherent'
    BY <1>25, ThreadsLeaveCallers
  <1>26. CASE WorkerDies \/ UNCHANGED vars
    BY <1>26 DEF WorkerDies, vars
  <1>27. QED
    BY <1>1, <1>2, <1>3, <1>4, <1>5, <1>6, <1>7, <1>8, <1>9, <1>10, <1>11,
       <1>12, <1>13, <1>14, <1>15, <1>16, <1>17, <1>18, <1>19, <1>20, <1>21,
       <1>22, <1>23, <1>24, <1>25, <1>26
       DEF Next, CallerStep, CallbackStep, ExecutorStep

-----------------------------------------------------------------------------
(* Finitely many callers own finitely many slots.                            *)
LEMMA HoldersFinite == IsFiniteSet(Holders)
PROOF
  BY PoolAssumption, FS_Subset DEF Holders

(* A step that keeps the semaphore and the set of owners conserves slots. *)
LEMMA SameHolders ==
  ASSUME PermitsConserved, permits' = permits, Holders' = Holders
  PROVE  PermitsConserved'
PROOF
  BY DEF PermitsConserved

(* One caller more owns a slot, and one slot less is free.                   *)
LEMMA OwnerAdded ==
  ASSUME NEW r \in Requests, PermitsConserved, VariablesTyped, permits > 0,
         r \notin Holders, Holders' = Holders \cup {r}, permits' = permits - 1
  PROVE  PermitsConserved'
PROOF
  <1>1. Cardinality(Holders) \in Nat
    BY HoldersFinite, FS_CardinalityType
  <1>2. Cardinality(Holders') = Cardinality(Holders) + 1
    BY HoldersFinite, FS_AddElement
  <1>3. QED
    BY <1>1, <1>2 DEF PermitsConserved, VariablesTyped

(* One caller less owns a slot, and one slot more is free.                   *)
LEMMA OwnerRemoved ==
  ASSUME NEW r \in Requests, PermitsConserved, VariablesTyped,
         r \in Holders, Holders' = Holders \ {r}, permits' = permits + 1
  PROVE  PermitsConserved'
PROOF
  <1>1. Cardinality(Holders) \in Nat
    BY HoldersFinite, FS_CardinalityType
  <1>2. Cardinality(Holders') = Cardinality(Holders) - 1
    BY HoldersFinite, FS_RemoveElement
  <1>3. QED
    BY <1>1, <1>2 DEF PermitsConserved, VariablesTyped

(* Slots are conserved: only three steps move one, each by exactly one owner. *)
LEMMA PermitsStep ==
  ASSUME VariablesTyped, CallerCoherent, PermitsConserved, [Next]_vars
  PROVE  PermitsConserved'
PROOF
  <1> USE DEF VariablesTyped, CallerCoherent
  <1>1. ASSUME NEW r \in Requests, CheckRunning(r)
        PROVE  PermitsConserved'
    BY <1>1, SameHolders DEF CheckRunning, Goto, Holders, Holds, Outstanding
  <1>2. ASSUME NEW r \in Requests, AcquireSlot(r)
        PROVE  PermitsConserved'
    <2>1. /\ r \notin Holders /\ Holders' = Holders \cup {r}
          /\ permits > 0 /\ permits' = permits - 1
      BY <1>2 DEF AcquireSlot, Goto, Holders, Holds
    <2>2. QED
      BY <2>1, OwnerAdded
  <1>3. ASSUME NEW r \in Requests, Saturated(r)
        PROVE  PermitsConserved'
    BY <1>3, SameHolders DEF Saturated, Goto, Holders, Holds, Outstanding
  <1>4. ASSUME NEW r \in Requests, Submit(r)
        PROVE  PermitsConserved'
    BY <1>4, SameHolders DEF Submit, Goto, Holders, Holds, Outstanding
  <1>5. ASSUME NEW r \in Requests, SubmitRaises(r)
        PROVE  PermitsConserved'
    BY <1>5, SameHolders DEF SubmitRaises, Goto, Holders, Holds, Outstanding
  <1>6. ASSUME NEW r \in Requests, SubmitRefused(r)
        PROVE  PermitsConserved'
    BY <1>6, SameHolders DEF SubmitRefused, Goto, Holders, Holds, Outstanding
  <1>7. ASSUME NEW r \in Requests, MarkBrokenSubmit(r)
        PROVE  PermitsConserved'
    BY <1>7, SameHolders DEF MarkBrokenSubmit, Goto, BreakIfRunning, Holders, Holds,
                Outstanding
  <1>8. ASSUME NEW r \in Requests, Unwind(r)
        PROVE  PermitsConserved'
    <2>1. r \in Holders /\ Holders' = Holders \ {r} /\ permits' = permits + 1
      BY <1>8 DEF Unwind, Goto, Holders, Holds
    <2>2. QED
      BY <2>1, OwnerRemoved
  <1>9. ASSUME NEW r \in Requests, Register(r)
        PROVE  PermitsConserved'
    BY <1>9, SameHolders DEF Register, Goto, CallbackEntry, Outstanding, Holders, Holds
  <1>10. ASSUME NEW r \in Requests, CallbackMark(r)
        PROVE  PermitsConserved'
    BY <1>10, SameHolders DEF CallbackMark, BreakIfRunning, Holders, Holds,
                Outstanding
  <1>11. ASSUME NEW r \in Requests, CallbackRelease(r)
        PROVE  PermitsConserved'
    <2>1. r \in Holders /\ Holders' = Holders \ {r} /\ permits' = permits + 1
      BY <1>11 DEF CallbackRelease, Holders, Holds
    <2>2. QED
      BY <2>1, OwnerRemoved
  <1>12. ASSUME NEW r \in Requests, CallbackPublish(r)
        PROVE  PermitsConserved'
    BY <1>12, SameHolders DEF CallbackPublish, Holders, Holds, Outstanding
  <1>13. ASSUME NEW r \in Requests, Answered(r)
        PROVE  PermitsConserved'
    BY <1>13, SameHolders DEF Answered, Goto, Holders, Holds, Outstanding
  <1>14. ASSUME NEW r \in Requests, Expire(r)
        PROVE  PermitsConserved'
    BY <1>14, SameHolders DEF Expire, Goto, Holders, Holds, Outstanding
  <1>15. ASSUME NEW r \in Requests, CancelExpired(r)
        PROVE  PermitsConserved'
    <2>1. raw[r] = "pending" => cb[r] = "armed"
      BY <1>15 DEF CancelExpired, Goto, RawOutcomes
    <2>2. \A s \in Requests : Holds(s)' <=> Holds(s)
      BY <1>15, <2>1 DEF CancelExpired, CancelResult, CallbackEntry, Goto, Holds
    <2>3. QED
      BY <1>15, <2>2, SameHolders DEF CancelExpired, Holders
  <1>16. ASSUME NEW r \in Requests, Abandon(r)
        PROVE  PermitsConserved'
    <2>1. raw[r] = "pending" => cb[r] = "armed"
      BY <1>16 DEF Abandon, Goto, RawOutcomes
    <2>2. \A s \in Requests : Holds(s)' <=> Holds(s)
      BY <1>16, <2>1 DEF Abandon, CancelResult, CallbackEntry, Goto, Holds
    <2>3. QED
      BY <1>16, <2>2, SameHolders DEF Abandon, Holders
  <1>17. ASSUME NEW r \in Requests, BreakGeneration(r)
        PROVE  PermitsConserved'
    BY <1>17, SameHolders DEF BreakGeneration, Goto, Holders, Holds, Outstanding
  <1>18. ASSUME NEW r \in Requests, TerminateBroken(r)
        PROVE  PermitsConserved'
    BY <1>18, SameHolders DEF TerminateBroken, Goto, SignalWorkers, Holders, Holds,
                Outstanding
  <1>19. ASSUME NEW r \in Requests, Return(r)
        PROVE  PermitsConserved'
    BY <1>19, SameHolders DEF Return, Goto, Holders, Holds, Outstanding
  <1>20. ASSUME NEW r \in Requests, Rescan(r)
        PROVE  PermitsConserved'
    BY <1>20, SameHolders DEF Rescan, Goto, Holders, Holds, Outstanding
  <1>21. ASSUME NEW r \in Requests, Dispatch(r)
        PROVE  PermitsConserved'
    BY <1>21, SameHolders DEF Dispatch, Holders, Holds, Outstanding
  <1>22. ASSUME NEW r \in Requests, NEW o \in {"value", "error"}, WorkerAnswers(r, o)
        PROVE  PermitsConserved'
    BY <1>22, SameHolders DEF WorkerAnswers, ResolveRaw, CallbackEntry, Holders, Holds,
                Outstanding
  <1>23. ASSUME NEW r \in Requests, FailOutstanding(r)
        PROVE  PermitsConserved'
    BY <1>23, SameHolders DEF FailOutstanding, ResolveRaw, CallbackEntry, Holders, Holds
  <1>24. ASSUME NEW r \in Requests, DropQueued(r)
        PROVE  PermitsConserved'
    BY <1>24, SameHolders DEF DropQueued, ResolveRaw, CallbackEntry, Holders, Holds,
                Outstanding
  <1>25. ASSUME NEW t \in Threads, ThreadCall(t) \/ ThreadStep(t)
        PROVE  PermitsConserved'
    BY <1>25, ThreadsLeaveCallers, SameHolders DEF Holders, Holds, callerVars
  <1>26. CASE WorkerDies \/ UNCHANGED vars
    BY <1>26, SameHolders DEF WorkerDies, vars, Holders, Holds, callerVars
  <1>27. QED
    BY <1>1, <1>2, <1>3, <1>4, <1>5, <1>6, <1>7, <1>8, <1>9, <1>10, <1>11,
       <1>12, <1>13, <1>14, <1>15, <1>16, <1>17, <1>18, <1>19, <1>20, <1>21,
       <1>22, <1>23, <1>24, <1>25, <1>26
       DEF Next, CallerStep, CallbackStep, ExecutorStep

-----------------------------------------------------------------------------
(* Whoever holds the lifecycle lock finds the pool in the state its own      *)
(* operation left, and a running pool keeps its executor.                    *)
LEMMA LifecycleStep ==
  ASSUME VariablesTyped, LifecycleCoherent, [Next]_vars
  PROVE  LifecycleCoherent'
PROOF
  <1> USE PoolAssumption
      DEF VariablesTyped, LifecycleCoherent, Stopped, RunningIsServed, callerVars,
          threadVars, execVars
  <1>1. ASSUME NEW r \in Requests, CheckRunning(r)
        PROVE  LifecycleCoherent'
    BY <1>1 DEF CheckRunning, Goto
  <1>2. ASSUME NEW r \in Requests, AcquireSlot(r)
        PROVE  LifecycleCoherent'
    BY <1>2 DEF AcquireSlot, Goto
  <1>3. ASSUME NEW r \in Requests, Saturated(r)
        PROVE  LifecycleCoherent'
    BY <1>3 DEF Saturated, Goto
  <1>4. ASSUME NEW r \in Requests, Submit(r)
        PROVE  LifecycleCoherent'
    BY <1>4 DEF Submit, Goto
  <1>5. ASSUME NEW r \in Requests, SubmitRaises(r)
        PROVE  LifecycleCoherent'
    BY <1>5 DEF SubmitRaises, Goto
  <1>6. ASSUME NEW r \in Requests, SubmitRefused(r)
        PROVE  LifecycleCoherent'
    BY <1>6 DEF SubmitRefused, Goto
  <1>7. ASSUME NEW r \in Requests, MarkBrokenSubmit(r)
        PROVE  LifecycleCoherent'
    BY <1>7 DEF MarkBrokenSubmit, Goto, BreakIfRunning
  <1>8. ASSUME NEW r \in Requests, Unwind(r)
        PROVE  LifecycleCoherent'
    BY <1>8 DEF Unwind, Goto
  <1>9. ASSUME NEW r \in Requests, Register(r)
        PROVE  LifecycleCoherent'
    BY <1>9 DEF Register, Goto, CallbackEntry, Outstanding
  <1>10. ASSUME NEW r \in Requests, CallbackMark(r)
        PROVE  LifecycleCoherent'
    BY <1>10 DEF CallbackMark, BreakIfRunning
  <1>11. ASSUME NEW r \in Requests, CallbackRelease(r)
        PROVE  LifecycleCoherent'
    BY <1>11 DEF CallbackRelease
  <1>12. ASSUME NEW r \in Requests, CallbackPublish(r)
        PROVE  LifecycleCoherent'
    BY <1>12 DEF CallbackPublish
  <1>13. ASSUME NEW r \in Requests, Answered(r)
        PROVE  LifecycleCoherent'
    BY <1>13 DEF Answered, Goto
  <1>14. ASSUME NEW r \in Requests, Expire(r)
        PROVE  LifecycleCoherent'
    BY <1>14 DEF Expire, Goto
  <1>15. ASSUME NEW r \in Requests, CancelExpired(r)
        PROVE  LifecycleCoherent'
    BY <1>15 DEF CancelExpired, Goto, CancelResult, CallbackEntry
  <1>16. ASSUME NEW r \in Requests, Abandon(r)
        PROVE  LifecycleCoherent'
    BY <1>16 DEF Abandon, Goto, CancelResult, CallbackEntry
  <1>17. ASSUME NEW r \in Requests, BreakGeneration(r)
        PROVE  LifecycleCoherent'
    BY <1>17 DEF BreakGeneration, Goto
  <1>18. ASSUME NEW r \in Requests, TerminateBroken(r)
        PROVE  LifecycleCoherent'
    BY <1>18 DEF TerminateBroken, Goto, SignalWorkers
  <1>19. ASSUME NEW r \in Requests, Return(r)
        PROVE  LifecycleCoherent'
    BY <1>19 DEF Return, Goto
  <1>20. ASSUME NEW r \in Requests, Rescan(r)
        PROVE  LifecycleCoherent'
    BY <1>20 DEF Rescan, Goto
  <1>21. ASSUME NEW r \in Requests, Dispatch(r)
        PROVE  LifecycleCoherent'
    BY <1>21 DEF Dispatch
  <1>22. ASSUME NEW r \in Requests, NEW o \in {"value", "error"}, WorkerAnswers(r, o)
        PROVE  LifecycleCoherent'
    BY <1>22 DEF WorkerAnswers, ResolveRaw, CallbackEntry
  <1>23. ASSUME NEW r \in Requests, FailOutstanding(r)
        PROVE  LifecycleCoherent'
    BY <1>23 DEF FailOutstanding, ResolveRaw, CallbackEntry
  <1>24. ASSUME NEW r \in Requests, DropQueued(r)
        PROVE  LifecycleCoherent'
    BY <1>24 DEF DropQueued, ResolveRaw, CallbackEntry
  <1>25. ASSUME NEW t \in Threads, StartBegin(t)
        PROVE  LifecycleCoherent'
    BY <1>25 DEF StartBegin, ThreadGoto
  <1>26. ASSUME NEW t \in Threads, Spawn(t)
        PROVE  LifecycleCoherent'
    BY <1>26 DEF Spawn, ThreadGoto
  <1>27. ASSUME NEW t \in Threads, SpawnFails(t)
        PROVE  LifecycleCoherent'
    BY <1>27 DEF SpawnFails, ThreadGoto
  <1>28. ASSUME NEW t \in Threads, Ready(t)
        PROVE  LifecycleCoherent'
    BY <1>28 DEF Ready, ThreadGoto
  <1>29. ASSUME NEW t \in Threads, ProbeFails(t)
        PROVE  LifecycleCoherent'
    BY <1>29 DEF ProbeFails, ThreadGoto
  <1>30. ASSUME NEW t \in Threads, Discarded(t)
        PROVE  LifecycleCoherent'
    BY <1>30 DEF Discarded, ThreadGoto
  <1>31. ASSUME NEW t \in Threads, CloseUnstarted(t)
        PROVE  LifecycleCoherent'
    BY <1>31 DEF CloseUnstarted
  <1>32. ASSUME NEW t \in Threads, ShutdownBegin(t)
        PROVE  LifecycleCoherent'
    BY <1>32 DEF ShutdownBegin, ThreadGoto
  <1>33. ASSUME NEW t \in Threads, NothingToShutDown(t)
        PROVE  LifecycleCoherent'
    BY <1>33 DEF NothingToShutDown, ThreadGoto
  <1>34. ASSUME NEW t \in Threads, Joined(t)
        PROVE  LifecycleCoherent'
    BY <1>34 DEF Joined, ThreadGoto
  <1>35. ASSUME NEW t \in Threads, ShutdownRaises(t)
        PROVE  LifecycleCoherent'
    BY <1>35 DEF ShutdownRaises, ThreadGoto
  <1>36. ASSUME NEW t \in Threads, ShutdownFinish(t)
        PROVE  LifecycleCoherent'
    BY <1>36 DEF ShutdownFinish, ThreadGoto
  <1>37. ASSUME NEW t \in Threads, ForceBegin(t)
        PROVE  LifecycleCoherent'
    BY <1>37 DEF ForceBegin, ThreadGoto
  <1>38. ASSUME NEW t \in Threads, ForceUnattached(t)
        PROVE  LifecycleCoherent'
    BY <1>38 DEF ForceUnattached, ThreadGoto
  <1>39. ASSUME NEW t \in Threads, ForceSignal(t)
        PROVE  LifecycleCoherent'
    BY <1>39 DEF ForceSignal, ThreadGoto, SignalWorkers
  <1>40. ASSUME NEW t \in Threads, ForceReturn(t)
        PROVE  LifecycleCoherent'
    BY <1>40 DEF ForceReturn, ThreadGoto
  <1>41. ASSUME NEW t \in Threads, NEW cancel \in BOOLEAN, ShutdownExecutor(t, cancel)
        PROVE  LifecycleCoherent'
    BY <1>41 DEF ShutdownExecutor, ThreadGoto
  <1>42. ASSUME WorkerDies
        PROVE  LifecycleCoherent'
    BY <1>42 DEF WorkerDies
  <1>43. CASE UNCHANGED vars
    BY <1>43 DEF vars
  <1>44. QED
    BY <1>1, <1>2, <1>3, <1>4, <1>5, <1>6, <1>7, <1>8, <1>9, <1>10, <1>11,
       <1>12, <1>13, <1>14, <1>15, <1>16, <1>17, <1>18, <1>19, <1>20, <1>21,
       <1>22, <1>23, <1>24, <1>25, <1>26, <1>27, <1>28, <1>29, <1>30, <1>31,
       <1>32, <1>33, <1>34, <1>35, <1>36, <1>37, <1>38, <1>39, <1>40, <1>41,
       <1>42, <1>43
       DEF Next, CallerStep, CallbackStep, ExecutorStep, ThreadCall, ThreadStep

-----------------------------------------------------------------------------
(* Once the executor was joined nothing is queued again: submissions need a  *)
(* running pool, and the pool has stopped.                                   *)
LEMMA QuiescentStep ==
  ASSUME VariablesTyped, CallerCoherent, LifecycleCoherent, CloseIsQuiescent, [Next]_vars
  PROVE  CloseIsQuiescent'
PROOF
  <1> USE DEF VariablesTyped, CallerCoherent, LifecycleCoherent, Stopped,
              CloseIsQuiescent, Outstanding, RawOutcomes, ManagerExited, callerVars,
              threadVars, execVars
  <1>1. ASSUME NEW r \in Requests, CheckRunning(r)
        PROVE  CloseIsQuiescent'
    BY <1>1 DEF CheckRunning, Goto
  <1>2. ASSUME NEW r \in Requests, AcquireSlot(r)
        PROVE  CloseIsQuiescent'
    BY <1>2 DEF AcquireSlot, Goto
  <1>3. ASSUME NEW r \in Requests, Saturated(r)
        PROVE  CloseIsQuiescent'
    BY <1>3 DEF Saturated, Goto
  <1>4. ASSUME NEW r \in Requests, Submit(r)
        PROVE  CloseIsQuiescent'
    BY <1>4 DEF Submit, Goto
  <1>5. ASSUME NEW r \in Requests, SubmitRaises(r)
        PROVE  CloseIsQuiescent'
    BY <1>5 DEF SubmitRaises, Goto
  <1>6. ASSUME NEW r \in Requests, SubmitRefused(r)
        PROVE  CloseIsQuiescent'
    BY <1>6 DEF SubmitRefused, Goto
  <1>7. ASSUME NEW r \in Requests, MarkBrokenSubmit(r)
        PROVE  CloseIsQuiescent'
    BY <1>7 DEF MarkBrokenSubmit, Goto, BreakIfRunning
  <1>8. ASSUME NEW r \in Requests, Unwind(r)
        PROVE  CloseIsQuiescent'
    BY <1>8 DEF Unwind, Goto
  <1>9. ASSUME NEW r \in Requests, Register(r)
        PROVE  CloseIsQuiescent'
    BY <1>9 DEF Register, Goto, CallbackEntry, Outstanding
  <1>10. ASSUME NEW r \in Requests, CallbackMark(r)
        PROVE  CloseIsQuiescent'
    BY <1>10 DEF CallbackMark, BreakIfRunning
  <1>11. ASSUME NEW r \in Requests, CallbackRelease(r)
        PROVE  CloseIsQuiescent'
    BY <1>11 DEF CallbackRelease
  <1>12. ASSUME NEW r \in Requests, CallbackPublish(r)
        PROVE  CloseIsQuiescent'
    BY <1>12 DEF CallbackPublish
  <1>13. ASSUME NEW r \in Requests, Answered(r)
        PROVE  CloseIsQuiescent'
    BY <1>13 DEF Answered, Goto
  <1>14. ASSUME NEW r \in Requests, Expire(r)
        PROVE  CloseIsQuiescent'
    BY <1>14 DEF Expire, Goto
  <1>15. ASSUME NEW r \in Requests, CancelExpired(r)
        PROVE  CloseIsQuiescent'
    BY <1>15 DEF CancelExpired, Goto, CancelResult, CallbackEntry
  <1>16. ASSUME NEW r \in Requests, Abandon(r)
        PROVE  CloseIsQuiescent'
    BY <1>16 DEF Abandon, Goto, CancelResult, CallbackEntry
  <1>17. ASSUME NEW r \in Requests, BreakGeneration(r)
        PROVE  CloseIsQuiescent'
    BY <1>17 DEF BreakGeneration, Goto
  <1>18. ASSUME NEW r \in Requests, TerminateBroken(r)
        PROVE  CloseIsQuiescent'
    BY <1>18 DEF TerminateBroken, Goto, SignalWorkers
  <1>19. ASSUME NEW r \in Requests, Return(r)
        PROVE  CloseIsQuiescent'
    BY <1>19 DEF Return, Goto
  <1>20. ASSUME NEW r \in Requests, Rescan(r)
        PROVE  CloseIsQuiescent'
    BY <1>20 DEF Rescan, Goto
  <1>21. ASSUME NEW r \in Requests, Dispatch(r)
        PROVE  CloseIsQuiescent'
    BY <1>21 DEF Dispatch
  <1>22. ASSUME NEW r \in Requests, NEW o \in {"value", "error"}, WorkerAnswers(r, o)
        PROVE  CloseIsQuiescent'
    BY <1>22 DEF WorkerAnswers, ResolveRaw, CallbackEntry
  <1>23. ASSUME NEW r \in Requests, FailOutstanding(r)
        PROVE  CloseIsQuiescent'
    BY <1>23 DEF FailOutstanding, ResolveRaw, CallbackEntry
  <1>24. ASSUME NEW r \in Requests, DropQueued(r)
        PROVE  CloseIsQuiescent'
    BY <1>24 DEF DropQueued, ResolveRaw, CallbackEntry
  <1>25. ASSUME NEW t \in Threads, StartBegin(t)
        PROVE  CloseIsQuiescent'
    BY <1>25 DEF StartBegin, ThreadGoto
  <1>26. ASSUME NEW t \in Threads, Spawn(t)
        PROVE  CloseIsQuiescent'
    BY <1>26 DEF Spawn, ThreadGoto
  <1>27. ASSUME NEW t \in Threads, SpawnFails(t)
        PROVE  CloseIsQuiescent'
    BY <1>27 DEF SpawnFails, ThreadGoto
  <1>28. ASSUME NEW t \in Threads, Ready(t)
        PROVE  CloseIsQuiescent'
    BY <1>28 DEF Ready, ThreadGoto
  <1>29. ASSUME NEW t \in Threads, ProbeFails(t)
        PROVE  CloseIsQuiescent'
    BY <1>29 DEF ProbeFails, ThreadGoto
  <1>30. ASSUME NEW t \in Threads, Discarded(t)
        PROVE  CloseIsQuiescent'
    BY <1>30 DEF Discarded, ThreadGoto
  <1>31. ASSUME NEW t \in Threads, CloseUnstarted(t)
        PROVE  CloseIsQuiescent'
    BY <1>31 DEF CloseUnstarted
  <1>32. ASSUME NEW t \in Threads, ShutdownBegin(t)
        PROVE  CloseIsQuiescent'
    BY <1>32 DEF ShutdownBegin, ThreadGoto
  <1>33. ASSUME NEW t \in Threads, NothingToShutDown(t)
        PROVE  CloseIsQuiescent'
    BY <1>33 DEF NothingToShutDown, ThreadGoto
  <1>34. ASSUME NEW t \in Threads, Joined(t)
        PROVE  CloseIsQuiescent'
    BY <1>34 DEF Joined, ThreadGoto
  <1>35. ASSUME NEW t \in Threads, ShutdownRaises(t)
        PROVE  CloseIsQuiescent'
    BY <1>35 DEF ShutdownRaises, ThreadGoto
  <1>36. ASSUME NEW t \in Threads, ShutdownFinish(t)
        PROVE  CloseIsQuiescent'
    BY <1>36 DEF ShutdownFinish, ThreadGoto
  <1>37. ASSUME NEW t \in Threads, ForceBegin(t)
        PROVE  CloseIsQuiescent'
    BY <1>37 DEF ForceBegin, ThreadGoto
  <1>38. ASSUME NEW t \in Threads, ForceUnattached(t)
        PROVE  CloseIsQuiescent'
    BY <1>38 DEF ForceUnattached, ThreadGoto
  <1>39. ASSUME NEW t \in Threads, ForceSignal(t)
        PROVE  CloseIsQuiescent'
    BY <1>39 DEF ForceSignal, ThreadGoto, SignalWorkers
  <1>40. ASSUME NEW t \in Threads, ForceReturn(t)
        PROVE  CloseIsQuiescent'
    BY <1>40 DEF ForceReturn, ThreadGoto
  <1>41. ASSUME NEW t \in Threads, NEW cancel \in BOOLEAN, ShutdownExecutor(t, cancel)
        PROVE  CloseIsQuiescent'
    BY <1>41 DEF ShutdownExecutor, ThreadGoto
  <1>42. ASSUME WorkerDies
        PROVE  CloseIsQuiescent'
    BY <1>42 DEF WorkerDies
  <1>43. CASE UNCHANGED vars
    BY <1>43 DEF vars
  <1>44. QED
    BY <1>1, <1>2, <1>3, <1>4, <1>5, <1>6, <1>7, <1>8, <1>9, <1>10, <1>11,
       <1>12, <1>13, <1>14, <1>15, <1>16, <1>17, <1>18, <1>19, <1>20, <1>21,
       <1>22, <1>23, <1>24, <1>25, <1>26, <1>27, <1>28, <1>29, <1>30, <1>31,
       <1>32, <1>33, <1>34, <1>35, <1>36, <1>37, <1>38, <1>39, <1>40, <1>41,
       <1>42, <1>43
       DEF Next, CallerStep, CallbackStep, ExecutorStep, ThreadCall, ThreadStep

-----------------------------------------------------------------------------
(* A pool that was just constructed.                                         *)
LEMMA InitIndInv == Init => IndInv
PROOF
  <1> SUFFICES ASSUME Init PROVE IndInv
    OBVIOUS
  <1>1. VariablesTyped
    BY PoolAssumption DEF Init, VariablesTyped, PoolStates, CallerPoints, ThreadPoints
  <1>2. CallerCoherent
    BY DEF Init, CallerCoherent
  <1>3. LifecycleCoherent
    BY DEF Init, LifecycleCoherent, RunningIsServed
  <1>4. PermitsConserved
    <2>1. Holders = {}
      BY DEF Init, Holders, Holds
    <2>2. QED
      BY <2>1, FS_EmptySet, PoolAssumption DEF Init, PermitsConserved
  <1>5. CloseIsQuiescent
    BY DEF Init, CloseIsQuiescent
  <1>6. QED
    BY <1>1, <1>2, <1>3, <1>4, <1>5 DEF IndInv

(* Every step of a caller, a callback, the executor or a lifecycle thread.   *)
LEMMA StepIndInv == IndInv /\ [Next]_vars => IndInv'
PROOF
  BY TypedStep, CallerCoherentStep, LifecycleStep, PermitsStep, QuiescentStep DEF IndInv

(* The inductive invariant holds in every reachable state. *)
THEOREM Inductive == Spec => []IndInv
PROOF
  BY InitIndInv, StepIndInv, PTL DEF Spec

(* The type invariant, with the bound on free slots that only the            *)
(* conservation of slots gives.                                              *)
THEOREM TypeCorrect == Spec => []TypeOK
PROOF
  <1>1. IndInv => TypeOK
    BY HoldersFinite, FS_CardinalityType, PoolAssumption
       DEF IndInv, TypeOK, VariablesTyped, PermitsConserved
  <1>2. QED
    BY <1>1, Inductive, PTL

(* No slot is ever lost or released twice, for any number of callers. *)
THEOREM SlotsConserved == Spec => []PermitsConserved
PROOF
  <1>1. IndInv => PermitsConserved
    BY DEF IndInv
  <1>2. QED
    BY <1>1, Inductive, PTL

(* A running pool has an executor that accepts work or reports itself broken. *)
THEOREM RunningServed == Spec => []RunningIsServed
PROOF
  <1>1. IndInv => RunningIsServed
    BY DEF IndInv, LifecycleCoherent
  <1>2. QED
    BY <1>1, Inductive, PTL

(* Answers are published after the slot came back. *)
THEOREM AnswersReleaseFirst == Spec => []AnsweredOwnsNoSlot
PROOF
  <1>1. IndInv => AnsweredOwnsNoSlot
    BY DEF IndInv, CallerCoherent, AnsweredOwnsNoSlot, Holds
  <1>2. QED
    BY <1>1, Inductive, PTL

(* A graceful close that nobody escalated leaves nothing queued or running. *)
THEOREM GracefulCloseDrains == Spec => []CloseIsQuiescent
PROOF
  <1>1. IndInv => CloseIsQuiescent
    BY DEF IndInv
  <1>2. QED
    BY <1>1, Inductive, PTL

-----------------------------------------------------------------------------
(* The moves the pool's state can make. *)
LifecycleMove ==
    \/ state' = state
    \/ state = "new" /\ state' \in {"starting", "closed"}
    \/ state = "starting" /\ (state' = "running" \/ Stopped')
    \/ state = "running" /\ Stopped'
    \/ state \in {"shutting_down", "broken"} /\ Stopped'

(* The pool's state moves forward only: new, starting, running, stopped.     *)
LEMMA LifecycleMoves ==
  ASSUME IndInv, [Next]_vars
  PROVE  LifecycleMove
PROOF
  <1> USE DEF IndInv, VariablesTyped, PoolStates, LifecycleCoherent, Stopped, LifecycleMove
  <1>1. ASSUME NEW r \in Requests, CheckRunning(r)
        PROVE  LifecycleMove
    BY <1>1 DEF CheckRunning, Goto
  <1>2. ASSUME NEW r \in Requests, AcquireSlot(r)
        PROVE  LifecycleMove
    BY <1>2 DEF AcquireSlot, Goto
  <1>3. ASSUME NEW r \in Requests, Saturated(r)
        PROVE  LifecycleMove
    BY <1>3 DEF Saturated, Goto
  <1>4. ASSUME NEW r \in Requests, Submit(r)
        PROVE  LifecycleMove
    BY <1>4 DEF Submit, Goto
  <1>5. ASSUME NEW r \in Requests, SubmitRaises(r)
        PROVE  LifecycleMove
    BY <1>5 DEF SubmitRaises, Goto
  <1>6. ASSUME NEW r \in Requests, SubmitRefused(r)
        PROVE  LifecycleMove
    BY <1>6 DEF SubmitRefused, Goto
  <1>7. ASSUME NEW r \in Requests, MarkBrokenSubmit(r)
        PROVE  LifecycleMove
    BY <1>7 DEF MarkBrokenSubmit, Goto, BreakIfRunning
  <1>8. ASSUME NEW r \in Requests, Unwind(r)
        PROVE  LifecycleMove
    BY <1>8 DEF Unwind, Goto
  <1>9. ASSUME NEW r \in Requests, Register(r)
        PROVE  LifecycleMove
    BY <1>9 DEF Register, Goto, CallbackEntry, Outstanding
  <1>10. ASSUME NEW r \in Requests, CallbackMark(r)
        PROVE  LifecycleMove
    BY <1>10 DEF CallbackMark, BreakIfRunning
  <1>11. ASSUME NEW r \in Requests, CallbackRelease(r)
        PROVE  LifecycleMove
    BY <1>11 DEF CallbackRelease
  <1>12. ASSUME NEW r \in Requests, CallbackPublish(r)
        PROVE  LifecycleMove
    BY <1>12 DEF CallbackPublish
  <1>13. ASSUME NEW r \in Requests, Answered(r)
        PROVE  LifecycleMove
    BY <1>13 DEF Answered, Goto
  <1>14. ASSUME NEW r \in Requests, Expire(r)
        PROVE  LifecycleMove
    BY <1>14 DEF Expire, Goto
  <1>15. ASSUME NEW r \in Requests, CancelExpired(r)
        PROVE  LifecycleMove
    BY <1>15 DEF CancelExpired, Goto, CancelResult, CallbackEntry
  <1>16. ASSUME NEW r \in Requests, Abandon(r)
        PROVE  LifecycleMove
    BY <1>16 DEF Abandon, Goto, CancelResult, CallbackEntry
  <1>17. ASSUME NEW r \in Requests, BreakGeneration(r)
        PROVE  LifecycleMove
    BY <1>17 DEF BreakGeneration, Goto
  <1>18. ASSUME NEW r \in Requests, TerminateBroken(r)
        PROVE  LifecycleMove
    BY <1>18 DEF TerminateBroken, Goto, SignalWorkers
  <1>19. ASSUME NEW r \in Requests, Return(r)
        PROVE  LifecycleMove
    BY <1>19 DEF Return, Goto
  <1>20. ASSUME NEW r \in Requests, Rescan(r)
        PROVE  LifecycleMove
    BY <1>20 DEF Rescan, Goto
  <1>21. ASSUME NEW r \in Requests, Dispatch(r)
        PROVE  LifecycleMove
    BY <1>21 DEF Dispatch
  <1>22. ASSUME NEW r \in Requests, NEW o \in {"value", "error"}, WorkerAnswers(r, o)
        PROVE  LifecycleMove
    BY <1>22 DEF WorkerAnswers, ResolveRaw, CallbackEntry
  <1>23. ASSUME NEW r \in Requests, FailOutstanding(r)
        PROVE  LifecycleMove
    BY <1>23 DEF FailOutstanding, ResolveRaw, CallbackEntry
  <1>24. ASSUME NEW r \in Requests, DropQueued(r)
        PROVE  LifecycleMove
    BY <1>24 DEF DropQueued, ResolveRaw, CallbackEntry
  <1>25. ASSUME NEW t \in Threads, StartBegin(t)
        PROVE  LifecycleMove
    BY <1>25 DEF StartBegin, ThreadGoto
  <1>26. ASSUME NEW t \in Threads, Spawn(t)
        PROVE  LifecycleMove
    BY <1>26 DEF Spawn, ThreadGoto
  <1>27. ASSUME NEW t \in Threads, SpawnFails(t)
        PROVE  LifecycleMove
    BY <1>27 DEF SpawnFails, ThreadGoto
  <1>28. ASSUME NEW t \in Threads, Ready(t)
        PROVE  LifecycleMove
    BY <1>28 DEF Ready, ThreadGoto
  <1>29. ASSUME NEW t \in Threads, ProbeFails(t)
        PROVE  LifecycleMove
    BY <1>29 DEF ProbeFails, ThreadGoto
  <1>30. ASSUME NEW t \in Threads, Discarded(t)
        PROVE  LifecycleMove
    BY <1>30 DEF Discarded, ThreadGoto
  <1>31. ASSUME NEW t \in Threads, CloseUnstarted(t)
        PROVE  LifecycleMove
    BY <1>31 DEF CloseUnstarted
  <1>32. ASSUME NEW t \in Threads, ShutdownBegin(t)
        PROVE  LifecycleMove
    BY <1>32 DEF ShutdownBegin, ThreadGoto
  <1>33. ASSUME NEW t \in Threads, NothingToShutDown(t)
        PROVE  LifecycleMove
    BY <1>33 DEF NothingToShutDown, ThreadGoto
  <1>34. ASSUME NEW t \in Threads, Joined(t)
        PROVE  LifecycleMove
    BY <1>34 DEF Joined, ThreadGoto
  <1>35. ASSUME NEW t \in Threads, ShutdownRaises(t)
        PROVE  LifecycleMove
    BY <1>35 DEF ShutdownRaises, ThreadGoto
  <1>36. ASSUME NEW t \in Threads, ShutdownFinish(t)
        PROVE  LifecycleMove
    BY <1>36 DEF ShutdownFinish, ThreadGoto
  <1>37. ASSUME NEW t \in Threads, ForceBegin(t)
        PROVE  LifecycleMove
    BY <1>37 DEF ForceBegin, ThreadGoto
  <1>38. ASSUME NEW t \in Threads, ForceUnattached(t)
        PROVE  LifecycleMove
    BY <1>38 DEF ForceUnattached, ThreadGoto
  <1>39. ASSUME NEW t \in Threads, ForceSignal(t)
        PROVE  LifecycleMove
    BY <1>39 DEF ForceSignal, ThreadGoto, SignalWorkers
  <1>40. ASSUME NEW t \in Threads, ForceReturn(t)
        PROVE  LifecycleMove
    BY <1>40 DEF ForceReturn, ThreadGoto
  <1>41. ASSUME NEW t \in Threads, NEW cancel \in BOOLEAN, ShutdownExecutor(t, cancel)
        PROVE  LifecycleMove
    BY <1>41 DEF ShutdownExecutor, ThreadGoto
  <1>42. ASSUME WorkerDies
        PROVE  LifecycleMove
    BY <1>42 DEF WorkerDies
  <1>43. CASE UNCHANGED vars
    BY <1>43 DEF vars
  <1>44. QED
    BY <1>1, <1>2, <1>3, <1>4, <1>5, <1>6, <1>7, <1>8, <1>9, <1>10, <1>11,
       <1>12, <1>13, <1>14, <1>15, <1>16, <1>17, <1>18, <1>19, <1>20, <1>21,
       <1>22, <1>23, <1>24, <1>25, <1>26, <1>27, <1>28, <1>29, <1>30, <1>31,
       <1>32, <1>33, <1>34, <1>35, <1>36, <1>37, <1>38, <1>39, <1>40, <1>41,
       <1>42, <1>43
       DEF Next, CallerStep, CallbackStep, ExecutorStep, ThreadCall, ThreadStep

(* CLOSED is final: no slower shutdown, failing cleanup or late break of a   *)
(* generation moves the pool out of it.                                      *)
THEOREM ClosedFinal == Spec => ClosedIsFinal
PROOF
  <1>1. IndInv /\ [Next]_vars => [state = "closed" => state' = "closed"]_vars
    BY LifecycleMoves DEF LifecycleMove
  <1>2. QED
    BY <1>1, Inductive, PTL DEF Spec, ClosedIsFinal

-----------------------------------------------------------------------------
(* Refinement: only executor.submit lets work in and only the completion     *)
(* callback lets it out; neither moves the gate.                             *)
LEMMA InsideMoves ==
  ASSUME IndInv, [Next]_vars
  PROVE  \/ Inside' = Inside
         \/ \E r \in Requests : Submit(r) \/ CallbackRelease(r)
PROOF
  <1> USE DEF IndInv, VariablesTyped, CallerCoherent
  <1>1. ASSUME NEW t \in Threads, ThreadCall(t) \/ ThreadStep(t)
        PROVE  Inside' = Inside
    BY <1>1, ThreadsLeaveCallers DEF Inside, Submitted, callerVars
  <1>2. CASE WorkerDies \/ UNCHANGED vars
    BY <1>2 DEF WorkerDies, vars, Inside, Submitted, callerVars
  <1>3. ASSUME NEW r \in Requests, CheckRunning(r)
        PROVE  Inside' = Inside
    BY <1>3 DEF CheckRunning, Goto, Inside, Submitted, Outstanding
  <1>4. ASSUME NEW r \in Requests, AcquireSlot(r)
        PROVE  Inside' = Inside
    BY <1>4 DEF AcquireSlot, Goto, Inside, Submitted, Outstanding
  <1>5. ASSUME NEW r \in Requests, Saturated(r)
        PROVE  Inside' = Inside
    BY <1>5 DEF Saturated, Goto, Inside, Submitted, Outstanding
  <1>6. ASSUME NEW r \in Requests, SubmitRaises(r)
        PROVE  Inside' = Inside
    BY <1>6 DEF SubmitRaises, Goto, Inside, Submitted, Outstanding
  <1>7. ASSUME NEW r \in Requests, SubmitRefused(r)
        PROVE  Inside' = Inside
    BY <1>7 DEF SubmitRefused, Goto, Inside, Submitted, Outstanding
  <1>8. ASSUME NEW r \in Requests, MarkBrokenSubmit(r)
        PROVE  Inside' = Inside
    BY <1>8 DEF MarkBrokenSubmit, Goto, BreakIfRunning, Inside, Submitted, Outstanding
  <1>9. ASSUME NEW r \in Requests, Unwind(r)
        PROVE  Inside' = Inside
    BY <1>9 DEF Unwind, Goto, Inside, Submitted, Outstanding
  <1>10. ASSUME NEW r \in Requests, Register(r)
        PROVE  Inside' = Inside
    BY <1>10 DEF Register, Goto, CallbackEntry, Outstanding, Inside, Submitted
  <1>11. ASSUME NEW r \in Requests, CallbackMark(r)
        PROVE  Inside' = Inside
    BY <1>11 DEF CallbackMark, BreakIfRunning, Inside, Submitted, Outstanding
  <1>12. ASSUME NEW r \in Requests, CallbackPublish(r)
        PROVE  Inside' = Inside
    BY <1>12 DEF CallbackPublish, Inside, Submitted, Outstanding
  <1>13. ASSUME NEW r \in Requests, Answered(r)
        PROVE  Inside' = Inside
    BY <1>13 DEF Answered, Goto, Inside, Submitted, Outstanding
  <1>14. ASSUME NEW r \in Requests, Expire(r)
        PROVE  Inside' = Inside
    BY <1>14 DEF Expire, Goto, Inside, Submitted, Outstanding
  <1>15. ASSUME NEW r \in Requests, CancelExpired(r)
        PROVE  Inside' = Inside
    <2>1. raw[r] = "pending" => cb[r] = "armed"
      BY <1>15 DEF CancelExpired, Goto, RawOutcomes
    <2>2. \A s \in Requests : Submitted(s)' <=> Submitted(s)
      BY <1>15, <2>1 DEF CancelExpired, CancelResult, CallbackEntry, Goto, Submitted
    <2>3. QED
      BY <2>2 DEF Inside
  <1>16. ASSUME NEW r \in Requests, Abandon(r)
        PROVE  Inside' = Inside
    <2>1. raw[r] = "pending" => cb[r] = "armed"
      BY <1>16 DEF Abandon, Goto, RawOutcomes
    <2>2. \A s \in Requests : Submitted(s)' <=> Submitted(s)
      BY <1>16, <2>1 DEF Abandon, CancelResult, CallbackEntry, Goto, Submitted
    <2>3. QED
      BY <2>2 DEF Inside
  <1>17. ASSUME NEW r \in Requests, BreakGeneration(r)
        PROVE  Inside' = Inside
    BY <1>17 DEF BreakGeneration, Goto, Inside, Submitted, Outstanding
  <1>18. ASSUME NEW r \in Requests, TerminateBroken(r)
        PROVE  Inside' = Inside
    BY <1>18 DEF TerminateBroken, Goto, SignalWorkers, Inside, Submitted, Outstanding
  <1>19. ASSUME NEW r \in Requests, Return(r)
        PROVE  Inside' = Inside
    BY <1>19 DEF Return, Goto, Inside, Submitted, Outstanding
  <1>20. ASSUME NEW r \in Requests, Rescan(r)
        PROVE  Inside' = Inside
    BY <1>20 DEF Rescan, Goto, Inside, Submitted, Outstanding
  <1>21. ASSUME NEW r \in Requests, Dispatch(r)
        PROVE  Inside' = Inside
    BY <1>21 DEF Dispatch, Inside, Submitted, Outstanding
  <1>22. ASSUME NEW r \in Requests, NEW o \in {"value", "error"}, WorkerAnswers(r, o)
        PROVE  Inside' = Inside
    BY <1>22 DEF WorkerAnswers, ResolveRaw, CallbackEntry, Inside, Submitted, Outstanding
  <1>23. ASSUME NEW r \in Requests, FailOutstanding(r)
        PROVE  Inside' = Inside
    BY <1>23 DEF FailOutstanding, ResolveRaw, CallbackEntry, Inside, Submitted
  <1>24. ASSUME NEW r \in Requests, DropQueued(r)
        PROVE  Inside' = Inside
    BY <1>24 DEF DropQueued, ResolveRaw, CallbackEntry, Inside, Submitted, Outstanding
  <1>25. QED
    BY <1>1, <1>2, <1>3, <1>4, <1>5, <1>6, <1>7, <1>8, <1>9, <1>10, <1>11,
       <1>12, <1>13, <1>14, <1>15, <1>16, <1>17, <1>18, <1>19, <1>20, <1>21,
       <1>22, <1>23, <1>24
       DEF Next, CallerStep, CallbackStep, ExecutorStep

(* Work that holds no slot yet enters below the bound, through an open gate. *)
LEMMA SubmitEnters ==
  ASSUME IndInv, NEW r \in Requests, Submit(r)
  PROVE  Admission!Enter(r)
PROOF
  <1>1. r \notin Inside /\ r \in Holders /\ Inside \subseteq Holders
    BY DEF IndInv, CallerCoherent, Submit, Inside, Submitted, Holders, Holds
  <1>2. IsFiniteSet(Inside) /\ Cardinality(Inside) < MaxInFlight
    <2>1. Inside \in SUBSET (Holders \ {r})
      BY <1>1
    <2>2. IsFiniteSet(Holders \ {r}) /\ Cardinality(Holders \ {r}) = Cardinality(Holders) - 1
      BY <1>1, HoldersFinite, FS_RemoveElement
    <2>3. Cardinality(Holders) \in Nat /\ Cardinality(Holders) <= MaxInFlight
      BY HoldersFinite, FS_CardinalityType, PoolAssumption
         DEF IndInv, VariablesTyped, PermitsConserved
    <2>4. IsFiniteSet(Inside) /\ Cardinality(Inside) <= Cardinality(Holders \ {r})
      BY <2>1, <2>2, FS_Subset
    <2>5. Cardinality(Inside) \in Nat
      BY <2>4, FS_CardinalityType
    <2>6. QED
      BY <2>2, <2>3, <2>4, <2>5, PoolAssumption
  <1>3. Inside' = Inside \cup {r}
    BY DEF IndInv, VariablesTyped, Submit, Goto, Inside, Submitted
  <1>4. Gate = "open" /\ Gate' = Gate
    BY DEF Submit, Gate
  <1>5. Admission!Cardinality(Inside) = Cardinality(Inside)
    BY DEF Admission!Cardinality, Cardinality
  <1>6. QED
    BY <1>1, <1>2, <1>3, <1>4, <1>5 DEF Admission!Enter

(* Releasing the slot is the one step by which work leaves.                  *)
LEMMA ReleaseLeaves ==
  ASSUME IndInv, NEW r \in Requests, CallbackRelease(r)
  PROVE  Admission!Leave(r)
PROOF
  <1>1. r \in Inside /\ Inside' = Inside \ {r}
    BY DEF IndInv, VariablesTyped, CallerCoherent, CallbackRelease, Inside, Submitted
  <1>2. Gate' = Gate
    BY DEF CallbackRelease, Gate
  <1>3. QED
    BY <1>1, <1>2 DEF Admission!Leave

(* The gate opens once and shuts for good. *)
LEMMA GateMoves ==
  ASSUME IndInv, [Next]_vars
  PROVE  \/ Gate' = Gate
         \/ Gate = "unopened" /\ Gate' = "open"
         \/ Gate # "shut" /\ Gate' = "shut"
PROOF
  BY LifecycleMoves DEF LifecycleMove, Gate, Stopped

(* The pool implements bounded admission: callers, crashes, timeouts and     *)
(* racing lifecycle calls never admit work beyond the bound or after the     *)
(* pool stopped, and admitted work releases its slot exactly once.           *)
THEOREM PoolImplementsAdmission == Spec => ImplementsAdmission
PROOF
  <1>1. Init => Admission!Init
    BY DEF Init, Admission!Init, Gate, Inside, Submitted
  <1>2. IndInv /\ [Next]_vars => [Admission!Next]_<<Gate, Inside>>
    <2> SUFFICES ASSUME IndInv, [Next]_vars
                 PROVE  [Admission!Next]_<<Gate, Inside>>
      OBVIOUS
    <2>1. CASE Inside' = Inside
      BY <2>1, GateMoves DEF Admission!Next, Admission!Open, Admission!Shut
    <2>2. CASE \E r \in Requests : Submit(r) \/ CallbackRelease(r)
      BY <2>2, SubmitEnters, ReleaseLeaves DEF Admission!Next
    <2>3. QED
      BY <2>1, <2>2, InsideMoves
  <1>3. QED
    BY <1>1, <1>2, Inductive, PTL DEF Spec, ImplementsAdmission, Admission!Spec

-----------------------------------------------------------------------------
(* Every step of the facade is a step of the pool, or leaves it alone. *)
LEMMA FacadeStepsSimulate == [FirewallNext]_allVars => [Next]_vars
PROOF
  <1> SUFFICES ASSUME [FirewallNext]_allVars PROVE [Next]_vars
    OBVIOUS
  <1>1. ASSUME NEW t \in Threads, NEW c \in Calls, Invoke(t, c)
        PROVE  UNCHANGED vars
    BY <1>1 DEF Invoke
  <1>2. ASSUME NEW t \in Threads, Enter(t) \/ NoEffect(t) \/ Leave(t)
        PROVE  UNCHANGED vars
    BY <1>2 DEF Enter, NoEffect, Leave
  <1>3. ASSUME NEW t \in Threads, EnterPool(t)
        PROVE  Next
    BY <1>3 DEF EnterPool, Next, ThreadCall
  <1>4. ASSUME NEW t \in Threads, InPool(t)
        PROVE  Next
    BY <1>4 DEF InPool, Next
  <1>5. ASSUME NEW r \in Requests, Request(r)
        PROVE  Next
    BY <1>5 DEF Request, Next
  <1>6. CASE Workers
    BY <1>6 DEF Workers, Next
  <1>7. CASE UNCHANGED allVars
    BY <1>7 DEF allVars
  <1>8. QED
    BY <1>1, <1>2, <1>3, <1>4, <1>5, <1>6, <1>7 DEF FirewallNext, FacadeStep

(* A facade-driven pool is a pool: everything proved of the pool holds here. *)
THEOREM FacadeImplementsPool == FirewallSpec => Spec
PROOF
  <1>1. FirewallInit => Init
    BY DEF FirewallInit
  <1>2. QED
    BY <1>1, FacadeStepsSimulate, PTL DEF FirewallSpec, Spec

-----------------------------------------------------------------------------
(* Requests, callbacks and workers leave the lifecycle threads where they    *)
(* are, and take the pool out of RUNNING only.                               *)
LEMMA RequestsLeaveLifecycle ==
  ASSUME \/ \E r \in Requests : Request(r)
         \/ Workers
  PROVE  /\ UNCHANGED <<op, facadeVars>>
         /\ state' = state \/ state = "running"
PROOF
  <1>1. ASSUME NEW r \in Requests, Request(r)
        PROVE  /\ UNCHANGED <<op, facadeVars>>
               /\ state' = state \/ state = "running"
    <2>1. UNCHANGED <<op, facadeVars>>
      BY <1>1, CallersLeaveThreads DEF Request, threadVars
    <2>2. state' = state \/ state = "running"
      BY <1>1
         DEF Request, CheckRunning, CallerStep, AcquireSlot, Saturated, Submit,
             SubmitRaises, SubmitRefused, MarkBrokenSubmit, BreakIfRunning, Unwind,
             Register, Answered, Expire, CancelExpired, BreakGeneration,
             TerminateBroken, Return, Rescan, CallbackStep, CallbackMark,
             CallbackRelease, CallbackPublish
    <2>3. QED
      BY <2>1, <2>2
  <1>2. ASSUME NEW r \in Requests, ExecutorStep(r), UNCHANGED facadeVars
        PROVE  /\ UNCHANGED <<op, facadeVars>>
               /\ state' = state \/ state = "running"
    <2>1. UNCHANGED <<op, facadeVars>>
      BY <1>2, CallersLeaveThreads DEF threadVars
    <2>2. state' = state
      BY <1>2 DEF ExecutorStep, Dispatch, WorkerAnswers, FailOutstanding, DropQueued,
                  ResolveRaw
    <2>3. QED
      BY <2>1, <2>2
  <1>3. ASSUME WorkerDies, UNCHANGED facadeVars
        PROVE  /\ UNCHANGED <<op, facadeVars>>
               /\ state' = state \/ state = "running"
    BY <1>3 DEF WorkerDies, threadVars
  <1>4. QED
    BY <1>1, <1>2, <1>3 DEF Workers

(* A step of one thread inside its pool operation moves no other thread; a   *)
(* close() that goes on leaves the pool in the state it found it.            *)
LEMMA ThreadStepMoves ==
  ASSUME VariablesTyped, NEW t \in Threads, ThreadStep(t)
  PROVE  /\ op[t] # "idle"
         /\ \A u \in Threads \ {t} : op'[u] = op[u]
         /\ Closing(t)' => Closing(t) /\ state' = state
PROOF
  BY DEF VariablesTyped, ThreadPoints, ThreadStep, ThreadGoto, Closing, Spawn,
         SpawnFails, Ready, ProbeFails, Discarded, ShutdownExecutor, NothingToShutDown, Joined,
         ShutdownRaises, ShutdownFinish, ForceSignal, ForceReturn

(* So does the step in which a thread enters its pool operation; if it       *)
(* closes, the pool is shutting down.                                        *)
LEMMA EnterPoolMoves ==
  ASSUME VariablesTyped, NEW t \in Threads, EnterPool(t)
  PROVE  /\ \A u \in Threads \ {t} : op'[u] = op[u]
         /\ Closing(t)' => state' = "shutting_down"
PROOF
  <1>1. op[t] = "idle"
    BY DEF EnterPool, StartBegin, CloseUnstarted, ShutdownBegin, ForceBegin,
           ForceUnattached
  <1>2. QED
    BY <1>1 DEF VariablesTyped, EnterPool, ThreadGoto, Closing, StartBegin,
           CloseUnstarted, ShutdownBegin, ForceBegin, ForceUnattached, threadVars

(* The facade's lock is a lock, and the thread that has it is the only one   *)
(* inside the pool's lifecycle operations.                                   *)
LEMMA FacadeInvStep ==
  ASSUME VariablesTyped, FacadeInv, [FirewallNext]_allVars
  PROVE  FacadeInv'
PROOF
  <1> USE DEF FacadeInv, FacadeTyped, OneOperation
  <1>1. Nobody \notin Threads
    BY PoolAssumption
  <1>2. ASSUME NEW t \in Threads, NEW c \in Calls, Invoke(t, c)
        PROVE  FacadeInv'
    <2>1. FacadeTyped'
      BY <1>2 DEF Invoke, Stages, Calls
    <2>2. OneOperation'
      BY <1>2 DEF Invoke, vars, Closing
    <2>3. QED
      BY <2>1, <2>2
  <1>3. ASSUME NEW t \in Threads, Enter(t)
        PROVE  FacadeInv'
    <2>1. FacadeTyped'
      BY <1>1, <1>3 DEF Enter, Stages
    <2>2. OneOperation'
      BY <1>3 DEF Enter, vars, Closing
    <2>3. QED
      BY <2>1, <2>2
  <1>4. ASSUME NEW t \in Threads, EnterPool(t)
        PROVE  FacadeInv'
    <2>1. FacadeTyped'
      BY <1>4 DEF EnterPool, Stages
    <2>2. \A u \in Threads \ {t} :
            op[u] = "idle" /\ op'[u] = "idle" /\ stage'[u] = stage[u]
      BY <1>4, EnterPoolMoves DEF EnterPool
    <2>3. stage'[t] = "inPool"
      BY <1>4 DEF EnterPool
    <2>4. Closing(t)' => state' = "shutting_down"
      BY <1>4, EnterPoolMoves
    <2>5. \A u \in Threads \ {t} : ~Closing(u)'
      BY <2>2 DEF Closing
    <2>6. QED
      BY <2>1, <2>2, <2>3, <2>4, <2>5
  <1>5. ASSUME NEW t \in Threads, NoEffect(t)
        PROVE  FacadeInv'
    <2>1. FacadeTyped'
      BY <1>5 DEF NoEffect, Stages
    <2>2. OneOperation'
      BY <1>5 DEF NoEffect, vars, Closing
    <2>3. QED
      BY <2>1, <2>2
  <1>6. ASSUME NEW t \in Threads, InPool(t)
        PROVE  FacadeInv'
    <2>1. FacadeTyped' /\ stage' = stage
      BY <1>6 DEF InPool, facadeVars
    <2>2. stage[t] = "inPool"
      BY <1>6, ThreadStepMoves DEF InPool
    <2>3. \A u \in Threads \ {t} : op[u] = "idle" /\ op'[u] = "idle"
      BY <1>6, <2>2, ThreadStepMoves DEF InPool
    <2>4. \A u \in Threads \ {t} : ~Closing(u)'
      BY <2>3 DEF Closing
    <2>5. Closing(t)' => state' = "shutting_down"
      BY <1>6, ThreadStepMoves DEF InPool
    <2>6. QED
      BY <2>1, <2>2, <2>3, <2>4, <2>5
  <1>7. ASSUME NEW t \in Threads, Leave(t)
        PROVE  FacadeInv'
    <2>1. FacadeTyped'
      BY <1>1, <1>7 DEF Leave, Stages, Calls
    <2>2. OneOperation'
      BY <1>7 DEF Leave, vars, Closing
    <2>3. QED
      BY <2>1, <2>2
  <1>8. CASE (\E r \in Requests : Request(r)) \/ Workers
    BY <1>8, RequestsLeaveLifecycle DEF facadeVars, Closing
  <1>9. CASE UNCHANGED allVars
    BY <1>9 DEF allVars, vars, facadeVars, Closing
  <1>10. QED
    BY <1>2, <1>3, <1>4, <1>5, <1>6, <1>7, <1>8, <1>9 DEF FirewallNext, FacadeStep

(* One thread at a time is inside a pool operation, and a pool it closes     *)
(* stays SHUTTING_DOWN until the close is over.                              *)
THEOREM OneOperationAtATime == FirewallSpec => []FacadeInv
PROOF
  <1>1. FirewallInit => FacadeInv
    BY PoolAssumption
       DEF FirewallInit, Init, FacadeInv, FacadeTyped, OneOperation, Closing, Calls, Stages
  <1>2. IndInv /\ FacadeInv /\ [FirewallNext]_allVars => FacadeInv'
    BY FacadeInvStep DEF IndInv
  <1>3. QED
    BY <1>1, <1>2, FacadeImplementsPool, Inductive, PTL DEF FirewallSpec

(* The facade's and the pool's variables keep their types, and the facade's  *)
(* lock is held by the one thread between Enter and Leave.                   *)
THEOREM FacadeTypeCorrect == FirewallSpec => []FacadeTypeOK
PROOF
  <1>1. TypeOK /\ FacadeInv => FacadeTypeOK
    BY DEF FacadeTypeOK, FacadeInv
  <1>2. QED
    BY <1>1, OneOperationAtATime, FacadeImplementsPool, TypeCorrect, PTL

(* A close() through the facade that returns normally leaves the pool        *)
(* CLOSED, whatever workers, requests and callbacks do meanwhile.            *)
THEOREM CloseLeavesClosed == FirewallSpec => CloseCloses
PROOF
  <1>1. ASSUME IndInv, FacadeInv, [FirewallNext]_allVars,
               NEW t \in Threads, op[t] = "closeFinish", op'[t] = "idle"
        PROVE  state' = "closed"
    <2>1. state = "shutting_down" /\ stage[t] = "inPool"
      BY <1>1 DEF FacadeInv, OneOperation, Closing
    <2>2. ASSUME NEW u \in Threads, InPool(u)
          PROVE  state' = "closed"
      <3>1. u = t
        BY <1>1, <2>2, ThreadStepMoves DEF InPool, IndInv
      <3>2. ShutdownFinish(t)
        BY <1>1, <2>2, <3>1
           DEF InPool, ThreadStep, Spawn, SpawnFails, Ready, ProbeFails, Discarded,
               ShutdownExecutor, NothingToShutDown, Joined, ShutdownRaises, ForceSignal,
               ForceReturn
      <3>3. QED
        BY <2>1, <3>2 DEF ShutdownFinish
    <2>3. ASSUME NEW u \in Threads, EnterPool(u)
          PROVE  FALSE
      <3>1. u # t
        BY <2>1, <2>3 DEF EnterPool
      <3>2. QED
        BY <1>1, <2>3, <3>1, EnterPoolMoves DEF IndInv
    <2>4. CASE UNCHANGED vars
      BY <1>1, <2>4 DEF vars
    <2>5. CASE (\E r \in Requests : Request(r)) \/ Workers
      BY <1>1, <2>5, RequestsLeaveLifecycle
    <2>6. QED
      BY <1>1, <2>2, <2>3, <2>4, <2>5
         DEF FirewallNext, FacadeStep, Invoke, Enter, NoEffect, Leave, allVars
  <1>2. IndInv /\ FacadeInv /\ [FirewallNext]_allVars =>
          [\A t \in Threads : op[t] = "closeFinish" /\ op'[t] = "idle"
                                 => state' = "closed"]_allVars
    BY <1>1
  <1>3. QED
    BY <1>2, OneOperationAtATime, FacadeImplementsPool, Inductive, PTL
       DEF FirewallSpec, CloseCloses

=============================================================================
