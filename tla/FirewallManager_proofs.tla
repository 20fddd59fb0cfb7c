----------------------- MODULE FirewallManager_proofs -----------------------
(***************************************************************************)
(* Proofs about FirewallManager, for every set of requests, operators,     *)
(* generations and catalogs, and firewalls whose cleanup may or may not    *)
(* raise.  The inductive invariant is ReloadInv: types, counted leases,    *)
(* the two locks, and the course of a reload from its checks on.           *)
(***************************************************************************)
EXTENDS FirewallManager, FiniteSetTheorems, TLAPS

-----------------------------------------------------------------------------
(* Operators and crashes never touch a lease or its counter. *)
LEMMA OperatorsLeaveLeases ==
  ASSUME \/ \E g \in Generations : Crash(g)
         \/ \E t \in Operators : OperatorCall(t) \/ OperatorStep(t)
  PROVE  UNCHANGED leaseVars
PROOF
  BY DEF Crash, OperatorCall, OperatorStep, StartBegin, Restart, LockClose, Reload,
         StartEnds, RefuseReload, BeginReload, BuildFails, Build, CloseGeneration,
         CandidateStarts, CandidateFails, DiscardCandidate, GiveUp, Activate, Drained,
         CleanPrevious, CloseBegin, AlreadyClosed, CloseDrained, CloseFinish, leaseVars

(* The requests that lease a generation are finitely many. *)
LEMMA LesseesFinite ==
  ASSUME NEW g
  PROVE  IsFiniteSet(Lessees(g)) /\ Cardinality(Lessees(g)) \in Nat
PROOF
  <1>1. IsFiniteSet(Lessees(g))
    BY ManagerAssumption, FS_Subset DEF Lessees
  <1>2. QED
    BY <1>1, FS_CardinalityType

(* The generation a request releases has been counted for it: the underflow  *)
(* that breaks the manager is not reachable.                                 *)
LEMMA ReleaseCounts ==
  ASSUME TypeOK, LeasesCounted, NEW r \in Requests, Release(r)
  PROVE  /\ lease[r] \in Generations
         /\ inflight[lease[r]] - 1 \in Nat
         /\ state' = state
PROOF
  <1>1. lease[r] \in Generations
    BY DEF Release, TypeOK
  <1>2. r \in Lessees(lease[r])
    BY DEF Lessees
  <1>3. Cardinality(Lessees(lease[r])) # 0
    BY <1>2, LesseesFinite, FS_EmptySet
  <1>4. inflight[lease[r]] \in Nat /\ inflight[lease[r]] # 0
    BY <1>1, <1>3 DEF LeasesCounted, TypeOK
  <1>5. QED
    BY <1>1, <1>4 DEF Release

(* A generation with a lease has a counter above zero. *)
LEMMA LeasedIsCounted ==
  ASSUME TypeOK, LeasesCounted, NEW r \in Requests, NEW g \in Generations, inflight[g] = 0
  PROVE  lease[r] # g
PROOF
  <1>1. Cardinality(Lessees(g)) = 0
    BY DEF LeasesCounted
  <1>2. Lessees(g) = {}
    BY <1>1, LesseesFinite, FS_EmptySet
  <1>3. QED
    BY <1>2 DEF Lessees

(* Every step keeps every variable in its type. *)
LEMMA TypedStep ==
  ASSUME TypeOK, LeasesCounted, LocalsAssigned, [Next]_vars
  PROVE  TypeOK'
PROOF
  <1> USE ManagerAssumption
      DEF TypeOK, LocalsAssigned, ManagerStates, FirewallStates, Points, leaseVars,
          jobVars, closeVars, lockVars, ThreadGoto
  <1>1. ASSUME NEW t \in Operators, StartBegin(t)
        PROVE  TypeOK'
    BY <1>1 DEF StartBegin
  <1>2. ASSUME NEW t \in Operators, Restart(t)
        PROVE  TypeOK'
    BY <1>2 DEF Restart
  <1>3. ASSUME NEW t \in Operators, LockClose(t)
        PROVE  TypeOK'
    BY <1>3 DEF LockClose
  <1>4. ASSUME NEW t \in Operators, StartEnds(t)
        PROVE  TypeOK'
    BY <1>4 DEF StartEnds
  <1>5. ASSUME NEW t \in Operators, RefuseReload(t)
        PROVE  TypeOK'
    BY <1>5 DEF RefuseReload, EndReload
  <1>6. ASSUME NEW t \in Operators, BeginReload(t)
        PROVE  TypeOK'
    BY <1>6 DEF BeginReload, Refused
  <1>7. ASSUME NEW t \in Operators, BuildFails(t)
        PROVE  TypeOK'
    BY <1>7 DEF BuildFails
  <1>8. ASSUME NEW t \in Operators, CandidateStarts(t)
        PROVE  TypeOK'
    BY <1>8 DEF CandidateStarts
  <1>9. ASSUME NEW t \in Operators, CandidateFails(t)
        PROVE  TypeOK'
    BY <1>9 DEF CandidateFails
  <1>10. ASSUME NEW t \in Operators, DiscardCandidate(t)
        PROVE  TypeOK'
    BY <1>10 DEF DiscardCandidate
  <1>11. ASSUME NEW t \in Operators, GiveUp(t)
        PROVE  TypeOK'
    BY <1>11 DEF GiveUp, EndReload
  <1>12. ASSUME NEW t \in Operators, Activate(t)
        PROVE  TypeOK'
    BY <1>12 DEF Activate
  <1>13. ASSUME NEW t \in Operators, Drained(t)
        PROVE  TypeOK'
    BY <1>13 DEF Drained, EndReload
  <1>14. ASSUME NEW t \in Operators, CleanPrevious(t)
        PROVE  TypeOK'
    BY <1>14 DEF CleanPrevious, EndReload, Closes
  <1>15. ASSUME NEW t \in Operators, CloseBegin(t)
        PROVE  TypeOK'
    BY <1>15 DEF CloseBegin
  <1>16. ASSUME NEW t \in Operators, AlreadyClosed(t)
        PROVE  TypeOK'
    BY <1>16 DEF AlreadyClosed
  <1>17. ASSUME NEW t \in Operators, CloseDrained(t)
        PROVE  TypeOK'
    BY <1>17 DEF CloseDrained
  <1>18. ASSUME NEW t \in Operators, CloseFinish(t)
        PROVE  TypeOK'
    BY <1>18 DEF CloseFinish
  <1>19. ASSUME NEW t \in Operators, NEW c \in Catalogs, Reload(t, c)
        PROVE  TypeOK'
    BY <1>19 DEF Reload
  <1>20. ASSUME NEW t \in Operators, NEW g \in Generations, Build(t, g)
        PROVE  TypeOK'
    BY <1>20 DEF Build, Referenced
  <1>21. ASSUME NEW t \in Operators, NEW g \in Generations, CloseGeneration(t, g)
        PROVE  TypeOK'
    BY <1>21 DEF CloseGeneration, Closes
  <1>22. ASSUME NEW g \in Generations, Crash(g)
        PROVE  TypeOK'
    BY <1>22 DEF Crash
  <1>23. ASSUME NEW r \in Requests, Acquire(r)
        PROVE  TypeOK'
    BY <1>23 DEF Acquire
  <1>24. ASSUME NEW r \in Requests, Release(r)
        PROVE  TypeOK'
    BY <1>24, ReleaseCounts DEF Release
  <1>25. CASE UNCHANGED vars
    BY <1>25 DEF vars
  <1>26. QED
    BY <1>1, <1>2, <1>3, <1>4, <1>5, <1>6, <1>7, <1>8, <1>9, <1>10, <1>11,
       <1>12, <1>13, <1>14, <1>15, <1>16, <1>17, <1>18, <1>19, <1>20, <1>21,
       <1>22, <1>23, <1>24, <1>25
       DEF Next, OperatorCall, OperatorStep

-----------------------------------------------------------------------------
(* Leases are counted: acquiring adds one lessee to the active generation,   *)
(* releasing takes one from the generation the request holds.                *)
LEMMA LeasesStep ==
  ASSUME TypeOK, LeasesCounted, [Next]_vars
  PROVE  LeasesCounted'
PROOF
  <1> USE DEF TypeOK, LeasesCounted
  <1>1. ASSUME NEW r \in Requests, Acquire(r), NEW g \in Generations
        PROVE  inflight'[g] = Cardinality(Lessees(g)')
    <2>1. CASE g = active
      <3>1. r \notin Lessees(g) /\ Lessees(g)' = Lessees(g) \cup {r}
        BY <1>1, <2>1, ManagerAssumption DEF Acquire, Lessees
      <3>2. Cardinality(Lessees(g)') = Cardinality(Lessees(g)) + 1
        BY <3>1, LesseesFinite, FS_AddElement
      <3>3. QED
        BY <1>1, <2>1, <3>2 DEF Acquire
    <2>2. CASE g # active
      <3>1. Lessees(g)' = Lessees(g)
        BY <1>1, <2>2, ManagerAssumption DEF Acquire, Lessees
      <3>2. QED
        BY <1>1, <2>2, <3>1 DEF Acquire
    <2>3. QED
      BY <2>1, <2>2
  <1>2. ASSUME NEW r \in Requests, Release(r), NEW g \in Generations
        PROVE  inflight'[g] = Cardinality(Lessees(g)')
    <2>1. CASE g = lease[r]
      <3>1. r \in Lessees(g) /\ Lessees(g)' = Lessees(g) \ {r}
        BY <1>2, <2>1, ManagerAssumption DEF Release, Lessees
      <3>2. Cardinality(Lessees(g)') = Cardinality(Lessees(g)) - 1
        BY <3>1, LesseesFinite, FS_RemoveElement
      <3>3. QED
        BY <1>2, <2>1, <3>2 DEF Release
    <2>2. CASE g # lease[r]
      <3>1. Lessees(g)' = Lessees(g)
        BY <1>2, <2>2, ManagerAssumption DEF Release, Lessees
      <3>2. QED
        BY <1>2, <2>2, <3>1 DEF Release
    <2>3. QED
      BY <2>1, <2>2
  <1>3. CASE UNCHANGED leaseVars
    BY <1>3 DEF leaseVars, Lessees
  <1>4. QED
    BY <1>1, <1>2, <1>3, OperatorsLeaveLeases DEF Next, vars, leaseVars

-----------------------------------------------------------------------------
(* The locks, the locals of a reload, and the catalogs it has in mind. *)
CourseOfReload ==
  LocksHeld /\ LocalsAssigned /\ ReloadUndisturbed /\ CatalogPlanned

(* Whoever reloads, restarts or closes is alone, so that no step of another  *)
(* thread changes what it has read.                                          *)
LEMMA CourseStep ==
  ASSUME TypeOK, LeasesCounted, CourseOfReload, [Next]_vars
  PROVE  CourseOfReload'
PROOF
  <1> USE ManagerAssumption
      DEF TypeOK, CourseOfReload, LocksHeld, LocalsAssigned, ReloadUndisturbed,
          CatalogPlanned, Points, leaseVars, jobVars, closeVars, lockVars, ThreadGoto
  <1>1. ASSUME NEW t \in Operators, StartBegin(t)
        PROVE  CourseOfReload'
    BY <1>1 DEF StartBegin
  <1>2. ASSUME NEW t \in Operators, Restart(t)
        PROVE  CourseOfReload'
    BY <1>2 DEF Restart
  <1>3. ASSUME NEW t \in Operators, LockClose(t)
        PROVE  CourseOfReload'
    BY <1>3 DEF LockClose
  <1>4. ASSUME NEW t \in Operators, StartEnds(t)
        PROVE  CourseOfReload'
    BY <1>4 DEF StartEnds
  <1>5. ASSUME NEW t \in Operators, RefuseReload(t)
        PROVE  CourseOfReload'
    BY <1>5 DEF RefuseReload, EndReload
  <1>6. ASSUME NEW t \in Operators, BeginReload(t)
        PROVE  CourseOfReload'
    BY <1>6 DEF BeginReload, Refused
  <1>7. ASSUME NEW t \in Operators, BuildFails(t)
        PROVE  CourseOfReload'
    BY <1>7 DEF BuildFails
  <1>8. ASSUME NEW t \in Operators, CandidateStarts(t)
        PROVE  CourseOfReload'
    BY <1>8 DEF CandidateStarts
  <1>9. ASSUME NEW t \in Operators, CandidateFails(t)
        PROVE  CourseOfReload'
    BY <1>9 DEF CandidateFails
  <1>10. ASSUME NEW t \in Operators, DiscardCandidate(t)
        PROVE  CourseOfReload'
    BY <1>10 DEF DiscardCandidate
  <1>11. ASSUME NEW t \in Operators, GiveUp(t)
        PROVE  CourseOfReload'
    BY <1>11 DEF GiveUp, EndReload
  <1>12. ASSUME NEW t \in Operators, Activate(t)
        PROVE  CourseOfReload'
    BY <1>12 DEF Activate
  <1>13. ASSUME NEW t \in Operators, Drained(t)
        PROVE  CourseOfReload'
    BY <1>13 DEF Drained, EndReload
  <1>14. ASSUME NEW t \in Operators, CleanPrevious(t)
        PROVE  CourseOfReload'
    BY <1>14 DEF CleanPrevious, EndReload, Closes
  <1>15. ASSUME NEW t \in Operators, CloseBegin(t)
        PROVE  CourseOfReload'
    BY <1>15 DEF CloseBegin
  <1>16. ASSUME NEW t \in Operators, AlreadyClosed(t)
        PROVE  CourseOfReload'
    BY <1>16 DEF AlreadyClosed
  <1>17. ASSUME NEW t \in Operators, CloseDrained(t)
        PROVE  CourseOfReload'
    BY <1>17 DEF CloseDrained
  <1>18. ASSUME NEW t \in Operators, CloseFinish(t)
        PROVE  CourseOfReload'
    BY <1>18 DEF CloseFinish
  <1>19. ASSUME NEW t \in Operators, NEW c \in Catalogs, Reload(t, c)
        PROVE  CourseOfReload'
    BY <1>19 DEF Reload
  <1>20. ASSUME NEW t \in Operators, NEW g \in Generations, Build(t, g)
        PROVE  CourseOfReload'
    BY <1>20 DEF Build, Referenced
  <1>21. ASSUME NEW t \in Operators, NEW g \in Generations, CloseGeneration(t, g)
        PROVE  CourseOfReload'
    BY <1>21 DEF CloseGeneration, Closes
  <1>22. ASSUME NEW g \in Generations, Crash(g)
        PROVE  CourseOfReload'
    BY <1>22 DEF Crash
  <1>23. ASSUME NEW r \in Requests, Acquire(r)
        PROVE  CourseOfReload'
    BY <1>23 DEF Acquire
  <1>24. ASSUME NEW r \in Requests, Release(r)
        PROVE  CourseOfReload'
    BY <1>24, ReleaseCounts DEF Release
  <1>25. CASE UNCHANGED vars
    BY <1>25 DEF vars
  <1>26. QED
    BY <1>1, <1>2, <1>3, <1>4, <1>5, <1>6, <1>7, <1>8, <1>9, <1>10, <1>11,
       <1>12, <1>13, <1>14, <1>15, <1>16, <1>17, <1>18, <1>19, <1>20, <1>21,
       <1>22, <1>23, <1>24, <1>25
       DEF Next, OperatorCall, OperatorStep

(* The manager does not stay RELOADING when a reload has ended: only its     *)
(* activation and its giving up leave the course of a reload, and both       *)
(* change the state.                                                         *)
LEMMA SomeoneStep ==
  ASSUME TypeOK, SomeoneReloads, [Next]_vars
  PROVE  SomeoneReloads'
PROOF
  <1> USE DEF TypeOK, SomeoneReloads, ThreadGoto
  <1>1. ASSUME NEW t \in Operators, StartBegin(t)
        PROVE  SomeoneReloads'
    BY <1>1 DEF StartBegin
  <1>2. ASSUME NEW t \in Operators, Restart(t)
        PROVE  SomeoneReloads'
    BY <1>2 DEF Restart
  <1>3. ASSUME NEW t \in Operators, LockClose(t)
        PROVE  SomeoneReloads'
    BY <1>3 DEF LockClose
  <1>4. ASSUME NEW t \in Operators, StartEnds(t)
        PROVE  SomeoneReloads'
    BY <1>4 DEF StartEnds
  <1>5. ASSUME NEW t \in Operators, RefuseReload(t)
        PROVE  SomeoneReloads'
    BY <1>5 DEF RefuseReload, EndReload
  <1>6. ASSUME NEW t \in Operators, BeginReload(t)
        PROVE  SomeoneReloads'
    BY <1>6 DEF BeginReload, Refused
  <1>7. ASSUME NEW t \in Operators, BuildFails(t)
        PROVE  SomeoneReloads'
    BY <1>7 DEF BuildFails
  <1>8. ASSUME NEW t \in Operators, CandidateStarts(t)
        PROVE  SomeoneReloads'
    BY <1>8 DEF CandidateStarts
  <1>9. ASSUME NEW t \in Operators, CandidateFails(t)
        PROVE  SomeoneReloads'
    BY <1>9 DEF CandidateFails
  <1>10. ASSUME NEW t \in Operators, DiscardCandidate(t)
        PROVE  SomeoneReloads'
    BY <1>10 DEF DiscardCandidate
  <1>11. ASSUME NEW t \in Operators, GiveUp(t)
        PROVE  SomeoneReloads'
    BY <1>11 DEF GiveUp, EndReload
  <1>12. ASSUME NEW t \in Operators, Activate(t)
        PROVE  SomeoneReloads'
    BY <1>12 DEF Activate
  <1>13. ASSUME NEW t \in Operators, Drained(t)
        PROVE  SomeoneReloads'
    BY <1>13 DEF Drained, EndReload
  <1>14. ASSUME NEW t \in Operators, CleanPrevious(t)
        PROVE  SomeoneReloads'
    BY <1>14 DEF CleanPrevious, EndReload
  <1>15. ASSUME NEW t \in Operators, CloseBegin(t)
        PROVE  SomeoneReloads'
    BY <1>15 DEF CloseBegin
  <1>16. ASSUME NEW t \in Operators, AlreadyClosed(t)
        PROVE  SomeoneReloads'
    BY <1>16 DEF AlreadyClosed
  <1>17. ASSUME NEW t \in Operators, CloseDrained(t)
        PROVE  SomeoneReloads'
    BY <1>17 DEF CloseDrained
  <1>18. ASSUME NEW t \in Operators, CloseFinish(t)
        PROVE  SomeoneReloads'
    BY <1>18 DEF CloseFinish
  <1>19. ASSUME NEW t \in Operators, NEW c \in Catalogs, Reload(t, c)
        PROVE  SomeoneReloads'
    BY <1>19 DEF Reload
  <1>20. ASSUME NEW t \in Operators, NEW g \in Generations, Build(t, g)
        PROVE  SomeoneReloads'
    BY <1>20 DEF Build
  <1>21. ASSUME NEW t \in Operators, NEW g \in Generations, CloseGeneration(t, g)
        PROVE  SomeoneReloads'
    BY <1>21 DEF CloseGeneration
  <1>22. ASSUME NEW g \in Generations, Crash(g)
        PROVE  SomeoneReloads'
    BY <1>22 DEF Crash
  <1>23. ASSUME NEW r \in Requests, Acquire(r)
        PROVE  SomeoneReloads'
    BY <1>23 DEF Acquire
  <1>24. ASSUME NEW r \in Requests, Release(r)
        PROVE  SomeoneReloads'
    BY <1>24 DEF Release
  <1>25. CASE UNCHANGED vars
    BY <1>25 DEF vars
  <1>26. QED
    BY <1>1, <1>2, <1>3, <1>4, <1>5, <1>6, <1>7, <1>8, <1>9, <1>10, <1>11,
       <1>12, <1>13, <1>14, <1>15, <1>16, <1>17, <1>18, <1>19, <1>20, <1>21,
       <1>22, <1>23, <1>24, <1>25
       DEF Next, OperatorCall, OperatorStep

-----------------------------------------------------------------------------
(* A manager that was just constructed. *)
LEMMA InitReloadInv == Init => ReloadInv
PROOF
  <1> SUFFICES ASSUME Init PROVE ReloadInv
    OBVIOUS
  <1> USE ManagerAssumption DEF Init
  <1>1. TypeOK
    BY DEF TypeOK, ManagerStates, FirewallStates, Points
  <1>2. LeasesCounted
    <2>1. ASSUME NEW g \in Generations
          PROVE  Cardinality(Lessees(g)) = 0
      <3>1. Lessees(g) = {}
        BY DEF Lessees
      <3>2. QED
        BY <3>1, FS_EmptySet
    <2>2. QED
      BY <2>1 DEF LeasesCounted
  <1>3. ReloadIsExclusive /\ LocksHeld /\ LocalsAssigned /\ CatalogPlanned
    BY DEF ReloadIsExclusive, ReloadUndisturbed, SomeoneReloads, LocksHeld, LocalsAssigned,
           CatalogPlanned
  <1>4. QED
    BY <1>1, <1>2, <1>3 DEF ReloadInv

(* The inductive invariant holds in every reachable state. *)
THEOREM Inductive == Spec => []ReloadInv
PROOF
  <1>1. ReloadInv /\ [Next]_vars => ReloadInv'
    BY TypedStep, LeasesStep, CourseStep, SomeoneStep
       DEF ReloadInv, CourseOfReload, ReloadIsExclusive
  <1>2. QED
    BY <1>1, InitReloadInv, PTL DEF Spec

(* The type invariant; that a lease counter is natural rests on LeasesCounted*)
(* and that a new active generation is one rests on the reload's locals.     *)
THEOREM TypeCorrect == Spec => []TypeOK
PROOF
  <1>1. ReloadInv => TypeOK
    BY DEF ReloadInv
  <1>2. QED
    BY <1>1, Inductive, PTL

(* The counter of every generation is the number of its lessees, for any     *)
(* number of requests that outlive any number of reloads.                    *)
THEOREM LeasesAreCounted == Spec => []LeasesCounted
PROOF
  <1>1. ReloadInv => LeasesCounted
    BY DEF ReloadInv
  <1>2. QED
    BY <1>1, Inductive, PTL

(* Nothing interrupts a reload between its checks and its activation, and    *)
(* no reload leaves the manager RELOADING.                                   *)
THEOREM ReloadsAreExclusive == Spec => []ReloadIsExclusive
PROOF
  <1>1. ReloadInv => ReloadIsExclusive
    BY DEF ReloadInv
  <1>2. QED
    BY <1>1, Inductive, PTL

(* A restart keeps the catalog, a reload changes it. *)
THEOREM CatalogsChangeAsAsked == Spec => CatalogChangesAsAsked
PROOF
  <1>1. ASSUME ReloadInv, [Next]_vars, active' # active
        PROVE  restarting <=> catalog'[active'] = catalog[active]
    <2>1. PICK t \in Operators : Activate(t)
      BY <1>1
         DEF Next, vars, Acquire, Release, Crash, OperatorCall, OperatorStep, StartBegin,
             Restart, LockClose, Reload, StartEnds, RefuseReload, BeginReload, BuildFails,
             Build, CloseGeneration, CandidateStarts, CandidateFails, DiscardCandidate,
             GiveUp, Drained, CleanPrevious, CloseBegin, AlreadyClosed, CloseDrained,
             CloseFinish
    <2>2. op[t] = "activating" /\ active' = candidate /\ catalog' = catalog
      BY <1>1, <2>1 DEF Activate
    <2>3. QED
      BY <1>1, <2>2 DEF ReloadInv, CatalogPlanned
  <1>2. ReloadInv /\ [Next]_vars =>
          [active' # active => (restarting <=> catalog'[active'] = catalog[active])]_vars
    BY <1>1
  <1>3. QED
    BY <1>2, Inductive, PTL DEF Spec, CatalogChangesAsAsked

-----------------------------------------------------------------------------
(* A firewall that runs is one the manager can still close: the steps of     *)
(* the thread that holds _reload_lock hand each generation on, from          *)
(* candidate to active to retired to closed, and no other thread interferes. *)
LEMMA FirewallsStep ==
  ASSUME ReloadInv, FirewallsAccounted, [Next]_vars
  PROVE  FirewallsAccounted'
PROOF
  <1> USE ManagerAssumption
      DEF ReloadInv, FirewallsAccounted, NothingLeaks, TypeOK, LocksHeld, LocalsAssigned,
          ReloadIsExclusive, ReloadUndisturbed, Points, leaseVars, jobVars, closeVars,
          lockVars, ThreadGoto
  <1>1. ASSUME NEW t \in Operators, StartBegin(t)
        PROVE  FirewallsAccounted'
    BY <1>1 DEF StartBegin
  <1>2. ASSUME NEW t \in Operators, Restart(t)
        PROVE  FirewallsAccounted'
    BY <1>2 DEF Restart
  <1>3. ASSUME NEW t \in Operators, LockClose(t)
        PROVE  FirewallsAccounted'
    BY <1>3 DEF LockClose
  <1>4. ASSUME NEW t \in Operators, StartEnds(t)
        PROVE  FirewallsAccounted'
    BY <1>4 DEF StartEnds
  <1>5. ASSUME NEW t \in Operators, RefuseReload(t)
        PROVE  FirewallsAccounted'
    BY <1>5 DEF RefuseReload, EndReload
  <1>6. ASSUME NEW t \in Operators, BeginReload(t)
        PROVE  FirewallsAccounted'
    BY <1>6 DEF BeginReload, Refused
  <1>7. ASSUME NEW t \in Operators, BuildFails(t)
        PROVE  FirewallsAccounted'
    BY <1>7 DEF BuildFails
  <1>8. ASSUME NEW t \in Operators, CandidateStarts(t)
        PROVE  FirewallsAccounted'
    BY <1>8 DEF CandidateStarts
  <1>9. ASSUME NEW t \in Operators, CandidateFails(t)
        PROVE  FirewallsAccounted'
    BY <1>9 DEF CandidateFails
  <1>10. ASSUME NEW t \in Operators, DiscardCandidate(t)
        PROVE  FirewallsAccounted'
    BY <1>10 DEF DiscardCandidate
  <1>11. ASSUME NEW t \in Operators, GiveUp(t)
        PROVE  FirewallsAccounted'
    BY <1>11 DEF GiveUp, EndReload
  <1>12. ASSUME NEW t \in Operators, Activate(t)
        PROVE  FirewallsAccounted'
    BY <1>12 DEF Activate
  <1>13. ASSUME NEW t \in Operators, Drained(t)
        PROVE  FirewallsAccounted'
    BY <1>13 DEF Drained, EndReload
  <1>14. ASSUME NEW t \in Operators, CleanPrevious(t)
        PROVE  FirewallsAccounted'
    BY <1>14 DEF CleanPrevious, EndReload, Closes
  <1>15. ASSUME NEW t \in Operators, CloseBegin(t)
        PROVE  FirewallsAccounted'
    BY <1>15 DEF CloseBegin
  <1>16. ASSUME NEW t \in Operators, AlreadyClosed(t)
        PROVE  FirewallsAccounted'
    BY <1>16 DEF AlreadyClosed
  <1>17. ASSUME NEW t \in Operators, CloseDrained(t)
        PROVE  FirewallsAccounted'
    BY <1>17 DEF CloseDrained
  <1>18. ASSUME NEW t \in Operators, CloseFinish(t)
        PROVE  FirewallsAccounted'
    BY <1>18 DEF CloseFinish
  <1>19. ASSUME NEW t \in Operators, NEW c \in Catalogs, Reload(t, c)
        PROVE  FirewallsAccounted'
    BY <1>19 DEF Reload
  <1>20. ASSUME NEW t \in Operators, NEW g \in Generations, Build(t, g)
        PROVE  FirewallsAccounted'
    BY <1>20 DEF Build, Referenced
  <1>21. ASSUME NEW t \in Operators, NEW g \in Generations, CloseGeneration(t, g)
        PROVE  FirewallsAccounted'
    <2>1. op[t] = "closing" /\ reloadLock = t /\ lifecycleLock = t /\ state = "closing"
      BY <1>21 DEF CloseGeneration
    <2>2. \A u \in Operators : u # t => op[u] = "idle"
      BY <2>1
    <2>3. g \in {active} \cup retired
      BY <1>21, <2>1 DEF CloseGeneration
    <2>4. PICK end \in {"closed", "failed"} : fw' = [fw EXCEPT ![g] = end]
      BY <1>21 DEF CloseGeneration, Closes
    <2>5. NothingLeaks'
      BY <1>21, <2>1, <2>3, <2>4 DEF CloseGeneration
    <2>6. failed' \/ \A h \in ({active} \cup retired) \ toClose' : fw'[h] = "closed"
      <3>1. CASE end = "failed"
        BY <1>21, <2>3, <2>4, <3>1 DEF CloseGeneration
      <3>2. CASE end = "closed"
        BY <1>21, <2>1, <2>3, <2>4, <3>2 DEF CloseGeneration
      <3>3. QED
        BY <3>1, <3>2
    <2>7. QED
      BY <1>21, <2>1, <2>2, <2>5, <2>6 DEF CloseGeneration
  <1>22. ASSUME NEW g \in Generations, Crash(g)
        PROVE  FirewallsAccounted'
    BY <1>22 DEF Crash
  <1>23. ASSUME NEW r \in Requests, Acquire(r)
        PROVE  FirewallsAccounted'
    BY <1>23 DEF Acquire
  <1>24. ASSUME NEW r \in Requests, Release(r)
        PROVE  FirewallsAccounted'
    BY <1>24, ReleaseCounts DEF Release
  <1>25. CASE UNCHANGED vars
    BY <1>25 DEF vars
  <1>26. QED
    BY <1>1, <1>2, <1>3, <1>4, <1>5, <1>6, <1>7, <1>8, <1>9, <1>10, <1>11,
       <1>12, <1>13, <1>14, <1>15, <1>16, <1>17, <1>18, <1>19, <1>20, <1>21,
       <1>22, <1>23, <1>24, <1>25
       DEF Next, OperatorCall, OperatorStep

(* Every generation that was not shut down is still one the manager refers   *)
(* to, and a closed manager has none, whatever cleanup raises.               *)
THEOREM FirewallsNeverLeak == Spec => []NothingLeaks
PROOF
  <1>1. Init => FirewallsAccounted
    BY ManagerAssumption DEF Init, FirewallsAccounted, NothingLeaks
  <1>2. ReloadInv /\ FirewallsAccounted /\ [Next]_vars => FirewallsAccounted'
    BY FirewallsStep
  <1>3. FirewallsAccounted => NothingLeaks
    BY DEF FirewallsAccounted
  <1>4. QED
    BY <1>1, <1>2, <1>3, Inductive, PTL DEF Spec

-----------------------------------------------------------------------------
(* The active generation stays started while the manager serves, and what is *)
(* disposed of has no lease and is not active.                               *)
LEMMA SwapStep ==
  ASSUME ReloadInv, FirewallsAccounted, SwapPrepared, [Next]_vars
  PROVE  SwapPrepared'
PROOF
  <1> USE ManagerAssumption
      DEF ReloadInv, FirewallsAccounted, NothingLeaks, SwapPrepared, Serving, Started,
          TypeOK, LocksHeld, LocalsAssigned, ReloadIsExclusive, ReloadUndisturbed, Points,
          leaseVars, jobVars, closeVars, lockVars, ThreadGoto
  <1>1. ASSUME NEW t \in Operators, StartBegin(t)
        PROVE  SwapPrepared'
    BY <1>1 DEF StartBegin
  <1>2. ASSUME NEW t \in Operators, Restart(t)
        PROVE  SwapPrepared'
    BY <1>2 DEF Restart
  <1>3. ASSUME NEW t \in Operators, LockClose(t)
        PROVE  SwapPrepared'
    BY <1>3 DEF LockClose
  <1>4. ASSUME NEW t \in Operators, StartEnds(t)
        PROVE  SwapPrepared'
    BY <1>4 DEF StartEnds
  <1>5. ASSUME NEW t \in Operators, RefuseReload(t)
        PROVE  SwapPrepared'
    BY <1>5 DEF RefuseReload, EndReload
  <1>6. ASSUME NEW t \in Operators, BeginReload(t)
        PROVE  SwapPrepared'
    BY <1>6 DEF BeginReload, Refused
  <1>7. ASSUME NEW t \in Operators, BuildFails(t)
        PROVE  SwapPrepared'
    BY <1>7 DEF BuildFails
  <1>8. ASSUME NEW t \in Operators, CandidateStarts(t)
        PROVE  SwapPrepared'
    BY <1>8 DEF CandidateStarts
  <1>9. ASSUME NEW t \in Operators, CandidateFails(t)
        PROVE  SwapPrepared'
    BY <1>9 DEF CandidateFails
  <1>10. ASSUME NEW t \in Operators, DiscardCandidate(t)
        PROVE  SwapPrepared'
    BY <1>10 DEF DiscardCandidate
  <1>11. ASSUME NEW t \in Operators, GiveUp(t)
        PROVE  SwapPrepared'
    BY <1>11 DEF GiveUp, EndReload
  <1>12. ASSUME NEW t \in Operators, Activate(t)
        PROVE  SwapPrepared'
    BY <1>12 DEF Activate
  <1>13. ASSUME NEW t \in Operators, Drained(t)
        PROVE  SwapPrepared'
    BY <1>13 DEF Drained, EndReload
  <1>14. ASSUME NEW t \in Operators, CleanPrevious(t)
        PROVE  SwapPrepared'
    BY <1>14 DEF CleanPrevious, EndReload, Closes
  <1>15. ASSUME NEW t \in Operators, CloseBegin(t)
        PROVE  SwapPrepared'
    BY <1>15 DEF CloseBegin
  <1>16. ASSUME NEW t \in Operators, AlreadyClosed(t)
        PROVE  SwapPrepared'
    BY <1>16 DEF AlreadyClosed
  <1>17. ASSUME NEW t \in Operators, CloseDrained(t)
        PROVE  SwapPrepared'
    BY <1>17 DEF CloseDrained
  <1>18. ASSUME NEW t \in Operators, CloseFinish(t)
        PROVE  SwapPrepared'
    BY <1>18 DEF CloseFinish
  <1>19. ASSUME NEW t \in Operators, NEW c \in Catalogs, Reload(t, c)
        PROVE  SwapPrepared'
    BY <1>19 DEF Reload
  <1>20. ASSUME NEW t \in Operators, NEW g \in Generations, Build(t, g)
        PROVE  SwapPrepared'
    BY <1>20 DEF Build, Referenced
  <1>21. ASSUME NEW t \in Operators, NEW g \in Generations, CloseGeneration(t, g)
        PROVE  SwapPrepared'
    BY <1>21 DEF CloseGeneration, Closes
  <1>22. ASSUME NEW g \in Generations, Crash(g)
        PROVE  SwapPrepared'
    BY <1>22 DEF Crash
  <1>23. ASSUME NEW r \in Requests, Acquire(r)
        PROVE  SwapPrepared'
    BY <1>23 DEF Acquire
  <1>24. ASSUME NEW r \in Requests, Release(r)
        PROVE  SwapPrepared'
    <2>1. lease[r] \in Generations /\ inflight[lease[r]] - 1 \in Nat /\ state' = state
      BY <1>24, ReleaseCounts
    <2>2. \A g \in Generations : inflight[g] = 0 => inflight'[g] = 0
      BY <1>24, <2>1 DEF Release
    <2>3. UNCHANGED <<active, retired, fw, op, candidate, previous, toClose>>
      BY <1>24 DEF Release
    <2>4. QED
      BY <2>1, <2>2, <2>3
  <1>25. CASE UNCHANGED vars
    BY <1>25 DEF vars
  <1>26. QED
    BY <1>1, <1>2, <1>3, <1>4, <1>5, <1>6, <1>7, <1>8, <1>9, <1>10, <1>11,
       <1>12, <1>13, <1>14, <1>15, <1>16, <1>17, <1>18, <1>19, <1>20, <1>21,
       <1>22, <1>23, <1>24, <1>25
       DEF Next, OperatorCall, OperatorStep

-----------------------------------------------------------------------------
(* What Swap sees of a manager. *)
Live == {g \in Generations : Started(g)}
swapVars == <<Gate, active, Live, lease>>

(* Steps that hot swapping does not see: the manager keeps serving, or keeps *)
(* not serving, and no started generation changes.                           *)
LEMMA SwapStutters ==
  ASSUME SwapInv,
         \/ \E g \in Generations : Crash(g)
         \/ \E t \in Operators :
              \/ StartBegin(t) \/ Restart(t) \/ LockClose(t)
              \/ \E c \in Catalogs : Reload(t, c)
              \/ RefuseReload(t) \/ BeginReload(t) \/ BuildFails(t)
              \/ \E g \in Generations : Build(t, g)
              \/ CandidateFails(t) \/ DiscardCandidate(t) \/ GiveUp(t)
              \/ Drained(t) \/ AlreadyClosed(t) \/ CloseDrained(t) \/ CloseFinish(t)
  PROVE  UNCHANGED swapVars
PROOF
  <1> USE ManagerAssumption
      DEF SwapInv, ReloadInv, FirewallsAccounted, NothingLeaks, SwapPrepared, TypeOK,
          ReloadIsExclusive, ReloadUndisturbed, Started, Serving, Gate, leaseVars, jobVars,
          closeVars, lockVars
  <1>1. ASSUME NEW g \in Generations, Crash(g)
        PROVE  UNCHANGED swapVars
    BY <1>1 DEF Crash, Live, swapVars
  <1>2. ASSUME NEW t \in Operators, StartBegin(t)
        PROVE  UNCHANGED swapVars
    BY <1>2 DEF StartBegin, Live, swapVars
  <1>3. ASSUME NEW t \in Operators, Restart(t) \/ LockClose(t)
        PROVE  UNCHANGED swapVars
    BY <1>3 DEF Restart, LockClose, Live, swapVars
  <1>4. ASSUME NEW t \in Operators, NEW c \in Catalogs, Reload(t, c)
        PROVE  UNCHANGED swapVars
    BY <1>4 DEF Reload, Live, swapVars
  <1>5. ASSUME NEW t \in Operators, RefuseReload(t)
        PROVE  UNCHANGED swapVars
    BY <1>5 DEF RefuseReload, EndReload, Live, swapVars
  <1>6. ASSUME NEW t \in Operators, BeginReload(t) \/ GiveUp(t)
        PROVE  UNCHANGED swapVars
    BY <1>6 DEF BeginReload, GiveUp, Refused, EndReload, Live, swapVars
  <1>7. ASSUME NEW t \in Operators, BuildFails(t)
        PROVE  UNCHANGED swapVars
    BY <1>7 DEF BuildFails, Live, swapVars
  <1>8. ASSUME NEW t \in Operators, NEW g \in Generations, Build(t, g)
        PROVE  UNCHANGED swapVars
    BY <1>8 DEF Build, Referenced, Live, swapVars
  <1>9. ASSUME NEW t \in Operators, CandidateFails(t)
        PROVE  UNCHANGED swapVars
    BY <1>9 DEF CandidateFails, Live, swapVars
  <1>10. ASSUME NEW t \in Operators, DiscardCandidate(t)
        PROVE  UNCHANGED swapVars
    BY <1>10 DEF DiscardCandidate, LocalsAssigned, Live, swapVars
  <1>11. ASSUME NEW t \in Operators, Drained(t)
        PROVE  UNCHANGED swapVars
    BY <1>11 DEF Drained, EndReload, Live, swapVars
  <1>12. ASSUME NEW t \in Operators, AlreadyClosed(t) \/ CloseDrained(t)
        PROVE  UNCHANGED swapVars
    BY <1>12 DEF AlreadyClosed, CloseDrained, Live, swapVars
  <1>13. ASSUME NEW t \in Operators, CloseFinish(t)
        PROVE  UNCHANGED swapVars
    BY <1>13 DEF CloseFinish, Live, swapVars
  <1>14. QED
    BY <1>1, <1>2, <1>3, <1>4, <1>5, <1>6, <1>7, <1>8, <1>9, <1>10, <1>11,
       <1>12, <1>13

(* A step that hot swapping sees is one of its steps. *)
LEMMA SwapSteps ==
  ASSUME SwapInv, [Next]_vars
  PROVE  [Swap!Next]_swapVars
PROOF
  <1> USE ManagerAssumption
      DEF SwapInv, ReloadInv, FirewallsAccounted, NothingLeaks, SwapPrepared, TypeOK,
          LocalsAssigned, ReloadIsExclusive, ReloadUndisturbed, Started, Serving, Gate,
          leaseVars, jobVars, closeVars, lockVars, Live
  <1>1. ASSUME NEW r \in Requests, Acquire(r)
        PROVE  Swap!Pin(r)
    BY <1>1 DEF Acquire, Swap!Pin
  <1>2. ASSUME NEW r \in Requests, Release(r)
        PROVE  Swap!Unpin(r)
    BY <1>2, ReleaseCounts DEF Release, Swap!Unpin
  <1>3. ASSUME NEW t \in Operators, StartEnds(t)
        PROVE  Swap!Open \/ Swap!Shut
    BY <1>3 DEF StartEnds, LocksHeld, Swap!Open, Swap!Shut
  <1>4. ASSUME NEW t \in Operators, CandidateStarts(t)
        PROVE  Swap!Prepare(candidate)
    BY <1>4 DEF CandidateStarts, Swap!Prepare
  <1>5. ASSUME NEW t \in Operators, Activate(t)
        PROVE  Swap!Publish(candidate)
    BY <1>5 DEF Activate, Swap!Publish
  <1>6. ASSUME NEW t \in Operators, CleanPrevious(t)
        PROVE  Swap!Dispose(previous) \/ UNCHANGED swapVars
    BY <1>6, LeasedIsCounted DEF CleanPrevious, Closes, EndReload, Swap!Dispose, swapVars
  <1>7. ASSUME NEW t \in Operators, CloseBegin(t)
        PROVE  Swap!Shut \/ UNCHANGED swapVars
    BY <1>7 DEF CloseBegin, Swap!Shut, swapVars
  <1>8. ASSUME NEW t \in Operators, NEW g \in Generations, CloseGeneration(t, g)
        PROVE  Swap!Dispose(g) \/ UNCHANGED swapVars
    BY <1>8, LeasedIsCounted DEF CloseGeneration, Closes, Swap!Dispose, swapVars
  <1>9. CASE UNCHANGED vars
    BY <1>9 DEF vars, swapVars
  <1>10. candidate \in Generations \/ ~ \E t \in Operators : CandidateStarts(t) \/ Activate(t)
    BY DEF CandidateStarts, Activate
  <1>11. previous \in Generations \/ ~ \E t \in Operators : CleanPrevious(t)
    BY DEF CleanPrevious
  <1> HIDE DEF SwapInv, ReloadInv, FirewallsAccounted, NothingLeaks, SwapPrepared, TypeOK,
          LocalsAssigned, ReloadIsExclusive, ReloadUndisturbed, Started, Serving, Gate,
          leaseVars, jobVars, closeVars, lockVars, Live
  <1>12. QED
    BY <1>1, <1>2, <1>3, <1>4, <1>5, <1>6, <1>7, <1>8, <1>9, <1>10, <1>11, SwapStutters
       DEF Next, OperatorCall, OperatorStep, Swap!Next

(* The manager implements hot swapping: readers only ever pin a started      *)
(* generation, none is disposed of under them, and a successor is started    *)
(* only when no third generation lingers.                                    *)
THEOREM ManagerImplementsSwap == Spec => ImplementsSwap
PROOF
  <1>1. Init => Swap!Init
    <2> SUFFICES ASSUME Init PROVE Swap!Init
      OBVIOUS
    <2>1. {g \in Generations : Started(g)} = {}
      BY DEF Init, Started
    <2>2. state \in {"new", "starting"} => Gate = "unopened"
      BY DEF Gate, Serving
    <2>3. QED
      BY <2>1, <2>2 DEF Init, Swap!Init
  <1>2. Init => SwapInv
    BY InitReloadInv, ManagerAssumption
       DEF Init, SwapInv, FirewallsAccounted, NothingLeaks, SwapPrepared, Started, Serving
  <1>3. SwapInv /\ [Next]_vars => SwapInv'
    BY TypedStep, LeasesStep, CourseStep, SomeoneStep, FirewallsStep, SwapStep
       DEF SwapInv, ReloadInv, CourseOfReload, ReloadIsExclusive
  <1>4. SwapInv /\ [Next]_vars => [Swap!Next]_swapVars
    BY SwapSteps
  <1>5. QED
    BY <1>1, <1>2, <1>3, <1>4, PTL DEF Spec, ImplementsSwap, Swap!Spec, swapVars, Live

=============================================================================
