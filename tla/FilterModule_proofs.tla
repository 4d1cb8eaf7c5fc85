------------------------ MODULE FilterModule_proofs -------------------------
(***************************************************************************)
(* Proofs about FilterModule, for every number of handler calls, every set *)
(* of packets and both builds.  The inductive invariant is IInv; the       *)
(* counters are exact because a call that holds the lock has loaded the    *)
(* current value (LockHolder) and because the packets it adds or takes     *)
(* away are in no other call's hands (OneHolder).                          *)
(***************************************************************************)
EXTENDS FilterModule, FiniteSetTheorems, TLAPS

-----------------------------------------------------------------------------
(* Arithmetic and finite sets.                                             *)

\* A ULONG has at least one value, and every set of packets is finite.
LEMMA ConstantsFinite ==
    /\ Modulus \in Nat /\ Modulus > 0
    /\ IsFiniteSet(NBLs)
    /\ \A S \in SUBSET NBLs : IsFiniteSet(S) /\ Cardinality(S) \in Nat
  <1>1. IsFiniteSet(NBLs)
    BY NblsFinite, FS_Union DEF NBLs
  <1>2. \A S \in SUBSET NBLs : IsFiniteSet(S) /\ Cardinality(S) \in Nat
    BY <1>1, FS_Subset, FS_CardinalityType
  <1>3. Cardinality(SendNBLs) \in Nat
    BY NblsFinite, FS_CardinalityType
  <1> QED
    BY <1>1, <1>2, <1>3, CountersFit

\* A wrapped value is a ULONG.
LEMMA ULongType ==
  ASSUME NEW i \in Int
  PROVE  ULong(i) \in 0 .. Modulus - 1
  BY ConstantsFinite DEF ULong

\* A value that is in range does not wrap.
LEMMA ULongInRange ==
  ASSUME NEW i \in 0 .. Modulus - 1
  PROVE  ULong(i) = i
  BY ConstantsFinite DEF ULong

\* Adding or taking away a whole chain adds or takes away its length.
LEMMA ChainAdded ==
  ASSUME NEW S, NEW c, IsFiniteSet(S), IsFiniteSet(c), S \cap c = {}
  PROVE  Cardinality(S \cup c) = Cardinality(S) + Cardinality(c)
  <1>1. Cardinality(S \cap c) = 0
    BY FS_EmptySet
  <1>2. Cardinality(S) \in Nat /\ Cardinality(c) \in Nat
    BY FS_CardinalityType
  <1>3. Cardinality(S \cup c) =
            Cardinality(S) + Cardinality(c) - Cardinality(S \cap c)
    BY FS_Union
  <1> QED
    BY <1>1, <1>2, <1>3

LEMMA ChainRemoved ==
  ASSUME NEW S, IsFiniteSet(S), NEW c \in SUBSET S
  PROVE  Cardinality(S \ c) = Cardinality(S) - Cardinality(c)
  <1>1. S \cap c = c
    OBVIOUS
  <1> QED
    BY <1>1, FS_Difference

-----------------------------------------------------------------------------
(* Type correctness.                                                       *)

LEMMA InitType == Init => TypeOK
  <1> SUFFICES ASSUME Init PROVE TypeOK
    OBVIOUS
  <1>1. \A n \in NBLs : Home(n) \in Holder
    BY DEF Home, Holder
  <1> QED
    BY <1>1, ConstantsFinite
    DEF Init, TypeOK, FILTER_STATE, PnpPoint, HandlerPoint

LEMMA EnterType ==
  ASSUME TypeOK, NEW t \in Calls, NEW c \in SUBSET NBLs, NEW from,
         NEW point \in HandlerPoint, Enter(t, c, from, point),
         canPend' \in [Calls -> BOOLEAN]
  PROVE  TypeOK'
  BY DEF TypeOK, Enter, context, Holder

LEMMA HandOverType ==
  ASSUME TypeOK, NEW t \in Calls, NEW to \in Holder,
         NEW point \in HandlerPoint, HandOver(t, to, point)
  PROVE  TypeOK'
  BY DEF TypeOK, HandOver, context

LEMMA StoreSendsType ==
  ASSUME TypeOK, NEW t \in Calls, NEW value \in Int,
         NEW point \in HandlerPoint, StoreSends(t, value, point),
         where' \in [NBLs -> Holder]
  PROVE  TypeOK'
  BY ULongType DEF TypeOK, StoreSends

LEMMA StoreRcvsType ==
  ASSUME TypeOK, NEW t \in Calls, NEW value \in Int,
         NEW point \in HandlerPoint, StoreRcvs(t, value, point),
         where' \in [NBLs -> Holder]
  PROVE  TypeOK'
  BY ULongType DEF TypeOK, StoreRcvs

\* The values a store may see are integers.
LEMMA StoredValues ==
  ASSUME TypeOK, NEW t \in Calls
  PROVE  /\ ref[t] + Cardinality(chain[t]) \in Int
         /\ ref[t] - Cardinality(chain[t]) \in Int
  <1>1. Cardinality(chain[t]) \in Nat
    BY ConstantsFinite DEF TypeOK
  <1> QED
    BY <1>1, ConstantsFinite DEF TypeOK

LEMMA PnpType == TypeOK /\ PnpStep => TypeOK'
  <1> SUFFICES ASSUME TypeOK, PnpStep PROVE TypeOK'
    OBVIOUS
  <1> USE DEF TypeOK, context, locals, FILTER_STATE, PnpPoint
  <1>1. CASE FilterAttach
    BY <1>1, ConstantsFinite DEF FilterAttach
  <1>2. CASE FilterRestart
    BY <1>2 DEF FilterRestart
  <1>3. CASE PauseEnter
    BY <1>3 DEF PauseEnter
  <1>4. CASE PauseAcquire
    BY <1>4 DEF PauseAcquire
  <1>5. CASE PauseMark
    BY <1>5 DEF PauseMark
  <1>6. CASE PauseDone
    BY <1>6 DEF PauseDone
  <1>7. CASE FilterDetach
    BY <1>7 DEF FilterDetach
  <1> QED
    BY <1>1, <1>2, <1>3, <1>4, <1>5, <1>6, <1>7 DEF PnpStep, PauseStep

LEMMA NewCallType ==
  ASSUME TypeOK, NEW t \in Calls, NewCall(t)
  PROVE  TypeOK'
  <1> USE EnterType DEF NBLs, HandlerPoint, LockPoints, SendLockPoints, RcvLockPoints
  <1>1. ASSUME NEW c \in SUBSET SendNBLs, SendCall(t, c)
        PROVE  TypeOK'
    BY <1>1 DEF SendCall, TypeOK
  <1>2. ASSUME NEW c \in SUBSET SendNBLs, CompleteCall(t, c)
        PROVE  TypeOK'
    BY <1>2 DEF CompleteCall, TypeOK
  <1>3. ASSUME NEW c \in SUBSET RcvNBLs, RcvCall(t, c)
        PROVE  TypeOK'
    BY <1>3 DEF RcvCall, TypeOK
  <1>4. ASSUME NEW c \in SUBSET RcvNBLs, ReturnCall(t, c)
        PROVE  TypeOK'
    BY <1>4 DEF ReturnCall, TypeOK
  <1> QED
    BY <1>1, <1>2, <1>3, <1>4 DEF NewCall

LEMMA HandlerType ==
  ASSUME TypeOK, NEW t \in Calls, HandlerStep(t)
  PROVE  TypeOK'
  <1> USE DEF HandlerPoint, LockPoints, SendLockPoints, RcvLockPoints, Holder
  <1>1. CASE SendCheck(t) \/ RcvCheck(t)
    BY <1>1 DEF SendCheck, RcvCheck, CheckRunning, TypeOK, context
  <1>2. CASE SendReject(t) \/ SendForward(t) \/ CompleteUp(t) \/ RcvReject(t)
             \/ RcvIndicate(t) \/ RcvLent(t) \/ ReturnDown(t)
    BY <1>2, HandOverType
    DEF SendReject, SendForward, CompleteUp, RcvReject, RcvIndicate, RcvLent, ReturnDown
  <1>3. CASE SendCount(t)
    BY <1>3, StoredValues, StoreSendsType DEF SendCount, TypeOK
  <1>4. CASE CompleteCount(t)
    BY <1>4, StoredValues, StoreSendsType DEF CompleteCount, TypeOK
  <1>5. CASE RcvCount(t)
    BY <1>5, StoredValues, StoreRcvsType DEF RcvCount, TypeOK
  <1>6. CASE RcvUncount(t)
    <2>1. where' \in [NBLs -> Holder]
      BY <1>6 DEF RcvUncount, TypeOK
    <2> QED
      BY <1>6, <2>1, StoredValues, StoreRcvsType DEF RcvUncount
  <1>7. CASE ReturnUncount(t)
    BY <1>7, StoredValues, StoreRcvsType DEF ReturnUncount, TypeOK
  <1> QED
    BY <1>1, <1>2, <1>3, <1>4, <1>5, <1>6, <1>7 DEF HandlerStep

LEMMA NextType == TypeOK /\ [Next]_vars => TypeOK'
  <1> SUFFICES ASSUME TypeOK, [Next]_vars PROVE TypeOK'
    OBVIOUS
  <1>1. CASE PnpStep
    BY <1>1, PnpType
  <1>2. ASSUME NEW t \in Calls, NewCall(t)
        PROVE  TypeOK'
    BY <1>2, NewCallType
  <1>3. ASSUME NEW t \in Calls, AcquireLock(t)
        PROVE  TypeOK'
    BY <1>3 DEF AcquireLock, TypeOK, context
  <1>4. ASSUME NEW t \in Calls, HandlerStep(t)
        PROVE  TypeOK'
    BY <1>4, HandlerType
  <1>5. CASE UNCHANGED vars
    BY <1>5 DEF vars, context, locals, TypeOK
  <1> QED
    BY <1>1, <1>2, <1>3, <1>4, <1>5 DEF Next

\* Every reachable state is well typed; in particular the two counters always
\* are ULONG values.
THEOREM TypeCorrect == Spec => []TypeOK
  BY InitType, NextType, PTL DEF Spec
-----------------------------------------------------------------------------
(* Who holds the packets.                                                  *)

HoldingPoints == SendPoints \cup RcvPoints

\* The chain a call works on is of its direction and not empty.
LEMMA ChainsTypedStep ==
  ASSUME TypeOK, ChainsTyped, [Next]_vars
  PROVE  ChainsTyped'
  <1> USE DEF TypeOK, ChainsTyped, SendPoints, RcvPoints
  <1>1. CASE PnpStep \/ UNCHANGED vars
    BY <1>1 DEF PnpStep, PauseStep, FilterAttach, FilterRestart, PauseEnter,
       PauseAcquire, PauseMark, PauseDone, FilterDetach, vars, locals
  <1>2. ASSUME NEW t \in Calls, NewCall(t)
        PROVE  ChainsTyped'
    BY <1>2 DEF NewCall, SendCall, CompleteCall, RcvCall, ReturnCall, Enter
  <1>3. ASSUME NEW t \in Calls, AcquireLock(t)
        PROVE  ChainsTyped'
    BY <1>3 DEF AcquireLock
  <1>4. ASSUME NEW t \in Calls, HandlerStep(t)
        PROVE  ChainsTyped'
    <2> USE <1>4
    <2>1. CASE SendCheck(t) \/ RcvCheck(t)
      BY <2>1 DEF SendCheck, RcvCheck, CheckRunning
    <2>2. CASE SendReject(t) \/ SendForward(t) \/ CompleteUp(t) \/ RcvReject(t)
               \/ RcvIndicate(t) \/ RcvLent(t) \/ ReturnDown(t)
      BY <2>2 DEF SendReject, SendForward, CompleteUp, RcvReject, RcvIndicate,
         RcvLent, ReturnDown, HandOver
    <2>3. CASE SendCount(t) \/ CompleteCount(t)
      BY <2>3 DEF SendCount, CompleteCount, StoreSends
    <2>4. CASE RcvCount(t) \/ RcvUncount(t) \/ ReturnUncount(t)
      BY <2>4 DEF RcvCount, RcvUncount, ReturnUncount, StoreRcvs
    <2> QED
      BY <2>1, <2>2, <2>3, <2>4 DEF HandlerStep
  <1> QED
    BY <1>1, <1>2, <1>3, <1>4 DEF Next

\* NDIS enters a handler: the packets were outside the filter.
LEMMA HolderEnters ==
  ASSUME TypeOK, OneHolder, NEW t \in Calls, NEW c \in SUBSET NBLs,
         NEW from \in {"Upper", "Lower"}, NEW point \in HoldingPoints \ {"RcvLent"},
         Enter(t, c, from, point)
  PROVE  OneHolder'
  <1> USE DEF TypeOK, OneHolder, Holding, HoldingPoints, SendPoints, RcvPoints, Enter
  <1>1. \A u \in Calls : u # t /\ Holding(u) => c \cap chain[u] = {}
    OBVIOUS
  <1>2. \A u \in Calls : Holding(u)' =>
            \A n \in chain'[u] :
                where'[n] = IF pc'[u] = "RcvLent" THEN "Lent" ELSE "Filter"
    BY <1>1
  <1>3. \A u, v \in Calls : u # v /\ Holding(u)' /\ Holding(v)' =>
            chain'[u] \cap chain'[v] = {}
    BY <1>1
  <1>4. \A n \in NBLs : where'[n] \in {"Filter", "Lent"} =>
            \E u \in Calls : Holding(u)' /\ n \in chain'[u]
    <2> SUFFICES ASSUME NEW n \in NBLs, where'[n] \in {"Filter", "Lent"}
                 PROVE  \E u \in Calls : Holding(u)' /\ n \in chain'[u]
      OBVIOUS
    <2>1. CASE n \in c
      BY <2>1
    <2>2. CASE n \notin c
      <3>1. PICK u \in Calls : Holding(u) /\ n \in chain[u]
        BY <2>2
      <3>2. u # t
        BY <3>1
      <3> QED
        BY <3>1, <3>2
    <2> QED
      BY <2>1, <2>2
  <1>5. \A n \in SendNBLs : where'[n] # "Lent"
    BY DEF NBLs
  <1> QED
    BY <1>2, <1>3, <1>4, <1>5

\* A call goes on with the packets it has.
LEMMA HolderGoesOn ==
  ASSUME TypeOK, OneHolder, NEW t \in Calls, Holding(t), pc[t] # "RcvLent",
         NEW point \in HoldingPoints \ {"RcvLent"},
         pc' = [pc EXCEPT ![t] = point], UNCHANGED <<chain, where>>
  PROVE  OneHolder'
  <1> USE DEF TypeOK, OneHolder, Holding, HoldingPoints, SendPoints, RcvPoints
  <1>1. \A u \in Calls : Holding(u)' <=> Holding(u)
    OBVIOUS
  <1>2. \A u \in Calls : pc'[u] = "RcvLent" <=> pc[u] = "RcvLent"
    OBVIOUS
  <1> QED
    BY <1>1, <1>2

\* A call gives its packets to a neighbour.
LEMMA HolderLeaves ==
  ASSUME TypeOK, OneHolder, NEW t \in Calls, Holding(t),
         NEW to \in {"Upper", "Lower"}, NEW point \in {"Idle", "ReturnUncount"},
         pc' = [pc EXCEPT ![t] = point], UNCHANGED chain,
         where' = [n \in NBLs |-> IF n \in chain[t] THEN to ELSE where[n]]
  PROVE  OneHolder'
  <1> USE DEF TypeOK, OneHolder, Holding, HoldingPoints, SendPoints, RcvPoints
  <1>1. \A u \in Calls : Holding(u)' <=> u # t /\ Holding(u)
    OBVIOUS
  <1>2. \A u \in Calls : Holding(u)' => pc'[u] = pc[u] /\ chain[u] \cap chain[t] = {}
    BY <1>1
  <1>3. \A n \in NBLs : where'[n] \in {"Filter", "Lent"} => n \notin chain[t]
    OBVIOUS
  <1>4. \A n \in SendNBLs : where'[n] # "Lent"
    BY DEF NBLs
  <1> QED
    BY <1>1, <1>2, <1>3, <1>4

\* A receive call lends its packets, or has them back.
LEMMA HolderLends ==
  ASSUME TypeOK, ChainsTyped, OneHolder, NEW t \in Calls, Holding(t),
         NEW to \in {"Lent", "Filter"}, NEW point \in RcvPoints, pc[t] \in RcvPoints,
         to = "Lent" <=> point = "RcvLent", HandOver(t, to, point)
  PROVE  OneHolder'
  <1> USE DEF TypeOK, OneHolder, Holding, HoldingPoints, SendPoints, RcvPoints, HandOver
  <1>1. \A u \in Calls : Holding(u)' <=> Holding(u)
    OBVIOUS
  <1>2. \A u \in Calls : u # t => pc'[u] = pc[u]
    OBVIOUS
  <1>3. \A u \in Calls : u # t /\ Holding(u) => chain[u] \cap chain[t] = {}
    OBVIOUS
  <1>4. \A n \in SendNBLs : where'[n] # "Lent"
    BY NblsDisjoint DEF ChainsTyped, NBLs
  <1>5. \A n \in NBLs : where'[n] \in {"Filter", "Lent"} =>
            n \in chain[t] \/ where[n] \in {"Filter", "Lent"}
    OBVIOUS
  <1>6. \A u \in Calls : Holding(u)' =>
            \A n \in chain[u] :
                where'[n] = IF pc'[u] = "RcvLent" THEN "Lent" ELSE "Filter"
    BY <1>1, <1>2, <1>3
  <1> QED
    BY <1>1, <1>4, <1>5, <1>6

LEMMA OneHolderStep ==
  ASSUME TypeOK, ChainsTyped, OneHolder, [Next]_vars
  PROVE  OneHolder'
  <1> USE DEF HoldingPoints, SendPoints, RcvPoints
  <1>1. CASE PnpStep \/ UNCHANGED vars
    BY <1>1 DEF PnpStep, PauseStep, FilterAttach, FilterRestart, PauseEnter,
       PauseAcquire, PauseMark, PauseDone, FilterDetach, vars, locals,
       OneHolder, Holding
  <1>2. ASSUME NEW t \in Calls, NewCall(t)
        PROVE  OneHolder'
    <2> USE HolderEnters DEF NBLs
    <2>1. ASSUME NEW c \in SUBSET SendNBLs, SendCall(t, c) PROVE OneHolder'
      BY <2>1 DEF SendCall
    <2>2. ASSUME NEW c \in SUBSET SendNBLs, CompleteCall(t, c) PROVE OneHolder'
      BY <2>2 DEF CompleteCall
    <2>3. ASSUME NEW c \in SUBSET RcvNBLs, RcvCall(t, c) PROVE OneHolder'
      BY <2>3 DEF RcvCall
    <2>4. ASSUME NEW c \in SUBSET RcvNBLs, ReturnCall(t, c) PROVE OneHolder'
      BY <2>4 DEF ReturnCall
    <2> QED
      BY <1>2, <2>1, <2>2, <2>3, <2>4 DEF NewCall
  <1>3. ASSUME NEW t \in Calls, AcquireLock(t)
        PROVE  OneHolder'
    BY <1>3 DEF AcquireLock, OneHolder, Holding
  <1>4. ASSUME NEW t \in Calls, HandlerStep(t)
        PROVE  OneHolder'
    <2>1. CASE SendCheck(t) \/ RcvCheck(t)
      BY <2>1, HolderGoesOn DEF SendCheck, RcvCheck, CheckRunning, Holding
    <2>2. CASE SendCount(t) \/ CompleteCount(t)
      BY <2>2, HolderGoesOn DEF SendCount, CompleteCount, StoreSends, Holding
    <2>3. CASE RcvCount(t)
      BY <2>3, HolderGoesOn DEF RcvCount, StoreRcvs, Holding
    <2>4. CASE SendReject(t) \/ SendForward(t) \/ CompleteUp(t) \/ RcvReject(t)
               \/ ReturnDown(t) \/ (RcvIndicate(t) /\ canPend[t])
      BY <2>4, HolderLeaves DEF SendReject, SendForward, CompleteUp, RcvReject,
         ReturnDown, RcvIndicate, HandOver, Holding
    <2>5. CASE RcvIndicate(t) /\ ~canPend[t]
      BY <2>5, HolderLends DEF RcvIndicate, Holding
    <2>6. CASE RcvLent(t)
      BY <2>6, HolderLends DEF RcvLent, Holding
    <2>7. CASE RcvUncount(t)
      BY <2>7, HolderLeaves DEF RcvUncount, StoreRcvs, Holding
    <2>8. CASE ReturnUncount(t)
      BY <2>8 DEF ReturnUncount, StoreRcvs, OneHolder, Holding, TypeOK
    <2> QED
      BY <1>4, <2>1, <2>2, <2>3, <2>4, <2>5, <2>6, <2>7, <2>8 DEF HandlerStep
  <1> QED
    BY <1>1, <1>2, <1>3, <1>4 DEF Next
-----------------------------------------------------------------------------
(* The lock, the state and detached modules.                               *)

\* Only the owner of the lock changes a counter or leaves its point.
LEMMA LockHolderStep ==
  ASSUME TypeOK, LockHolder, DetachedEmpty, [Next]_vars
  PROVE  LockHolder'
  <1> USE OwnersDistinct DEF TypeOK, LockHolder, context, locals,
          LockPoints, SendLockPoints, RcvLockPoints
  <1>1. CASE FilterAttach
    BY <1>1 DEF FilterAttach, DetachedEmpty, NdisDrained
  <1>2. CASE FilterRestart \/ PauseEnter \/ PauseStep \/ FilterDetach
    BY <1>2 DEF FilterRestart, PauseEnter, PauseStep, PauseAcquire, PauseMark,
       PauseDone, FilterDetach, PnpPoint
  <1>3. ASSUME NEW t \in Calls, NewCall(t)
        PROVE  LockHolder'
    BY <1>3 DEF NewCall, SendCall, CompleteCall, RcvCall, ReturnCall, Enter
  <1>4. ASSUME NEW t \in Calls, AcquireLock(t)
        PROVE  LockHolder'
    BY <1>4 DEF AcquireLock
  <1>5. ASSUME NEW t \in Calls, HandlerStep(t)
        PROVE  LockHolder'
    <2>1. CASE SendCheck(t) \/ RcvCheck(t)
      BY <2>1 DEF SendCheck, RcvCheck, CheckRunning
    <2>2. CASE SendReject(t) \/ SendForward(t) \/ CompleteUp(t) \/ RcvReject(t)
               \/ RcvIndicate(t) \/ RcvLent(t) \/ ReturnDown(t)
      BY <2>2 DEF SendReject, SendForward, CompleteUp, RcvReject, RcvIndicate,
         RcvLent, ReturnDown, HandOver
    <2>3. CASE SendCount(t) \/ CompleteCount(t)
      BY <2>3 DEF SendCount, CompleteCount, StoreSends
    <2>4. CASE RcvCount(t) \/ RcvUncount(t) \/ ReturnUncount(t)
      BY <2>4 DEF RcvCount, RcvUncount, ReturnUncount, StoreRcvs
    <2> QED
      BY <1>5, <2>1, <2>2, <2>3, <2>4 DEF HandlerStep
  <1>6. CASE UNCHANGED vars
    BY <1>6 DEF vars
  <1> QED
    BY <1>1, <1>2, <1>3, <1>4, <1>5, <1>6 DEF Next, PnpStep

LEMMA ReleaseBuildStep ==
  ASSUME TypeOK, ReleaseBuildChecksNothing, [Next]_vars
  PROVE  ReleaseBuildChecksNothing'
  <1> SUFFICES ASSUME ~DBG PROVE ReleaseBuildChecksNothing'
    BY DEF ReleaseBuildChecksNothing
  <1> USE DEF TypeOK, ReleaseBuildChecksNothing
  <1>1. CASE PnpStep \/ UNCHANGED vars
    BY <1>1 DEF PnpStep, PauseStep, FilterAttach, FilterRestart, PauseEnter,
       PauseAcquire, PauseMark, PauseDone, FilterDetach, vars, locals
  <1>2. ASSUME NEW t \in Calls, NewCall(t)
        PROVE  ReleaseBuildChecksNothing'
    BY <1>2 DEF NewCall, SendCall, CompleteCall, RcvCall, ReturnCall, Enter
  <1>3. ASSUME NEW t \in Calls, AcquireLock(t)
        PROVE  ReleaseBuildChecksNothing'
    BY <1>3 DEF AcquireLock
  <1>4. ASSUME NEW t \in Calls, HandlerStep(t)
        PROVE  ReleaseBuildChecksNothing'
    BY <1>4 DEF HandlerStep, SendCheck, SendReject, SendCount, SendForward,
       CompleteCount, CompleteUp, RcvCheck, RcvReject, RcvCount, RcvIndicate,
       RcvLent, RcvUncount, ReturnDown, ReturnUncount, HandOver, StoreSends,
       StoreRcvs
  <1> QED
    BY <1>1, <1>2, <1>3, <1>4 DEF Next

LEMMA StateAsNdisKnowsStep ==
  ASSUME StateAsNdisKnows, [Next]_vars
  PROVE  StateAsNdisKnows'
  <1> USE DEF StateAsNdisKnows, context
  <1>1. CASE PnpStep \/ UNCHANGED vars
    BY <1>1 DEF PnpStep, PauseStep, FilterAttach, FilterRestart, PauseEnter,
       PauseAcquire, PauseMark, PauseDone, FilterDetach, vars
  <1>2. ASSUME NEW t \in Calls, NewCall(t) \/ AcquireLock(t) \/ HandlerStep(t)
        PROVE  UNCHANGED <<State, pnp>>
    BY <1>2 DEF NewCall, SendCall, CompleteCall, RcvCall, ReturnCall, Enter,
       AcquireLock, HandlerStep, SendCheck, SendReject, SendCount, SendForward,
       CompleteCount, CompleteUp, RcvCheck, RcvReject, RcvCount, RcvIndicate,
       RcvLent, RcvUncount, ReturnDown, ReturnUncount, HandOver, StoreSends,
       StoreRcvs, CheckRunning
  <1> QED
    BY <1>1, <1>2 DEF Next

\* Packets enter an attached module only, and no call is left when it goes.
LEMMA DetachedEmptyStep ==
  ASSUME TypeOK, DetachedEmpty, [Next]_vars
  PROVE  DetachedEmpty'
  <1> USE DEF DetachedEmpty
  <1>1. CASE PnpStep \/ UNCHANGED vars
    BY <1>1 DEF PnpStep, PauseStep, FilterAttach, FilterRestart, PauseEnter,
       PauseAcquire, PauseMark, PauseDone, FilterDetach, NdisDrained, vars, locals
  <1>2. ASSUME NEW t \in Calls, NewCall(t)
        PROVE  pnp # "Detached" /\ pnp' = pnp
    BY <1>2, NblsDisjoint DEF NewCall, SendCall, CompleteCall, RcvCall, ReturnCall,
       Enter, DatapathOpen, NdisDrained, NBLs, Home
  <1>3. ASSUME NEW t \in Calls, AcquireLock(t) \/ HandlerStep(t)
        PROVE  pnp # "Detached" /\ pnp' = pnp
    <2>1. pc[t] # "Idle"
      BY <1>3 DEF AcquireLock, LockPoints, SendLockPoints, RcvLockPoints,
         HandlerStep, SendCheck, SendReject, SendCount, SendForward,
         CompleteCount, CompleteUp, RcvCheck, RcvReject, RcvCount, RcvIndicate,
         RcvLent, RcvUncount, ReturnDown, ReturnUncount
    <2>2. pnp' = pnp
      BY <1>3 DEF AcquireLock, HandlerStep, SendCheck, SendReject, SendCount,
         SendForward, CompleteCount, CompleteUp, RcvCheck, RcvReject, RcvCount,
         RcvIndicate, RcvLent, RcvUncount, ReturnDown, ReturnUncount, HandOver,
         StoreSends, StoreRcvs, CheckRunning
    <2> QED
      BY <2>1, <2>2 DEF NdisDrained
  <1> QED
    BY <1>1, <1>2, <1>3 DEF Next
-----------------------------------------------------------------------------
(* The counter of outstanding sends.                                       *)

\* Counting a chain adds it to the packets counted before.
LEMMA SendsCountedGrow ==
  ASSUME TypeOK, ChainsTyped, OneHolder, NEW t \in Calls, SendCount(t)
  PROVE  /\ SendsCounted' = SendsCounted \cup chain[t]
         /\ SendsCounted \cap chain[t] = {}
         /\ chain[t] \subseteq SendNBLs
  <1> USE DEF SendCount, StoreSends, TypeOK, SendPoints, RcvPoints, Holding
  <1>1. chain[t] \subseteq SendNBLs /\ Holding(t)
    BY DEF ChainsTyped
  <1>2. SendsCounted \cap chain[t] = {}
    <2> SUFFICES ASSUME NEW n \in chain[t], n \in SendsCounted PROVE FALSE
      OBVIOUS
    <2>1. where[n] = "Filter"
      BY <1>1 DEF OneHolder
    <2>2. PICK u \in Calls : pc[u] \in {"SendForward", "CompleteCount"} /\ n \in chain[u]
      BY <2>1 DEF SendsCounted
    <2> QED
      BY <1>1, <2>2 DEF OneHolder
  <1>3. SendsCounted' = SendsCounted \cup chain[t]
    BY <1>1 DEF SendsCounted
  <1> QED
    BY <1>1, <1>2, <1>3

\* A completion takes its chain away from the packets counted.
LEMMA SendsCountedShrink ==
  ASSUME TypeOK, ChainsTyped, OneHolder, NEW t \in Calls, CompleteCount(t)
  PROVE  /\ SendsCounted' = SendsCounted \ chain[t]
         /\ chain[t] \subseteq SendsCounted
  <1> USE DEF CompleteCount, StoreSends, TypeOK, SendPoints, RcvPoints, Holding
  <1>1. chain[t] \subseteq SendNBLs /\ Holding(t)
    BY DEF ChainsTyped
  <1>2. chain[t] \subseteq SendsCounted
    BY <1>1 DEF SendsCounted
  <1>3. \A n \in chain[t] : /\ where[n] = "Filter"
                            /\ \A u \in Calls : u # t /\ Holding(u) => n \notin chain[u]
    BY <1>1 DEF OneHolder
  <1>4. SendsCounted' = SendsCounted \ chain[t]
    BY <1>1, <1>3 DEF SendsCounted
  <1> QED
    BY <1>2, <1>4

\* No other step of a handler or of NDIS changes what is counted.
LEMMA SendsCountedSame ==
  ASSUME TypeOK, ChainsTyped, OneHolder, NEW t \in Calls,
         NewCall(t) \/ AcquireLock(t)
             \/ (HandlerStep(t) /\ ~SendCount(t) /\ ~CompleteCount(t))
  PROVE  SendsCounted' = SendsCounted /\ UNCHANGED OutstandingSends
  <1> USE DEF TypeOK, SendPoints, RcvPoints, Holding, context
  <1>1. CASE NewCall(t)
    <2> USE DEF Enter, NBLs
    <2>1. ASSUME NEW c \in SUBSET SendNBLs, SendCall(t, c)
          PROVE  SendsCounted' = SendsCounted
      BY <2>1 DEF SendCall, SendsCounted
    <2>2. ASSUME NEW c \in SUBSET SendNBLs, CompleteCall(t, c)
          PROVE  SendsCounted' = SendsCounted
      BY <2>2 DEF CompleteCall, SendsCounted
    <2>3. ASSUME NEW c \in SUBSET RcvNBLs, RcvCall(t, c)
          PROVE  SendsCounted' = SendsCounted
      BY <2>3, NblsDisjoint DEF RcvCall, SendsCounted
    <2>4. ASSUME NEW c \in SUBSET RcvNBLs, ReturnCall(t, c)
          PROVE  SendsCounted' = SendsCounted
      BY <2>4, NblsDisjoint DEF ReturnCall, SendsCounted
    <2>5. UNCHANGED OutstandingSends
      BY <1>1 DEF NewCall, SendCall, CompleteCall, RcvCall, ReturnCall
    <2> QED
      BY <1>1, <2>1, <2>2, <2>3, <2>4, <2>5 DEF NewCall
  <1>2. CASE AcquireLock(t)
    BY <1>2 DEF AcquireLock, SendsCounted
  <1>3. CASE SendForward(t)
    <2>1. chain[t] \subseteq SendNBLs
      BY <1>3 DEF SendForward, ChainsTyped
    <2> QED
      BY <1>3, <2>1 DEF SendForward, HandOver, SendsCounted, NBLs
  <1>4. CASE SendReject(t) \/ CompleteUp(t)
    <2>1. \A n \in chain[t] : where[n] = "Filter"
      BY <1>4 DEF SendReject, CompleteUp, OneHolder
    <2>2. \A n \in chain[t] : \A u \in Calls :
              u # t /\ pc[u] \in {"SendForward", "CompleteCount"} => n \notin chain[u]
      BY <1>4 DEF SendReject, CompleteUp, OneHolder
    <2> QED
      BY <1>4, <2>1, <2>2 DEF SendReject, CompleteUp, HandOver, SendsCounted, NBLs
  <1>5. CASE SendCheck(t) \/ RcvCheck(t)
    BY <1>5 DEF SendCheck, RcvCheck, CheckRunning, SendsCounted
  <1>6. CASE RcvReject(t) \/ RcvIndicate(t) \/ RcvLent(t) \/ ReturnDown(t)
    <2>1. chain[t] \cap SendNBLs = {}
      BY <1>6, NblsDisjoint DEF RcvReject, RcvIndicate, RcvLent, ReturnDown, ChainsTyped
    <2> QED
      BY <1>6, <2>1 DEF RcvReject, RcvIndicate, RcvLent, ReturnDown, HandOver,
         SendsCounted, NBLs
  <1>7. CASE RcvCount(t) \/ RcvUncount(t) \/ ReturnUncount(t)
    <2>1. chain[t] \cap SendNBLs = {}
      BY <1>7, NblsDisjoint DEF RcvCount, RcvUncount, ReturnUncount, ChainsTyped
    <2> QED
      BY <1>7, <2>1 DEF RcvCount, RcvUncount, ReturnUncount, StoreRcvs,
         SendsCounted, NBLs
  <1> QED
    BY <1>1, <1>2, <1>3, <1>4, <1>5, <1>6, <1>7 DEF HandlerStep

LEMMA SendsAccountedStep ==
  ASSUME TypeOK, ChainsTyped, OneHolder, LockHolder, DetachedEmpty,
         SendsAccounted, [Next]_vars
  PROVE  SendsAccounted'
  <1>0. /\ IsFiniteSet(SendsCounted) /\ Cardinality(SendsCounted) \in Nat
        /\ Cardinality(SendNBLs) \in Nat
    BY ConstantsFinite DEF SendsCounted, NBLs
  <1>1. CASE PnpStep \/ UNCHANGED vars
    <2>1. CASE FilterAttach
      <3>1. SendsCounted' = {}
        BY <2>1 DEF FilterAttach, DetachedEmpty, NdisDrained, SendsCounted,
           locals, NBLs, Home
      <3> QED
        BY <2>1, <3>1, FS_EmptySet DEF FilterAttach, SendsAccounted
    <2>2. CASE ~FilterAttach
      <3>1. UNCHANGED <<OutstandingSends, pc, chain, where>>
        BY <1>1, <2>2 DEF PnpStep, PauseStep, FilterRestart, PauseEnter,
           PauseAcquire, PauseMark, PauseDone, FilterDetach, vars, context, locals
      <3> QED
        BY <3>1 DEF SendsAccounted, SendsCounted
    <2> QED
      BY <2>1, <2>2
  <1>2. ASSUME NEW t \in Calls, SendCount(t)
        PROVE  SendsAccounted'
    <2>1. /\ SendsCounted' = SendsCounted \cup chain[t]
          /\ SendsCounted \cap chain[t] = {}
          /\ chain[t] \subseteq SendNBLs
      BY <1>2, SendsCountedGrow
    <2>2. IsFiniteSet(chain[t]) /\ Cardinality(chain[t]) \in Nat
      BY <2>1, ConstantsFinite DEF NBLs
    <2>3. Cardinality(SendsCounted') = Cardinality(SendsCounted) + Cardinality(chain[t])
      BY <1>0, <2>1, <2>2, ChainAdded
    <2>4. Cardinality(SendsCounted') <= Cardinality(SendNBLs)
      BY <2>1, NblsFinite, FS_Subset DEF SendsCounted
    <2>5. ref[t] = Cardinality(SendsCounted)
      BY <1>2 DEF SendCount, StoreSends, LockHolder, SendLockPoints, SendsAccounted
    <2>6. ref[t] + Cardinality(chain[t]) \in 0 .. Modulus - 1
      BY <1>0, <2>2, <2>3, <2>4, <2>5, CountersFit
    <2>7. OutstandingSends' = ref[t] + Cardinality(chain[t])
      BY <1>2, <2>6, ULongInRange DEF SendCount, StoreSends
    <2> QED
      BY <2>3, <2>5, <2>7 DEF SendsAccounted
  <1>3. ASSUME NEW t \in Calls, CompleteCount(t)
        PROVE  SendsAccounted'
    <2>1. /\ SendsCounted' = SendsCounted \ chain[t]
          /\ chain[t] \subseteq SendsCounted
      BY <1>3, SendsCountedShrink
    <2>2. Cardinality(chain[t]) \in Nat /\ Cardinality(SendsCounted') \in Nat
      BY <2>1, ConstantsFinite DEF NBLs, SendsCounted
    <2>3. Cardinality(SendsCounted') = Cardinality(SendsCounted) - Cardinality(chain[t])
      BY <1>0, <2>1, ChainRemoved
    <2>4. Cardinality(SendsCounted) <= Cardinality(SendNBLs)
      BY NblsFinite, FS_Subset DEF SendsCounted
    <2>5. ref[t] = Cardinality(SendsCounted)
      BY <1>3 DEF CompleteCount, StoreSends, LockHolder, SendLockPoints, SendsAccounted
    <2>6. ref[t] - Cardinality(chain[t]) \in 0 .. Modulus - 1
      BY <1>0, <2>2, <2>3, <2>4, <2>5, CountersFit
    <2>7. OutstandingSends' = ref[t] - Cardinality(chain[t])
      BY <1>3, <2>6, ULongInRange DEF CompleteCount, StoreSends
    <2> QED
      BY <2>3, <2>5, <2>7 DEF SendsAccounted
  <1>4. ASSUME NEW t \in Calls, NewCall(t) \/ AcquireLock(t) \/ HandlerStep(t),
               ~SendCount(t), ~CompleteCount(t)
        PROVE  SendsAccounted'
    BY <1>4, SendsCountedSame DEF SendsAccounted
  <1> QED
    BY <1>1, <1>2, <1>3, <1>4 DEF Next
-----------------------------------------------------------------------------
(* The counter of outstanding receives.                                    *)

RcvCountedPoints == {"RcvIndicate", "RcvLent", "RcvUncount", "ReturnDown"}

LEMMA RcvsFinite ==
  /\ IsFiniteSet(RcvsCounted) /\ Cardinality(RcvsCounted) \in Nat
  /\ Cardinality(RcvsCounted) <= Cardinality(RcvNBLs)
  /\ IsFiniteSet(ReturnsUncounted) /\ Cardinality(ReturnsUncounted) \in Nat
  /\ Cardinality(ReturnsUncounted) <= Cardinality(Calls) * Cardinality(RcvNBLs)
  /\ Cardinality(RcvsCounted) + Cardinality(ReturnsUncounted) < Modulus
  <1>1. /\ IsFiniteSet(RcvsCounted) /\ Cardinality(RcvsCounted) \in Nat
        /\ Cardinality(RcvsCounted) <= Cardinality(RcvNBLs)
    BY NblsFinite, FS_Subset, FS_CardinalityType DEF RcvsCounted
  <1>2. /\ IsFiniteSet(Calls \X RcvNBLs)
        /\ Cardinality(Calls \X RcvNBLs) = Cardinality(Calls) * Cardinality(RcvNBLs)
    BY CallsFinite, NblsFinite, FS_Product
  <1>3. ReturnsUncounted \in SUBSET (Calls \X RcvNBLs)
    BY DEF ReturnsUncounted
  <1>4. /\ IsFiniteSet(ReturnsUncounted) /\ Cardinality(ReturnsUncounted) \in Nat
        /\ Cardinality(ReturnsUncounted) <= Cardinality(Calls) * Cardinality(RcvNBLs)
    BY <1>2, <1>3, FS_Subset, FS_CardinalityType
  <1>5. Cardinality(Calls) \in Nat /\ Cardinality(RcvNBLs) \in Nat
    BY CallsFinite, NblsFinite, FS_CardinalityType
  <1> DEFINE product == Cardinality(Calls) * Cardinality(RcvNBLs)
  <1>6. product \in Nat /\ Cardinality(RcvNBLs) + product < Modulus
    BY <1>5, CountersFit
  <1>7. Cardinality(RcvsCounted) + Cardinality(ReturnsUncounted) < Modulus
    <2> HIDE DEF product
    <2>1. Cardinality(ReturnsUncounted) <= product
      BY <1>4 DEF product
    <2> QED
      BY <1>1, <1>4, <1>5, <1>6, <2>1, ConstantsFinite
  <1> QED
    BY <1>1, <1>4, <1>7

\* The pairs of one call stand for the packets of its chain.
LEMMA PairsOfCall ==
  ASSUME NEW t \in Calls, NEW c \in SUBSET RcvNBLs
  PROVE  /\ IsFiniteSet({t} \X c)
         /\ Cardinality({t} \X c) = Cardinality(c)
  <1>1. IsFiniteSet(c) /\ Cardinality(c) \in Nat
    BY ConstantsFinite DEF NBLs
  <1>2. IsFiniteSet({t}) /\ Cardinality({t}) = 1
    BY FS_Singleton
  <1>3. Cardinality({t} \X c) = Cardinality({t}) * Cardinality(c)
    BY <1>1, <1>2, FS_Product
  <1>4. IsFiniteSet({t} \X c)
    BY <1>1, <1>2, FS_Product
  <1> QED
    BY <1>1, <1>2, <1>3, <1>4

LEMMA RcvCountSets ==
  ASSUME TypeOK, ChainsTyped, OneHolder, NEW t \in Calls, RcvCount(t)
  PROVE  /\ RcvsCounted' = RcvsCounted \cup chain[t]
         /\ RcvsCounted \cap chain[t] = {}
         /\ chain[t] \subseteq RcvNBLs
         /\ ReturnsUncounted' = ReturnsUncounted
  <1> USE DEF RcvCount, StoreRcvs, TypeOK, SendPoints, RcvPoints, Holding
  <1>1. chain[t] \subseteq RcvNBLs /\ Holding(t)
    BY DEF ChainsTyped
  <1>2. RcvsCounted \cap chain[t] = {}
    <2> SUFFICES ASSUME NEW n \in chain[t], n \in RcvsCounted PROVE FALSE
      OBVIOUS
    <2>1. where[n] = "Filter"
      BY <1>1 DEF OneHolder
    <2>2. PICK u \in Calls : pc[u] \in RcvCountedPoints /\ n \in chain[u]
      BY <2>1 DEF RcvsCounted, RcvCountedPoints
    <2> QED
      BY <1>1, <2>2 DEF OneHolder, RcvCountedPoints
  <1>3. RcvsCounted' = RcvsCounted \cup chain[t]
    BY <1>1 DEF RcvsCounted
  <1>4. ReturnsUncounted' = ReturnsUncounted
    <2>1. \A u \in Calls : pc'[u] = "ReturnUncount" <=> pc[u] = "ReturnUncount"
      OBVIOUS
    <2> QED
      BY <2>1 DEF ReturnsUncounted
  <1> QED
    BY <1>1, <1>2, <1>3, <1>4

\* The end of a loan takes its packets away from those counted.
LEMMA RcvUncountSets ==
  ASSUME TypeOK, ChainsTyped, OneHolder, NEW t \in Calls, RcvUncount(t)
  PROVE  /\ RcvsCounted' = RcvsCounted \ chain[t]
         /\ chain[t] \subseteq RcvsCounted
         /\ ReturnsUncounted' = ReturnsUncounted
  <1> USE DEF RcvUncount, StoreRcvs, TypeOK, SendPoints, RcvPoints, Holding
  <1>1. chain[t] \subseteq RcvNBLs /\ Holding(t)
    BY DEF ChainsTyped
  <1>2. chain[t] \subseteq RcvsCounted
    BY <1>1 DEF RcvsCounted
  <1>3. \A n \in chain[t] : \A u \in Calls : u # t /\ Holding(u) => n \notin chain[u]
    BY <1>1 DEF OneHolder
  <1>4. RcvsCounted' = RcvsCounted \ chain[t]
    BY <1>1, <1>3 DEF RcvsCounted, NBLs
  <1>5. ReturnsUncounted' = ReturnsUncounted
    <2>1. \A u \in Calls : pc'[u] = "ReturnUncount" <=> pc[u] = "ReturnUncount"
      OBVIOUS
    <2> QED
      BY <2>1 DEF ReturnsUncounted
  <1> QED
    BY <1>2, <1>4, <1>5

\* A return moves its packets from those counted to those uncounted late.
LEMMA ReturnDownSets ==
  ASSUME TypeOK, ChainsTyped, OneHolder, NEW t \in Calls, ReturnDown(t)
  PROVE  /\ RcvsCounted' = RcvsCounted \ chain[t]
         /\ chain[t] \subseteq RcvsCounted
         /\ ReturnsUncounted' = ReturnsUncounted \cup ({t} \X chain[t])
         /\ ReturnsUncounted \cap ({t} \X chain[t]) = {}
  <1> USE DEF ReturnDown, HandOver, TypeOK, SendPoints, RcvPoints, Holding
  <1>1. chain[t] \subseteq RcvNBLs /\ Holding(t)
    BY DEF ChainsTyped
  <1>2. chain[t] \subseteq RcvsCounted
    BY <1>1 DEF RcvsCounted
  <1>3. \A n \in chain[t] : \A u \in Calls : u # t /\ Holding(u) => n \notin chain[u]
    BY <1>1 DEF OneHolder
  <1>4. RcvsCounted' = RcvsCounted \ chain[t]
    BY <1>1, <1>3 DEF RcvsCounted, NBLs
  <1>5. ReturnsUncounted' = ReturnsUncounted \cup ({t} \X chain[t])
    BY <1>1 DEF ReturnsUncounted
  <1>6. ReturnsUncounted \cap ({t} \X chain[t]) = {}
    BY DEF ReturnsUncounted
  <1> QED
    BY <1>2, <1>4, <1>5, <1>6

LEMMA ReturnUncountSets ==
  ASSUME TypeOK, ChainsTyped, NEW t \in Calls, ReturnUncount(t)
  PROVE  /\ RcvsCounted' = RcvsCounted
         /\ ReturnsUncounted' = ReturnsUncounted \ ({t} \X chain[t])
         /\ {t} \X chain[t] \subseteq ReturnsUncounted
         /\ chain[t] \subseteq RcvNBLs
  <1> USE DEF ReturnUncount, StoreRcvs, TypeOK
  <1>1. chain[t] \subseteq RcvNBLs
    BY DEF ChainsTyped
  <1>2. RcvsCounted' = RcvsCounted
    BY DEF RcvsCounted
  <1>3. ReturnsUncounted' = ReturnsUncounted \ ({t} \X chain[t])
    BY <1>1 DEF ReturnsUncounted
  <1>4. {t} \X chain[t] \subseteq ReturnsUncounted
    BY <1>1 DEF ReturnsUncounted
  <1> QED
    BY <1>1, <1>2, <1>3, <1>4
LEMMA RcvsCountedSame ==
  ASSUME TypeOK, ChainsTyped, OneHolder, NEW t \in Calls,
         NewCall(t) \/ AcquireLock(t)
             \/ (HandlerStep(t) /\ ~RcvCount(t) /\ ~RcvUncount(t)
                                /\ ~ReturnDown(t) /\ ~ReturnUncount(t))
  PROVE  /\ RcvsCounted' = RcvsCounted
         /\ ReturnsUncounted' = ReturnsUncounted
         /\ UNCHANGED OutstandingRcvs
  <1> USE DEF TypeOK, SendPoints, RcvPoints, Holding, context
  <1>1. CASE NewCall(t)
    <2> USE DEF Enter, NBLs
    <2>1. ASSUME NEW c \in SUBSET SendNBLs, SendCall(t, c)
          PROVE  RcvsCounted' = RcvsCounted
      BY <2>1, NblsDisjoint DEF SendCall, RcvsCounted
    <2>2. ASSUME NEW c \in SUBSET SendNBLs, CompleteCall(t, c)
          PROVE  RcvsCounted' = RcvsCounted
      BY <2>2, NblsDisjoint DEF CompleteCall, RcvsCounted
    <2>3. ASSUME NEW c \in SUBSET RcvNBLs, RcvCall(t, c)
          PROVE  RcvsCounted' = RcvsCounted
      BY <2>3 DEF RcvCall, RcvsCounted
    <2>4. ASSUME NEW c \in SUBSET RcvNBLs, ReturnCall(t, c)
          PROVE  RcvsCounted' = RcvsCounted
      BY <2>4 DEF ReturnCall, RcvsCounted
    <2>5. \A u \in Calls : pc'[u] = "ReturnUncount" <=> pc[u] = "ReturnUncount"
      BY <1>1 DEF NewCall, SendCall, CompleteCall, RcvCall, ReturnCall
    <2>6. \A u \in Calls : pc[u] = "ReturnUncount" => chain'[u] = chain[u]
      BY <1>1 DEF NewCall, SendCall, CompleteCall, RcvCall, ReturnCall
    <2>7. ReturnsUncounted' = ReturnsUncounted
      BY <2>5, <2>6 DEF ReturnsUncounted
    <2>8. UNCHANGED OutstandingRcvs
      BY <1>1 DEF NewCall, SendCall, CompleteCall, RcvCall, ReturnCall
    <2> QED
      BY <1>1, <2>1, <2>2, <2>3, <2>4, <2>7, <2>8 DEF NewCall
  <1>2. CASE AcquireLock(t)
    BY <1>2 DEF AcquireLock, RcvsCounted, ReturnsUncounted
  <1>3. CASE RcvIndicate(t)
    <2>1. chain[t] \subseteq RcvNBLs
      BY <1>3 DEF RcvIndicate, ChainsTyped
    <2> QED
      BY <1>3, <2>1 DEF RcvIndicate, HandOver, RcvsCounted, ReturnsUncounted, NBLs
  <1>4. CASE RcvLent(t)
    <2>1. chain[t] \subseteq RcvNBLs
      BY <1>4 DEF RcvLent, ChainsTyped
    <2>2. \A n \in chain[t] : where[n] = "Lent"
      BY <1>4 DEF RcvLent, OneHolder
    <2> QED
      BY <1>4, <2>1, <2>2 DEF RcvLent, HandOver, RcvsCounted, ReturnsUncounted, NBLs
  <1>5. CASE RcvReject(t)
    <2>1. \A n \in chain[t] : where[n] = "Filter"
      BY <1>5 DEF RcvReject, OneHolder
    <2>2. \A n \in chain[t] : \A u \in Calls :
              u # t /\ pc[u] \in RcvCountedPoints => n \notin chain[u]
      BY <1>5 DEF RcvReject, OneHolder, RcvCountedPoints
    <2> QED
      BY <1>5, <2>1, <2>2 DEF RcvReject, HandOver, RcvsCounted, ReturnsUncounted,
         NBLs, RcvCountedPoints
  <1>6. CASE SendCheck(t) \/ RcvCheck(t)
    BY <1>6 DEF SendCheck, RcvCheck, CheckRunning, RcvsCounted, ReturnsUncounted
  <1>7. CASE SendReject(t) \/ SendForward(t) \/ CompleteUp(t)
    <2>1. chain[t] \cap RcvNBLs = {}
      BY <1>7, NblsDisjoint DEF SendReject, SendForward, CompleteUp, ChainsTyped
    <2> QED
      BY <1>7, <2>1 DEF SendReject, SendForward, CompleteUp, HandOver,
         RcvsCounted, ReturnsUncounted, NBLs
  <1>8. CASE SendCount(t) \/ CompleteCount(t)
    BY <1>8 DEF SendCount, CompleteCount, StoreSends, RcvsCounted, ReturnsUncounted
  <1> QED
    BY <1>1, <1>2, <1>3, <1>4, <1>5, <1>6, <1>7, <1>8 DEF HandlerStep

LEMMA RcvsAccountedStep ==
  ASSUME TypeOK, ChainsTyped, OneHolder, LockHolder, DetachedEmpty,
         RcvsAccounted, [Next]_vars
  PROVE  RcvsAccounted'
  <1>0. \A t \in Calls : RcvCount(t) \/ RcvUncount(t) \/ ReturnUncount(t) =>
            ref[t] = Cardinality(RcvsCounted) + Cardinality(ReturnsUncounted)
    BY DEF RcvCount, RcvUncount, ReturnUncount, StoreRcvs, LockHolder,
       RcvLockPoints, RcvsAccounted
  <1>1. CASE PnpStep \/ UNCHANGED vars
    <2>1. CASE FilterAttach
      <3>1. RcvsCounted' = {} /\ ReturnsUncounted' = {}
        BY <2>1, NblsDisjoint DEF FilterAttach, DetachedEmpty, NdisDrained,
           RcvsCounted, ReturnsUncounted, locals, NBLs, Home
      <3> QED
        BY <2>1, <3>1, FS_EmptySet DEF FilterAttach, RcvsAccounted
    <2>2. CASE ~FilterAttach
      <3>1. UNCHANGED <<OutstandingRcvs, pc, chain, where>>
        BY <1>1, <2>2 DEF PnpStep, PauseStep, FilterRestart, PauseEnter,
           PauseAcquire, PauseMark, PauseDone, FilterDetach, vars, context, locals
      <3> QED
        BY <3>1 DEF RcvsAccounted, RcvsCounted, ReturnsUncounted
    <2> QED
      BY <2>1, <2>2
  <1>2. ASSUME NEW t \in Calls, RcvCount(t)
        PROVE  RcvsAccounted'
    <2>1. /\ RcvsCounted' = RcvsCounted \cup chain[t]
          /\ RcvsCounted \cap chain[t] = {}
          /\ chain[t] \subseteq RcvNBLs
          /\ ReturnsUncounted' = ReturnsUncounted
      BY <1>2, RcvCountSets
    <2>2. IsFiniteSet(chain[t]) /\ Cardinality(chain[t]) \in Nat
      BY <2>1, ConstantsFinite DEF NBLs
    <2>3. Cardinality(RcvsCounted') = Cardinality(RcvsCounted) + Cardinality(chain[t])
      BY <2>1, <2>2, RcvsFinite, ChainAdded
    <2>4. Cardinality(RcvsCounted') + Cardinality(ReturnsUncounted) < Modulus
      <3>1. /\ RcvsCounted' \in SUBSET RcvNBLs
            /\ Cardinality(RcvsCounted') <= Cardinality(RcvNBLs)
        BY <2>1, NblsFinite, FS_Subset DEF RcvsCounted
      <3>2. /\ Cardinality(RcvNBLs) \in Nat
            /\ Cardinality(Calls) * Cardinality(RcvNBLs) \in Nat
            /\ Cardinality(RcvsCounted') \in Nat
        BY <3>1, CallsFinite, NblsFinite, FS_CardinalityType, FS_Subset
      <3> DEFINE product == Cardinality(Calls) * Cardinality(RcvNBLs)
      <3>3. /\ product \in Nat /\ Cardinality(RcvNBLs) + product < Modulus
            /\ Cardinality(ReturnsUncounted) <= product
        BY <3>2, RcvsFinite, CountersFit
      <3> HIDE DEF product
      <3> QED
        BY <3>1, <3>2, <3>3, RcvsFinite, ConstantsFinite
    <2>5. ref[t] + Cardinality(chain[t]) \in 0 .. Modulus - 1
      BY <1>0, <1>2, <2>2, <2>3, <2>4, RcvsFinite, ConstantsFinite
    <2>6. OutstandingRcvs' = ref[t] + Cardinality(chain[t])
      BY <1>2, <2>5, ULongInRange DEF RcvCount, StoreRcvs
    <2> QED
      BY <1>0, <1>2, <2>1, <2>2, <2>3, <2>6, RcvsFinite DEF RcvsAccounted
  <1>3. ASSUME NEW t \in Calls, RcvUncount(t)
        PROVE  RcvsAccounted'
    <2>1. /\ RcvsCounted' = RcvsCounted \ chain[t]
          /\ chain[t] \subseteq RcvsCounted
          /\ ReturnsUncounted' = ReturnsUncounted
      BY <1>3, RcvUncountSets
    <2>2. Cardinality(chain[t]) \in Nat /\ Cardinality(RcvsCounted') \in Nat
      BY <2>1, ConstantsFinite DEF NBLs, RcvsCounted
    <2>3. Cardinality(RcvsCounted') = Cardinality(RcvsCounted) - Cardinality(chain[t])
      BY <2>1, RcvsFinite, ChainRemoved
    <2>4. ref[t] - Cardinality(chain[t]) \in 0 .. Modulus - 1
      BY <1>0, <1>3, <2>2, <2>3, RcvsFinite, ConstantsFinite
    <2>5. OutstandingRcvs' = ref[t] - Cardinality(chain[t])
      BY <1>3, <2>4, ULongInRange DEF RcvUncount, StoreRcvs
    <2> QED
      BY <1>0, <1>3, <2>1, <2>2, <2>3, <2>5, RcvsFinite DEF RcvsAccounted
  <1>4. ASSUME NEW t \in Calls, ReturnDown(t)
        PROVE  RcvsAccounted'
    <2> DEFINE pairs == {t} \X chain[t]
    <2>1. /\ RcvsCounted' = RcvsCounted \ chain[t]
          /\ chain[t] \subseteq RcvsCounted
          /\ ReturnsUncounted' = ReturnsUncounted \cup pairs
          /\ ReturnsUncounted \cap pairs = {}
      BY <1>4, ReturnDownSets
    <2>2. IsFiniteSet(pairs) /\ Cardinality(pairs) = Cardinality(chain[t])
      BY <2>1, PairsOfCall DEF RcvsCounted
    <2> HIDE DEF pairs
    <2>3. Cardinality(RcvsCounted') = Cardinality(RcvsCounted) - Cardinality(chain[t])
      BY <2>1, RcvsFinite, ChainRemoved
    <2>4. Cardinality(ReturnsUncounted') =
              Cardinality(ReturnsUncounted) + Cardinality(chain[t])
      BY <2>1, <2>2, RcvsFinite, ChainAdded
    <2>5. Cardinality(chain[t]) \in Nat
      BY <2>1, ConstantsFinite DEF NBLs, RcvsCounted
    <2>6. UNCHANGED OutstandingRcvs
      BY <1>4 DEF ReturnDown, HandOver, context
    <2> QED
      BY <2>3, <2>4, <2>5, <2>6, RcvsFinite DEF RcvsAccounted
  <1>5. ASSUME NEW t \in Calls, ReturnUncount(t)
        PROVE  RcvsAccounted'
    <2> DEFINE pairs == {t} \X chain[t]
    <2>1. /\ RcvsCounted' = RcvsCounted
          /\ ReturnsUncounted' = ReturnsUncounted \ pairs
          /\ pairs \subseteq ReturnsUncounted
          /\ chain[t] \subseteq RcvNBLs
      BY <1>5, ReturnUncountSets
    <2>2. Cardinality(pairs) = Cardinality(chain[t])
      BY <2>1, PairsOfCall
    <2> HIDE DEF pairs
    <2>3. Cardinality(ReturnsUncounted') =
              Cardinality(ReturnsUncounted) - Cardinality(chain[t])
      BY <2>1, <2>2, RcvsFinite, ChainRemoved
    <2>4. Cardinality(chain[t]) \in Nat
      BY <2>1, ConstantsFinite DEF NBLs
    <2>5. IsFiniteSet(ReturnsUncounted') /\ Cardinality(ReturnsUncounted') \in Nat
      BY <2>1, RcvsFinite, FS_Difference, FS_CardinalityType
    <2>6. ref[t] - Cardinality(chain[t]) \in 0 .. Modulus - 1
      BY <1>0, <1>5, <2>3, <2>4, <2>5, RcvsFinite, ConstantsFinite
    <2>7. OutstandingRcvs' = ref[t] - Cardinality(chain[t])
      BY <1>5, <2>6, ULongInRange DEF ReturnUncount, StoreRcvs
    <2> QED
      BY <1>0, <1>5, <2>1, <2>3, <2>4, <2>7, RcvsFinite DEF RcvsAccounted
  <1>6. ASSUME NEW t \in Calls, NewCall(t) \/ AcquireLock(t) \/ HandlerStep(t),
               ~RcvCount(t), ~RcvUncount(t), ~ReturnDown(t), ~ReturnUncount(t)
        PROVE  RcvsAccounted'
    BY <1>6, RcvsCountedSame DEF RcvsAccounted
  <1> QED
    BY <1>1, <1>2, <1>3, <1>4, <1>5, <1>6 DEF Next

-----------------------------------------------------------------------------
(* The inductive invariant.                                                *)

LEMMA InitIInv == Init => IInv
  <1> SUFFICES ASSUME Init PROVE IInv
    OBVIOUS
  <1> USE DEF Init, Home
  <1>1. ChainsTyped /\ ReleaseBuildChecksNothing
    BY DEF ChainsTyped, ReleaseBuildChecksNothing, SendPoints, RcvPoints
  <1>2. OneHolder
    BY DEF OneHolder, Holding, SendPoints, RcvPoints, NBLs
  <1>3. LockHolder
    BY OwnersDistinct DEF LockHolder
  <1>4. StateAsNdisKnows /\ DetachedEmpty
    BY DEF StateAsNdisKnows, DetachedEmpty, NdisDrained
  <1>5. SendsCounted = {} /\ RcvsCounted = {} /\ ReturnsUncounted = {}
    BY NblsDisjoint DEF SendsCounted, RcvsCounted, ReturnsUncounted, NBLs
  <1>6. SendsAccounted /\ RcvsAccounted
    BY <1>5, FS_EmptySet DEF SendsAccounted, RcvsAccounted
  <1> QED
    BY <1>1, <1>2, <1>3, <1>4, <1>6, InitType DEF IInv

LEMMA NextIInv == IInv /\ [Next]_vars => IInv'
  BY NextType, ChainsTypedStep, OneHolderStep, LockHolderStep, ReleaseBuildStep,
     StateAsNdisKnowsStep, DetachedEmptyStep, SendsAccountedStep, RcvsAccountedStep
  DEF IInv

LEMMA Invariance == Spec => []IInv
  BY InitIInv, NextIInv, PTL DEF Spec

-----------------------------------------------------------------------------
(* Theorems.                                                               *)

\* No interleaving of sends, completions, receives and returns loses a packet
\* or gives it to two handler calls.
THEOREM PacketsHaveOneHolder == Spec => []OneHolder
  BY Invariance, PTL DEF IInv

\* OutstandingSends is the number of packets sent down and not completed.
THEOREM SendsCountedExactly == Spec => []SendsAccounted
  BY Invariance, PTL DEF IInv

\* OutstandingRcvs is the number of packets indicated up and not returned,
\* plus the returns that are still on their way to the counter.
THEOREM RcvsCountedExactly == Spec => []RcvsAccounted
  BY Invariance, PTL DEF IInv

\* Both counters at once, which is what FilterDetach rests on.
THEOREM CountersAreExact == Spec => []CountersExact
  BY SendsCountedExactly, RcvsCountedExactly, PTL DEF CountersExact

\* Once both neighbours have their packets, only a FilterReturn call may still
\* be about to touch the context.
THEOREM ReturnAloneOutlivesPackets == Spec => []OnlyReturnOutlivesPackets
  <1>1. IInv => OnlyReturnOutlivesPackets
    <2> SUFFICES ASSUME IInv, \A n \in NBLs : where[n] = Home(n),
                        NEW t \in Calls, pc[t] \notin {"Idle", "ReturnUncount"}
                 PROVE  FALSE
      BY DEF OnlyReturnOutlivesPackets
    <2>1. Holding(t)
      BY DEF IInv, TypeOK, Holding, SendPoints, RcvPoints, HandlerPoint,
         LockPoints, SendLockPoints, RcvLockPoints
    <2>2. PICK n \in chain[t] : n \in NBLs
      BY DEF IInv, ChainsTyped, TypeOK
    <2>3. where[n] \in {"Filter", "Lent"}
      BY <2>1, <2>2 DEF IInv, OneHolder
    <2> QED
      BY <2>2, <2>3 DEF Home
  <1> QED
    BY <1>1, Invariance, PTL

\* Whenever NDIS detaches the module both counters are zero and the lock is
\* free, although FilterDetach checks neither.
THEOREM DetachIsClean == Spec => DetachLeavesNothing
  <1>1. IInv /\ [Next]_vars =>
          [FilterDetach => /\ OutstandingSends = 0
                           /\ OutstandingRcvs = 0
                           /\ Lock = NoOwner]_vars
    <2> SUFFICES ASSUME IInv, FilterDetach
                 PROVE  OutstandingSends = 0 /\ OutstandingRcvs = 0 /\ Lock = NoOwner
      OBVIOUS
    <2>1. pnp = "Paused" /\ NdisDrained
      BY DEF FilterDetach
    <2>2. SendsCounted = {} /\ RcvsCounted = {} /\ ReturnsUncounted = {}
      BY <2>1, NblsDisjoint DEF NdisDrained, SendsCounted, RcvsCounted,
         ReturnsUncounted, Home, NBLs
    <2>3. OutstandingSends = 0 /\ OutstandingRcvs = 0
      BY <2>2, FS_EmptySet DEF IInv, SendsAccounted, RcvsAccounted
    <2>4. Lock = NoOwner
      BY <2>1 DEF IInv, TypeOK, LockHolder, NdisDrained, LockPoints,
         SendLockPoints, RcvLockPoints
    <2> QED
      BY <2>3, <2>4
  <1> QED
    BY <1>1, Invariance, PTL DEF Spec, DetachLeavesNothing

-----------------------------------------------------------------------------
(* FilterModule implements PassThrough.                                    *)

\* The stages of the points at which a call holds packets.
LEMMA StagesOfPoints ==
    /\ StageAt("SendCheck") = "Entered" /\ StageAt("RcvCheck") = "Entered"
    /\ StageAt("SendCount") = IF DBG THEN "Admitted" ELSE "Entered"
    /\ StageAt("RcvCount") = IF DBG THEN "Admitted" ELSE "Entered"
    /\ StageAt("SendForward") = "Admitted" /\ StageAt("RcvIndicate") = "Admitted"
    /\ StageAt("SendReject") = "Refused" /\ StageAt("RcvReject") = "Refused"
    /\ \A point \in {"CompleteCount", "CompleteUp", "RcvUncount", "ReturnDown"} :
          StageAt(point) = "Leaving"
  BY DEF StageAt

\* A packet in the hands of a call is at the stage of the point the call has come to.
LEMMA StageOfHeld ==
  ASSUME TypeOK, OneHolder, NEW t \in Calls, Holding(t), NEW n \in chain[t]
  PROVE  StageOf(n) = IF pc[t] = "RcvLent" THEN "Away" ELSE StageAt(pc[t])
  <1>1. n \in NBLs /\ where[n] = IF pc[t] = "RcvLent" THEN "Lent" ELSE "Filter"
    BY DEF TypeOK, OneHolder
  <1>2. where[n] # Home(n)
    BY <1>1 DEF Home
  <1>3. HolderOf(n) = t
    <2>1. \A u \in Calls : Holding(u) /\ n \in chain[u] => u = t
      BY DEF OneHolder
    <2> QED
      BY <2>1 DEF HolderOf
  <1> QED
    BY <1>1, <1>2, <1>3 DEF StageOf

\* The one that is in nobody's hands is at home or away.
LEMMA StageOfFree ==
  ASSUME NEW n \in NBLs, where[n] \in {"Upper", "Lower"}
  PROVE  StageOf(n) = IF where[n] = Home(n) THEN "Home" ELSE "Away"
  BY DEF StageOf

LEMMA StageOfFreeNext ==
  ASSUME NEW n \in NBLs, where'[n] \in {"Upper", "Lower"}
  PROVE  StageOf(n)' = IF where'[n] = Home(n) THEN "Home" ELSE "Away"
  BY DEF StageOf, Home

LEMMA StageOfHeldNext ==
  ASSUME TypeOK', OneHolder', NEW t \in Calls, Holding(t)', NEW n \in chain'[t]
  PROVE  StageOf(n)' = IF pc'[t] = "RcvLent" THEN "Away" ELSE StageAt(pc'[t])
  <1>1. n \in NBLs /\ where'[n] = IF pc'[t] = "RcvLent" THEN "Lent" ELSE "Filter"
    BY DEF TypeOK, OneHolder
  <1>2. where'[n] # Home(n)
    BY <1>1 DEF Home
  <1>3. HolderOf(n)' = t
    <2>1. \A u \in Calls : Holding(u)' /\ n \in chain'[u] => u = t
      BY DEF OneHolder
    <2> QED
      BY <2>1 DEF HolderOf
  <1> QED
    BY <1>1, <1>2, <1>3 DEF StageOf, Home

\* A packet stays at its stage if it stays where it is and whoever holds it at a
\* point of that stage.
LEMMA StageStays ==
  ASSUME TypeOK, OneHolder, TypeOK', OneHolder', NEW n \in NBLs, where'[n] = where[n],
         \A u \in Calls : Holding(u) /\ n \in chain[u] =>
             /\ Holding(u)' /\ n \in chain'[u]
             /\ StageAt(pc'[u]) = StageAt(pc[u])
             /\ pc'[u] = "RcvLent" <=> pc[u] = "RcvLent"
  PROVE  StageOf(n)' = StageOf(n)
  <1>1. CASE where[n] \in {"Upper", "Lower"}
    BY <1>1, StageOfFree, StageOfFreeNext
  <1>2. CASE where[n] \in {"Filter", "Lent"}
    <2>1. PICK u \in Calls : Holding(u) /\ n \in chain[u]
      BY <1>2 DEF OneHolder
    <2>2. StageOf(n) = IF pc[u] = "RcvLent" THEN "Away" ELSE StageAt(pc[u])
      BY <2>1, StageOfHeld
    <2>3. StageOf(n)' = IF pc'[u] = "RcvLent" THEN "Away" ELSE StageAt(pc'[u])
      BY <2>1, StageOfHeldNext
    <2> QED
      BY <2>1, <2>2, <2>3
  <1> QED
    BY <1>1, <1>2 DEF TypeOK, Holder

\* The packets c go from one stage to another; all others, and the state of the
\* module, stay as they are.
StageMoves(c, from, to) ==
    /\ \A n \in c : StageOf(n) = from /\ StageOf(n)' = to
    /\ \A n \in NBLs \ c : StageOf(n)' = StageOf(n)
    /\ UNCHANGED State

\* The moves PassThrough knows.
LegalMove(from, to) ==
    \/ <<from, to>> \in {<<"Home", "Entered">>, <<"Admitted", "Away">>,
                         <<"Refused", "Home">>, <<"Away", "Leaving">>,
                         <<"Leaving", "Home">>}
    \/ from = "Entered" /\ to = "Admitted" /\ (DBG => IsRunning)
    \/ from = "Entered" /\ to = "Refused" /\ DBG /\ ~IsRunning

\* A step of one call moves at most the packets of that call.
LEMMA CallMoves ==
  ASSUME TypeOK, OneHolder, TypeOK', OneHolder', NEW t \in Calls,
         NEW c \in SUBSET NBLs, UNCHANGED State,
         \A u \in Calls : u # t => pc'[u] = pc[u] /\ chain'[u] = chain[u],
         \A n \in NBLs \ c : where'[n] = where[n],
         Holding(t) => chain[t] = c,
         NEW from, NEW to, \A n \in c : StageOf(n) = from /\ StageOf(n)' = to
  PROVE  StageMoves(c, from, to)
  <1>1. ASSUME NEW n \in NBLs \ c
        PROVE  StageOf(n)' = StageOf(n)
    <2>1. \A u \in Calls : Holding(u) /\ n \in chain[u] =>
              u # t /\ Holding(u)' /\ n \in chain'[u]
      BY DEF Holding
    <2> QED
      BY <2>1, StageStays
  <1> QED
    BY <1>1 DEF StageMoves

\* NDIS hands the packets c to a call.
LEMMA EnterMoves ==
  ASSUME TypeOK, OneHolder, TypeOK', OneHolder', NEW t \in Calls,
         NEW c \in SUBSET NBLs, NEW side \in {"Upper", "Lower"},
         NEW point \in HoldingPoints \ {"RcvLent"}, Enter(t, c, side, point),
         NEW from, \A n \in c : from = IF side = Home(n) THEN "Home" ELSE "Away"
  PROVE  StageMoves(c, from, StageAt(point))
  <1> USE DEF Enter, TypeOK
  <1>1. ~Holding(t)
    BY DEF Holding, SendPoints, RcvPoints
  <1>2. Holding(t)' /\ chain'[t] = c /\ pc'[t] = point
    BY DEF Holding, HoldingPoints
  <1>3. \A n \in c : StageOf(n) = from
    BY StageOfFree
  <1>4. \A n \in c : StageOf(n)' = StageAt(point)
    BY <1>2, StageOfHeldNext
  <1>5. UNCHANGED State
    BY DEF context
  <1>6. \A n \in NBLs \ c : where'[n] = where[n]
    OBVIOUS
  <1>7. \A u \in Calls : u # t => pc'[u] = pc[u] /\ chain'[u] = chain[u]
    OBVIOUS
  <1> HIDE DEF Enter, TypeOK
  <1> QED
    BY <1>1, <1>3, <1>4, <1>5, <1>6, <1>7, CallMoves

\* A call gives its packets to a neighbour for good.
LEMMA LeaveMoves ==
  ASSUME TypeOK, OneHolder, TypeOK', OneHolder', NEW t \in Calls, Holding(t),
         pc[t] # "RcvLent", NEW side \in {"Upper", "Lower"},
         UNCHANGED <<State, chain>>,
         \A u \in Calls : u # t => pc'[u] = pc[u],
         where' = [n \in NBLs |-> IF n \in chain[t] THEN side ELSE where[n]],
         NEW to, \A n \in chain[t] : to = IF side = Home(n) THEN "Home" ELSE "Away"
  PROVE  StageMoves(chain[t], StageAt(pc[t]), to)
  <1>1. chain[t] \in SUBSET NBLs
    BY DEF TypeOK
  <1>2. \A n \in chain[t] : StageOf(n) = StageAt(pc[t])
    BY StageOfHeld
  <1>3. \A n \in chain[t] : StageOf(n)' = to
    BY <1>1, StageOfFreeNext
  <1>4. \A n \in NBLs \ chain[t] : where'[n] = where[n]
    BY DEF TypeOK
  <1> QED
    BY <1>1, <1>2, <1>3, <1>4, CallMoves

\* A call goes from one of its points to another with its packets in hand, lent
\* or taken back.
LEMMA PointMoves ==
  ASSUME TypeOK, OneHolder, TypeOK', OneHolder', NEW t \in Calls, Holding(t),
         Holding(t)', UNCHANGED <<State, chain>>,
         \A u \in Calls : u # t => pc'[u] = pc[u],
         \A n \in NBLs \ chain[t] : where'[n] = where[n]
  PROVE  StageMoves(chain[t],
             IF pc[t] = "RcvLent" THEN "Away" ELSE StageAt(pc[t]),
             IF pc'[t] = "RcvLent" THEN "Away" ELSE StageAt(pc'[t]))
  <1>1. chain[t] \in SUBSET NBLs
    BY DEF TypeOK
  <1> DEFINE from == IF pc[t] = "RcvLent" THEN "Away" ELSE StageAt(pc[t])
             to == IF pc'[t] = "RcvLent" THEN "Away" ELSE StageAt(pc'[t])
  <1>2. \A n \in chain[t] : StageOf(n) = from /\ StageOf(n)' = to
    BY StageOfHeld, StageOfHeldNext
  <1> HIDE DEF from, to
  <1>3. StageMoves(chain[t], from, to)
    BY <1>1, <1>2, CallMoves
  <1> QED
    BY <1>3 DEF from, to

\* Nothing moves.
StagesSame == (\A n \in NBLs : StageOf(n)' = StageOf(n)) /\ UNCHANGED State

\* The packets c, all of one direction, make a move that PassThrough knows.
LegalStep(c) ==
    /\ c \subseteq SendNBLs \/ c \subseteq RcvNBLs
    /\ \E from, to : StageMoves(c, from, to) /\ LegalMove(from, to)

LEMMA NoMove ==
  ASSUME NEW c, NEW from, StageMoves(c, from, from)
  PROVE  StagesSame
  BY DEF StageMoves, StagesSame

LEMMA NewCallMoves ==
  ASSUME IInv, IInv', NEW t \in Calls, NewCall(t)
  PROVE  \E c : LegalStep(c)
  <1> USE DEF IInv, NBLs, HoldingPoints, SendPoints, RcvPoints, LegalStep, LegalMove
  <1>1. ASSUME NEW c \in SUBSET SendNBLs, SendCall(t, c)
        PROVE  StageMoves(c, "Home", "Entered")
    <2>1. CASE DBG
      BY <1>1, <2>1, EnterMoves, StagesOfPoints DEF SendCall, Home
    <2>2. CASE ~DBG
      BY <1>1, <2>2, EnterMoves, StagesOfPoints DEF SendCall, Home
    <2> QED
      BY <2>1, <2>2
  <1>2. ASSUME NEW c \in SUBSET SendNBLs, CompleteCall(t, c)
        PROVE  StageMoves(c, "Away", "Leaving")
    BY <1>2, EnterMoves, StagesOfPoints DEF CompleteCall, Home
  <1>3. ASSUME NEW c \in SUBSET RcvNBLs, RcvCall(t, c)
        PROVE  StageMoves(c, "Home", "Entered")
    <2>0. \A n \in c : n \notin SendNBLs
      BY NblsDisjoint
    <2>1. CASE DBG
      BY <1>3, <2>0, <2>1, EnterMoves, StagesOfPoints DEF RcvCall, Home
    <2>2. CASE ~DBG
      BY <1>3, <2>0, <2>2, EnterMoves, StagesOfPoints DEF RcvCall, Home
    <2> QED
      BY <2>1, <2>2
  <1>4. ASSUME NEW c \in SUBSET RcvNBLs, ReturnCall(t, c)
        PROVE  StageMoves(c, "Away", "Leaving")
    <2>0. \A n \in c : n \notin SendNBLs
      BY NblsDisjoint
    <2> QED
      BY <1>4, <2>0, EnterMoves, StagesOfPoints DEF ReturnCall, Home
  <1> QED
    BY <1>1, <1>2, <1>3, <1>4 DEF NewCall

LEMMA SendMoves ==
  ASSUME IInv, IInv', NEW t \in Calls,
         SendCheck(t) \/ SendReject(t) \/ SendCount(t) \/ SendForward(t)
             \/ CompleteCount(t) \/ CompleteUp(t)
  PROVE  LegalStep(chain[t]) \/ StagesSame
  <1> USE DEF IInv, LegalMove
  <1>1. Holding(t) /\ chain[t] \subseteq SendNBLs /\ chain[t] \subseteq NBLs
    BY DEF SendCheck, SendReject, SendCount, SendForward, CompleteCount, CompleteUp,
       Holding, ChainsTyped, SendPoints, NBLs
  <1>2. \A n \in chain[t] : Home(n) = "Upper"
    BY <1>1 DEF Home
  <1>3. ASSUME NEW from, NEW to, StageMoves(chain[t], from, to), LegalMove(from, to)
        PROVE  LegalStep(chain[t])
    BY <1>1, <1>3 DEF LegalStep
  <1> HIDE DEF LegalMove
  <1> USE DEF TypeOK, Holding, SendPoints
  <1>4. CASE SendCheck(t)
    <2>1. /\ pc[t] = "SendCheck" /\ UNCHANGED <<State, chain, where>>
          /\ pc' = [pc EXCEPT ![t] = IF IsRunning THEN "SendCount" ELSE "SendReject"]
      BY <1>4 DEF SendCheck, CheckRunning, context, IsRunning
    <2>2. DBG
      BY <2>1 DEF ReleaseBuildChecksNothing
    <2>3. StageMoves(chain[t], "Entered", StageAt(pc'[t]))
      BY <1>1, <2>1, PointMoves, StagesOfPoints
    <2>4. StageAt(pc'[t]) = IF IsRunning THEN "Admitted" ELSE "Refused"
      BY <2>1, <2>2, StagesOfPoints
    <2>5. LegalMove("Entered", StageAt(pc'[t]))
      BY <2>2, <2>4 DEF LegalMove
    <2> QED
      BY <1>3, <2>3, <2>5
  <1>5. CASE SendReject(t)
    <2>1. StageMoves(chain[t], "Refused", "Home")
      BY <1>1, <1>2, <1>5, LeaveMoves, StagesOfPoints DEF SendReject, HandOver, context
    <2> QED
      BY <1>3, <2>1 DEF LegalMove
  <1>6. CASE SendCount(t)
    <2>1. /\ pc[t] = "SendCount" /\ UNCHANGED <<State, chain, where>>
          /\ pc' = [pc EXCEPT ![t] = "SendForward"]
      BY <1>6 DEF SendCount, StoreSends
    <2>2. StageMoves(chain[t], StageAt("SendCount"), "Admitted")
      BY <1>1, <2>1, PointMoves, StagesOfPoints
    <2>3. CASE DBG
      BY <2>2, <2>3, NoMove, StagesOfPoints
    <2>4. CASE ~DBG
      <3>1. LegalMove("Entered", "Admitted")
        BY <2>4 DEF LegalMove
      <3> QED
        BY <1>3, <2>2, <2>4, <3>1, StagesOfPoints
    <2> QED
      BY <2>3, <2>4
  <1>7. CASE SendForward(t)
    <2>1. StageMoves(chain[t], "Admitted", "Away")
      BY <1>1, <1>2, <1>7, LeaveMoves, StagesOfPoints DEF SendForward, HandOver, context
    <2> QED
      BY <1>3, <2>1 DEF LegalMove
  <1>8. CASE CompleteCount(t)
    <2>1. /\ pc[t] = "CompleteCount" /\ UNCHANGED <<State, chain, where>>
          /\ pc' = [pc EXCEPT ![t] = "CompleteUp"]
      BY <1>8 DEF CompleteCount, StoreSends
    <2>2. StageMoves(chain[t], "Leaving", "Leaving")
      BY <1>1, <2>1, PointMoves, StagesOfPoints
    <2> QED
      BY <2>2, NoMove
  <1>9. CASE CompleteUp(t)
    <2>1. StageMoves(chain[t], "Leaving", "Home")
      BY <1>1, <1>2, <1>9, LeaveMoves, StagesOfPoints DEF CompleteUp, HandOver, context
    <2> QED
      BY <1>3, <2>1 DEF LegalMove
  <1> QED
    BY <1>4, <1>5, <1>6, <1>7, <1>8, <1>9

LEMMA RcvMoves ==
  ASSUME IInv, IInv', NEW t \in Calls,
         RcvCheck(t) \/ RcvReject(t) \/ RcvCount(t) \/ RcvIndicate(t) \/ RcvLent(t)
             \/ RcvUncount(t) \/ ReturnDown(t)
  PROVE  LegalStep(chain[t]) \/ StagesSame
  <1> USE DEF IInv
  <1>1. Holding(t) /\ chain[t] \subseteq RcvNBLs /\ chain[t] \subseteq NBLs
    BY DEF RcvCheck, RcvReject, RcvCount, RcvIndicate, RcvLent, RcvUncount,
       ReturnDown, StoreRcvs, Holding, ChainsTyped, RcvPoints, NBLs
  <1>2. \A n \in chain[t] : Home(n) = "Lower"
    BY <1>1, NblsDisjoint DEF Home
  <1>3. ASSUME NEW from, NEW to, StageMoves(chain[t], from, to), LegalMove(from, to)
        PROVE  LegalStep(chain[t])
    BY <1>1, <1>3 DEF LegalStep
  <1> USE DEF TypeOK, Holding, RcvPoints
  <1>4. CASE RcvCheck(t)
    <2>1. /\ pc[t] = "RcvCheck" /\ UNCHANGED <<State, chain, where>>
          /\ pc' = [pc EXCEPT ![t] = IF IsRunning THEN "RcvCount" ELSE "RcvReject"]
      BY <1>4 DEF RcvCheck, CheckRunning, context, IsRunning
    <2>2. DBG
      BY <2>1 DEF ReleaseBuildChecksNothing
    <2>3. StageMoves(chain[t], "Entered", StageAt(pc'[t]))
      BY <1>1, <2>1, PointMoves, StagesOfPoints
    <2>4. StageAt(pc'[t]) = IF IsRunning THEN "Admitted" ELSE "Refused"
      BY <2>1, <2>2, StagesOfPoints
    <2>5. LegalMove("Entered", StageAt(pc'[t]))
      BY <2>2, <2>4 DEF LegalMove
    <2> QED
      BY <1>3, <2>3, <2>5
  <1>5. CASE RcvReject(t)
    <2>1. StageMoves(chain[t], "Refused", "Home")
      BY <1>1, <1>2, <1>5, LeaveMoves, StagesOfPoints DEF RcvReject, HandOver, context
    <2> QED
      BY <1>3, <2>1 DEF LegalMove
  <1>6. CASE RcvCount(t)
    <2>1. /\ pc[t] = "RcvCount" /\ UNCHANGED <<State, chain, where>>
          /\ pc' = [pc EXCEPT ![t] = "RcvIndicate"]
      BY <1>6 DEF RcvCount, StoreRcvs
    <2>2. StageMoves(chain[t], StageAt("RcvCount"), "Admitted")
      BY <1>1, <2>1, PointMoves, StagesOfPoints
    <2>3. CASE DBG
      BY <2>2, <2>3, NoMove, StagesOfPoints
    <2>4. CASE ~DBG
      <3>1. LegalMove("Entered", "Admitted")
        BY <2>4 DEF LegalMove
      <3> QED
        BY <1>3, <2>2, <2>4, <3>1, StagesOfPoints
    <2> QED
      BY <2>3, <2>4
  <1>7. CASE RcvIndicate(t)
    <2>1. /\ pc[t] = "RcvIndicate" /\ UNCHANGED <<State, chain>>
          /\ \A u \in Calls : u # t => pc'[u] = pc[u]
      BY <1>7 DEF RcvIndicate, HandOver, context
    <2>2. ASSUME canPend[t]
          PROVE  StageMoves(chain[t], "Admitted", "Away")
      <3>1. where' = [n \in NBLs |-> IF n \in chain[t] THEN "Upper" ELSE where[n]]
        BY <1>7, <2>2 DEF RcvIndicate, HandOver
      <3> QED
        BY <1>1, <1>2, <2>1, <3>1, LeaveMoves, StagesOfPoints
    <2>3. ASSUME ~canPend[t]
          PROVE  StageMoves(chain[t], "Admitted", "Away")
      <3>1. /\ pc'[t] = "RcvLent"
            /\ \A n \in NBLs \ chain[t] : where'[n] = where[n]
        BY <1>7, <2>3 DEF RcvIndicate, HandOver
      <3> QED
        BY <1>1, <2>1, <3>1, PointMoves, StagesOfPoints
    <2>4. StageMoves(chain[t], "Admitted", "Away")
      BY <2>2, <2>3
    <2> QED
      BY <1>3, <2>4 DEF LegalMove
  <1>8. CASE RcvLent(t)
    <2>1. /\ pc[t] = "RcvLent" /\ UNCHANGED <<State, chain>>
          /\ pc' = [pc EXCEPT ![t] = "RcvUncount"]
          /\ \A n \in NBLs \ chain[t] : where'[n] = where[n]
      BY <1>8 DEF RcvLent, HandOver, context
    <2>2. StageMoves(chain[t], "Away", "Leaving")
      BY <1>1, <2>1, PointMoves, StagesOfPoints
    <2> QED
      BY <1>3, <2>2 DEF LegalMove
  <1>9. CASE RcvUncount(t)
    <2>1. StageMoves(chain[t], "Leaving", "Home")
      BY <1>1, <1>2, <1>9, LeaveMoves, StagesOfPoints DEF RcvUncount, StoreRcvs
    <2> QED
      BY <1>3, <2>1 DEF LegalMove
  <1>10. CASE ReturnDown(t)
    <2>1. StageMoves(chain[t], "Leaving", "Home")
      BY <1>1, <1>2, <1>10, LeaveMoves, StagesOfPoints DEF ReturnDown, HandOver, context
    <2> QED
      BY <1>3, <2>1 DEF LegalMove
  <1> QED
    BY <1>4, <1>5, <1>6, <1>7, <1>8, <1>9, <1>10

\* The steps that touch no packet.
LEMMA OtherMoves ==
  ASSUME IInv, IInv', NEW t \in Calls, AcquireLock(t) \/ ReturnUncount(t)
  PROVE  StagesSame
  <1> USE DEF IInv, TypeOK
  <1>1. UNCHANGED <<State, chain, where>>
    BY DEF AcquireLock, ReturnUncount, StoreRcvs, context
  <1>2. \A u \in Calls : Holding(u) => pc'[u] = pc[u]
    BY DEF AcquireLock, ReturnUncount, StoreRcvs, Holding, SendPoints, RcvPoints
  <1>3. ASSUME NEW n \in NBLs
        PROVE  StageOf(n)' = StageOf(n)
    BY <1>1, <1>2, StageStays DEF Holding
  <1> QED
    BY <1>1, <1>3 DEF StagesSame

LEMMA PnpMoves ==
  ASSUME IInv, IInv', PnpStep \/ UNCHANGED vars
  PROVE  \A n \in NBLs : StageOf(n)' = StageOf(n)
  <1>1. UNCHANGED <<pc, chain, where>>
    BY DEF PnpStep, PauseStep, FilterAttach, FilterRestart, PauseEnter,
       PauseAcquire, PauseMark, PauseDone, FilterDetach, vars, locals
  <1>2. \A u \in Calls : Holding(u)' <=> Holding(u)
    BY <1>1 DEF Holding
  <1> QED
    BY <1>1, <1>2, StageStays DEF IInv

\* One direction: a move of packets c of it is a step of PassThrough, and
\* what leaves its packets alone is none.
LEMMA SendPathStep ==
  ASSUME \/ \E c : LegalStep(c)
         \/ StagesSame
         \/ \A n \in NBLs : StageOf(n)' = StageOf(n)
  PROVE  [SendPath!Next]_(SendPath!vars)
  <1> DEFINE at == [n \in SendNBLs |-> StageOf(n)]
  <1>1. CASE \A n \in NBLs : StageOf(n)' = StageOf(n)
    <2>1. at' = at
      BY <1>1 DEF NBLs
    <2>2. IsRunning' \in BOOLEAN
      BY DEF IsRunning
    <2> QED
      BY <2>1, <2>2 DEF SendPath!Next, SendPath!StartOrStop
  <1>2. ASSUME NEW c, LegalStep(c)
        PROVE  [SendPath!Next]_(SendPath!vars)
    <2>1. PICK from, to : StageMoves(c, from, to) /\ LegalMove(from, to)
      BY <1>2 DEF LegalStep
    <2>2. IsRunning' = IsRunning
      BY <2>1 DEF StageMoves, IsRunning
    <2>3. CASE c \subseteq RcvNBLs
      <3>1. at' = at
        BY <2>1, <2>3, NblsDisjoint DEF StageMoves, NBLs
      <3> QED
        BY <2>2, <3>1 DEF SendPath!vars
    <2>4. CASE c \subseteq SendNBLs
      <3>1. SendPath!Move(c, from, to)
        <4>1. at' = [n \in SendNBLs |-> IF n \in c THEN to ELSE at[n]]
          BY <2>1, <2>4 DEF StageMoves, NBLs
        <4>2. \A n \in c : at[n] = from
          BY <2>1, <2>4 DEF StageMoves
        <4> QED
          BY <2>2, <4>1, <4>2 DEF SendPath!Move
      <3>2. \/ SendPath!Receive(c) \/ SendPath!Admit(c) \/ SendPath!Refuse(c)
            \/ SendPath!Forward(c) \/ SendPath!Bounce(c) \/ SendPath!TakeBack(c)
            \/ SendPath!Deliver(c)
        BY <2>1, <3>1
        DEF LegalMove, SendPath!Receive, SendPath!Admit, SendPath!Refuse,
            SendPath!Forward, SendPath!Bounce, SendPath!TakeBack, SendPath!Deliver
      <3> QED
        BY <2>4, <3>2 DEF SendPath!Next
    <2> QED
      BY <1>2, <2>3, <2>4 DEF LegalStep
  <1> QED
    BY <1>1, <1>2 DEF StagesSame
LEMMA ReceivePathStep ==
  ASSUME \/ \E c : LegalStep(c)
         \/ StagesSame
         \/ \A n \in NBLs : StageOf(n)' = StageOf(n)
  PROVE  [ReceivePath!Next]_(ReceivePath!vars)
  <1> DEFINE at == [n \in RcvNBLs |-> StageOf(n)]
  <1>1. CASE \A n \in NBLs : StageOf(n)' = StageOf(n)
    <2>1. at' = at
      BY <1>1 DEF NBLs
    <2>2. IsRunning' \in BOOLEAN
      BY DEF IsRunning
    <2> QED
      BY <2>1, <2>2 DEF ReceivePath!Next, ReceivePath!StartOrStop
  <1>2. ASSUME NEW c, LegalStep(c)
        PROVE  [ReceivePath!Next]_(ReceivePath!vars)
    <2>1. PICK from, to : StageMoves(c, from, to) /\ LegalMove(from, to)
      BY <1>2 DEF LegalStep
    <2>2. IsRunning' = IsRunning
      BY <2>1 DEF StageMoves, IsRunning
    <2>3. CASE c \subseteq SendNBLs
      <3>1. at' = at
        BY <2>1, <2>3, NblsDisjoint DEF StageMoves, NBLs
      <3> QED
        BY <2>2, <3>1 DEF ReceivePath!vars
    <2>4. CASE c \subseteq RcvNBLs
      <3>1. ReceivePath!Move(c, from, to)
        <4>1. at' = [n \in RcvNBLs |-> IF n \in c THEN to ELSE at[n]]
          BY <2>1, <2>4 DEF StageMoves, NBLs
        <4>2. \A n \in c : at[n] = from
          BY <2>1, <2>4 DEF StageMoves
        <4> QED
          BY <2>2, <4>1, <4>2 DEF ReceivePath!Move
      <3>2. \/ ReceivePath!Receive(c) \/ ReceivePath!Admit(c) \/ ReceivePath!Refuse(c)
            \/ ReceivePath!Forward(c) \/ ReceivePath!Bounce(c) \/ ReceivePath!TakeBack(c)
            \/ ReceivePath!Deliver(c)
        BY <2>1, <3>1
        DEF LegalMove, ReceivePath!Receive, ReceivePath!Admit, ReceivePath!Refuse,
            ReceivePath!Forward, ReceivePath!Bounce, ReceivePath!TakeBack, ReceivePath!Deliver
      <3> QED
        BY <2>4, <3>2 DEF ReceivePath!Next
    <2> QED
      BY <1>2, <2>3, <2>4 DEF LegalStep
  <1> QED
    BY <1>1, <1>2 DEF StagesSame

LEMMA PathSteps ==
  ASSUME IInv, IInv', [Next]_vars
  PROVE  [SendPath!Next]_(SendPath!vars) /\ [ReceivePath!Next]_(ReceivePath!vars)
  <1>1. CASE PnpStep \/ UNCHANGED vars
    BY <1>1, PnpMoves, SendPathStep, ReceivePathStep
  <1>2. ASSUME NEW t \in Calls, NewCall(t) \/ AcquireLock(t) \/ HandlerStep(t)
        PROVE  StagesSame \/ \E c : LegalStep(c)
    <2>1. CASE NewCall(t)
      BY <2>1, NewCallMoves
    <2>2. CASE AcquireLock(t) \/ ReturnUncount(t)
      BY <2>2, OtherMoves
    <2>3. CASE HandlerStep(t) /\ ~ReturnUncount(t)
      BY <2>3, SendMoves, RcvMoves DEF HandlerStep
    <2> QED
      BY <1>2, <2>1, <2>2, <2>3
  <1>3. CASE StagesSame \/ \E c : LegalStep(c)
    BY <1>3, SendPathStep, ReceivePathStep
  <1> QED
    BY <1>1, <1>2, <1>3 DEF Next

LEMMA PathsStart == Init => SendPath!Init /\ ReceivePath!Init
  <1> SUFFICES ASSUME Init PROVE SendPath!Init /\ ReceivePath!Init
    OBVIOUS
  <1>1. \A n \in NBLs : StageOf(n) = "Home"
    BY DEF Init, StageOf
  <1>2. ~IsRunning /\ IsRunning \in BOOLEAN
    BY DEF Init, IsRunning
  <1> QED
    BY <1>1, <1>2 DEF SendPath!Init, ReceivePath!Init, NBLs

\* Every packet that is sent goes through the module as PassThrough says: it is
\* admitted while the module runs or refused while it does not, once, and it is
\* neither lost nor duplicated nor handed to the wrong side, in both builds and
\* however many calls run at one time.
THEOREM SendsPassThrough == Spec => SendPathImplements
  BY PathsStart, PathSteps, Invariance, PTL DEF Spec, SendPathImplements, SendPath!Spec

\* And so does, at the same time, every packet that is received.
THEOREM PacketsPassThrough == Spec => ImplementsPassThrough
  BY PathsStart, PathSteps, Invariance, PTL
  DEF Spec, ImplementsPassThrough, SendPath!Spec, ReceivePath!Spec
=============================================================================
