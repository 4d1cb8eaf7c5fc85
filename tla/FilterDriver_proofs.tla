------------------------ MODULE FilterDriver_proofs -------------------------
(***************************************************************************)
(* Proofs about FilterDriver, for any number of adapters and both builds.  *)
(* The inductive invariant is IInv: the list is intact because the one     *)
(* thread that owns FilterListLock has loaded the links it is about to     *)
(* replace, and modules exist only in the phases in which the list does.   *)
(***************************************************************************)
EXTENDS FilterDriver, TLAPS

LEMMA InitIInv == Init => IInv
  BY NamesDistinct
  DEF Init, IInv, TypeOK, ContextsOwned, ListLockHeld, DriverPhases, ListIntact,
      Nodes, AdapterPoint, LoaderPoint, RegisteredPoint

-----------------------------------------------------------------------------
(* The list.                                                               *)

\* The list of a driver that is just starting is empty.
LEMMA ListInitialised ==
  ASSUME IInv, EntryInit
  PROVE  ListIntact'
  <1>1. Linked' = {}
    BY DEF EntryInit, Linked, IInv, DriverPhases, RegisteredPoint, LoaderGoes, adapter
  <1> QED
    BY <1>1, NamesDistinct DEF EntryInit, ListIntact, Ring, IInv, TypeOK, Nodes

\* A step that leaves the links alone, keeps the same modules linked and
\* frees none of them.
LEMMA ListKept ==
  ASSUME ListIntact, UNCHANGED list, lockReady' => lockReady,
         Linked' = Linked, Linked \subseteq allocated'
  PROVE  ListIntact'
  BY DEF ListIntact, Ring, list

\* InsertHeadList by the owner of the lock.
LEMMA ListInsert ==
  ASSUME IInv, NEW a \in Adapters, InsertStore(a)
  PROVE  ListIntact'
  <1> DEFINE first == Flink[ListHead]
  <1>1. /\ lockReady /\ apc[a] = "Inserting" /\ next[a] = first
        /\ a \in allocated /\ a \notin Linked /\ ListHead \in Ring /\ a \notin Ring
    BY NamesDistinct DEF IInv, InsertStore, AdapterGoes, DriverPhases, RegisteredPoint,
       ListLockHeld, ContextsOwned, Linked, Ring
  <1>2. /\ \A n \in Ring : /\ Flink[n] \in Ring /\ Blink[Flink[n]] = n
                           /\ Blink[n] \in Ring /\ Flink[Blink[n]] = n
        /\ \A S \in SUBSET Ring :
              (ListHead \in S /\ \A n \in S : Flink[n] \in S) => S = Ring
        /\ Linked \subseteq allocated
    BY <1>1 DEF IInv, ListIntact
  <1>3. first \in Ring /\ Ring \subseteq Nodes /\ Ring' = Ring \cup {a}
        /\ Linked' = Linked \cup {a}
    BY <1>1, <1>2 DEF IInv, TypeOK, InsertStore, AdapterGoes, Linked, Ring, Nodes
  <1>4. /\ Flink' = [Flink EXCEPT ![a] = first, ![ListHead] = a]
        /\ Blink' = [Blink EXCEPT ![a] = ListHead, ![first] = a]
        /\ Flink \in [Nodes -> Nodes \cup {Garbage}]
        /\ Blink \in [Nodes -> Nodes \cup {Garbage}]
        /\ allocated' = allocated
    BY <1>1 DEF InsertStore, IInv, TypeOK
  <1>5. /\ Flink'[a] = first /\ Flink'[ListHead] = a
        /\ \A n \in Ring \ {ListHead} : Flink'[n] = Flink[n]
        /\ Blink'[a] = ListHead /\ Blink'[first] = a
        /\ \A n \in Ring \ {first} : Blink'[n] = Blink[n]
    BY <1>1, <1>3, <1>4, NamesDistinct DEF Nodes
  <1>6. \A n \in Ring : n # ListHead => Flink[n] # first
    BY <1>1, <1>2
  <1>7. \A n \in Ring : n # first => Blink[n] # ListHead
    BY <1>1, <1>2
  <1>8. \A n \in Ring' : /\ Flink'[n] \in Ring' /\ Blink'[Flink'[n]] = n
                         /\ Blink'[n] \in Ring' /\ Flink'[Blink'[n]] = n
    BY <1>1, <1>2, <1>3, <1>5, <1>6, <1>7
  <1>9. ASSUME NEW S \in SUBSET Ring', ListHead \in S, \A n \in S : Flink'[n] \in S
        PROVE  S = Ring'
    <2>1. a \in S /\ first \in S
      BY <1>5, <1>9
    <2>2. S \ {a} \in SUBSET Ring /\ ListHead \in S \ {a}
      BY <1>1, <1>3, <1>9
    <2>3. \A n \in S \ {a} : Flink[n] \in S \ {a}
      BY <1>1, <1>2, <1>5, <1>9, <2>1, <2>2
    <2>4. S \ {a} = Ring
      BY <1>2, <2>2, <2>3
    <2> QED
      BY <1>3, <2>1, <2>4
  <1>10. Linked' \subseteq allocated'
    BY <1>1, <1>2, <1>3, <1>4
  <1> QED
    BY <1>8, <1>9, <1>10 DEF ListIntact

\* RemoveEntryList by the owner of the lock.
LEMMA ListRemove ==
  ASSUME IInv, NEW a \in Adapters, RemoveStore(a)
  PROVE  ListIntact'
  <1> DEFINE after == Flink[a]
             before == Blink[a]
  <1>1. /\ lockReady /\ apc[a] = "Removing" /\ next[a] = after /\ prev[a] = before
        /\ a \in Linked /\ ListHead \in Ring /\ a \in Ring /\ a # ListHead
    BY NamesDistinct DEF IInv, RemoveStore, AdapterGoes, DriverPhases, RegisteredPoint,
       ListLockHeld, Linked, Ring
  <1>2. /\ \A n \in Ring : /\ Flink[n] \in Ring /\ Blink[Flink[n]] = n
                           /\ Blink[n] \in Ring /\ Flink[Blink[n]] = n
        /\ \A S \in SUBSET Ring :
              (ListHead \in S /\ \A n \in S : Flink[n] \in S) => S = Ring
        /\ Linked \subseteq allocated
    BY <1>1 DEF IInv, ListIntact
  <1>3. Ring \subseteq Nodes /\ Ring' = Ring \ {a} /\ Linked' = Linked \ {a}
    BY <1>1, NamesDistinct DEF IInv, TypeOK, RemoveStore, AdapterGoes, Linked, Ring, Nodes
  <1>4. /\ Flink' = [Flink EXCEPT ![before] = after]
        /\ Blink' = [Blink EXCEPT ![after] = before]
        /\ Flink \in [Nodes -> Nodes \cup {Garbage}]
        /\ Blink \in [Nodes -> Nodes \cup {Garbage}]
        /\ allocated' = allocated
    BY <1>1 DEF RemoveStore, IInv, TypeOK
  <1>5. Flink[a] # a
    <2> SUFFICES ASSUME Flink[a] = a PROVE FALSE
      OBVIOUS
    <2>1. \A n \in Ring \ {a} : Flink[n] \in Ring \ {a}
      BY <1>1, <1>2
    <2>2. Ring \ {a} = Ring
      BY <1>1, <1>2, <2>1
    <2> QED
      BY <1>1, <2>2
  <1>6. /\ after \in Ring \ {a} /\ before \in Ring \ {a}
        /\ Flink[before] = a /\ Blink[after] = a
    BY <1>1, <1>2, <1>5
  <1>7. /\ Flink'[before] = after /\ Blink'[after] = before
        /\ \A n \in Ring \ {before} : Flink'[n] = Flink[n]
        /\ \A n \in Ring \ {after} : Blink'[n] = Blink[n]
    BY <1>3, <1>4, <1>6
  <1>8. /\ \A n \in Ring : n # before => Flink[n] # a
        /\ \A n \in Ring : n # after => Blink[n] # a
        /\ \A n \in Ring : n # a => Flink[n] # after
        /\ \A n \in Ring : n # a => Blink[n] # before
    BY <1>1, <1>2
  <1>9. \A n \in Ring' : /\ Flink'[n] \in Ring' /\ Blink'[Flink'[n]] = n
                         /\ Blink'[n] \in Ring' /\ Flink'[Blink'[n]] = n
    BY <1>2, <1>3, <1>6, <1>7, <1>8
  <1>10. ASSUME NEW S \in SUBSET Ring', ListHead \in S, \A n \in S : Flink'[n] \in S
         PROVE  S = Ring'
    <2> DEFINE T == IF before \in S THEN S \cup {a} ELSE S
    <2>1. T \in SUBSET Ring /\ ListHead \in T
      BY <1>1, <1>3, <1>10
    <2>2. \A n \in T : Flink[n] \in T
      BY <1>1, <1>3, <1>6, <1>7, <1>10
    <2>3. T = Ring
      BY <1>2, <2>1, <2>2
    <2> QED
      BY <1>3, <1>10, <2>3
  <1>11. Linked' \subseteq allocated'
    BY <1>2, <1>3, <1>4
  <1> QED
    BY <1>9, <1>10, <1>11 DEF ListIntact

LEMMA ListIntactStep ==
  ASSUME IInv, [Next]_vars
  PROVE  ListIntact'
  <1>1. CASE LoadDriver \/ UnloadCall \/ UnloadStep \/ (EntryStep /\ ~EntryInit)
    <2>1. UNCHANGED <<list, adapter>> /\ (lockReady' => lockReady)
      BY <1>1 DEF LoadDriver, UnloadCall, UnloadStep, UnloadDevice, UnloadDeregister,
         UnloadAcquire, UnloadAssert, FreeLock, EntryStep, EntryRegister, EntryDevice,
         EntryRollback, Deregister, DeregisterReturns, lock
    <2> QED
      BY <2>1 DEF IInv, ListIntact, Linked, Ring, list, adapter
  <1>2. CASE EntryInit
    BY <1>2, ListInitialised
  <1>3. ASSUME NEW a \in Adapters, AttachCall(a) \/ AttachAllocate(a)
                                   \/ AttachSetAttributes(a)
        PROVE  ListIntact'
    <2>1. Linked' = Linked /\ a \notin Linked /\ (lockReady' => lockReady)
      BY <1>3 DEF AttachCall, AttachAllocate, AttachSetAttributes, AdapterGoes, Linked,
         lock, IInv, TypeOK
    <2>2. Linked \subseteq allocated'
      BY <1>3, <2>1 DEF AttachCall, AttachAllocate, AttachSetAttributes, IInv,
         ContextsOwned, Linked
    <2>3. CASE UNCHANGED list
      BY <2>1, <2>2, <2>3, ListKept DEF IInv
    <2>4. CASE /\ Flink' = [Flink EXCEPT ![a] = Garbage]
               /\ Blink' = [Blink EXCEPT ![a] = Garbage]
      <3>1. Ring' = Ring /\ a \notin Ring /\ Ring \subseteq Nodes
        BY <2>1, NamesDistinct DEF Ring, Linked, Nodes
      <3>2. \A n \in Ring : Flink'[n] = Flink[n] /\ Blink'[n] = Blink[n]
        BY <2>4, <3>1 DEF IInv, TypeOK
      <3> QED
        BY <2>1, <2>2, <3>1, <3>2 DEF IInv, ListIntact
    <2> QED
      BY <1>3, <2>3, <2>4 DEF AttachCall, AttachAllocate, AttachSetAttributes, list
  <1>4. ASSUME NEW a \in Adapters, InsertAcquire(a) \/ DetachCall(a) \/ RemoveAcquire(a)
                                   \/ DetachFree(a)
        PROVE  ListIntact'
    <2>1. /\ Linked' = Linked /\ UNCHANGED list /\ (lockReady' => lockReady)
          /\ allocated' = allocated \/ (allocated' = allocated \ {a} /\ a \notin Linked)
      BY <1>4 DEF InsertAcquire, DetachCall, RemoveAcquire, DetachFree, AdapterGoes,
         Linked, lock, IInv, TypeOK
    <2>2. Linked \subseteq allocated'
      BY <2>1 DEF IInv, ContextsOwned, Linked
    <2> QED
      BY <2>1, <2>2, ListKept DEF IInv
  <1>5. ASSUME NEW a \in Adapters, InsertStore(a) \/ RemoveStore(a)
        PROVE  ListIntact'
    BY <1>5, ListInsert, ListRemove
  <1>6. CASE UNCHANGED vars
    BY <1>6 DEF vars, lock, list, adapter, IInv, ListIntact, Linked, Ring
  <1> QED
    BY <1>1, <1>2, <1>3, <1>4, <1>5, <1>6 DEF Next, EntryStep, AttachStep, DetachStep
-----------------------------------------------------------------------------
(* The other parts of the invariant.                                       *)

\* The steps of the loader's thread and of the thread of adapter a.
LoaderStep == LoadDriver \/ EntryStep \/ UnloadCall \/ UnloadStep

AdapterStep(a) ==
    \/ AttachCall(a) \/ AttachStep(a) \/ InsertAcquire(a)
    \/ DetachCall(a) \/ DetachStep(a) \/ RemoveAcquire(a)

\* The loader leaves the adapters alone, and an adapter the loader.
LEMMA Frames ==
  /\ LoaderStep => UNCHANGED adapter
  /\ \A a \in Adapters : AdapterStep(a) => UNCHANGED <<lockReady, driver>>
  <1>1. LoaderStep => UNCHANGED adapter
    BY DEF LoaderStep, LoadDriver, EntryStep, EntryInit, EntryRegister, EntryDevice,
       EntryRollback, Deregister, DeregisterReturns, FreeLock, UnloadCall,
       UnloadStep, UnloadDevice, UnloadDeregister, UnloadAcquire, UnloadAssert
  <1>2. \A a \in Adapters : AdapterStep(a) => UNCHANGED <<lockReady, driver>>
    BY DEF AdapterStep, AttachCall, AttachStep, AttachAllocate, AttachSetAttributes,
       InsertAcquire, InsertStore, DetachCall, DetachStep, RemoveAcquire,
       RemoveStore, DetachFree, lock
  <1> QED
    BY <1>1, <1>2

LEMMA DriverPhasesStep ==
  ASSUME IInv, [Next]_vars
  PROVE  DriverPhases'
  <1> USE DEF IInv, DriverPhases, RegisteredPoint
  <1>1. CASE LoaderStep
    <2>1. UNCHANGED apc
      BY <1>1, Frames DEF adapter
    <2> QED
      BY <1>1, <2>1 DEF LoaderStep, LoadDriver, EntryStep, EntryInit, EntryRegister,
         EntryDevice, EntryRollback, Deregister, DeregisterReturns, FreeLock,
         UnloadCall, UnloadStep, UnloadDevice, UnloadDeregister, UnloadAcquire,
         UnloadAssert, LoaderGoes, lock
  <1>2. ASSUME NEW a \in Adapters, AdapterStep(a)
        PROVE  DriverPhases'
    <2>1. UNCHANGED <<lockReady, loader, registered, device>>
      BY <1>2, Frames DEF driver
    <2>2. \A b \in Adapters : apc'[b] # "Unbound" => apc[b] # "Unbound" \/ registered
      BY <1>2 DEF AdapterStep, AttachCall, AttachStep, AttachAllocate,
         AttachSetAttributes, InsertAcquire, InsertStore, DetachCall, DetachStep,
         RemoveAcquire, RemoveStore, DetachFree, AdapterGoes, TypeOK
    <2> QED
      BY <2>1, <2>2
  <1>3. CASE UNCHANGED vars
    BY <1>3 DEF vars, lock, adapter, driver
  <1> QED
    BY <1>1, <1>2, <1>3 DEF Next, LoaderStep, AdapterStep

LEMMA ContextsOwnedStep ==
  ASSUME IInv, [Next]_vars
  PROVE  ContextsOwned'
  <1> USE DEF IInv, ContextsOwned
  <1>1. CASE LoaderStep \/ UNCHANGED vars
    BY <1>1, Frames DEF adapter, vars
  <1>2. ASSUME NEW a \in Adapters, AdapterStep(a)
        PROVE  ContextsOwned'
    BY <1>2 DEF AdapterStep, AttachCall, AttachStep, AttachAllocate,
       AttachSetAttributes, InsertAcquire, InsertStore, DetachCall, DetachStep,
       RemoveAcquire, RemoveStore, DetachFree, AdapterGoes, TypeOK
  <1> QED
    BY <1>1, <1>2 DEF Next, LoaderStep, AdapterStep

LEMMA ListLockHeldStep ==
  ASSUME IInv, [Next]_vars
  PROVE  ListLockHeld'
  <1> USE NamesDistinct DEF IInv, ListLockHeld
  <1>1. CASE EntryInit
    BY <1>1 DEF EntryInit, LoaderGoes, DriverPhases, RegisteredPoint, adapter
  <1>2. CASE LoaderStep /\ ~EntryInit
    BY <1>2 DEF LoaderStep, LoadDriver, EntryStep, EntryRegister, EntryDevice,
       EntryRollback, Deregister, DeregisterReturns, FreeLock, UnloadCall,
       UnloadStep, UnloadDevice, UnloadDeregister, UnloadAcquire, UnloadAssert,
       LoaderGoes, lock, list, adapter
  <1>3. ASSUME NEW a \in Adapters, AdapterStep(a)
        PROVE  ListLockHeld'
    <2> USE DEF AdapterGoes, TypeOK, lock, list, driver
    <2>1. CASE AttachCall(a) \/ AttachSetAttributes(a) \/ DetachCall(a) \/ DetachFree(a)
      BY <2>1 DEF AttachCall, AttachSetAttributes, DetachCall, DetachFree
    <2>2. CASE AttachAllocate(a)
      BY <2>2 DEF AttachAllocate, Nodes
    <2>3. CASE InsertAcquire(a) \/ RemoveAcquire(a)
      BY <2>3 DEF InsertAcquire, RemoveAcquire
    <2>4. CASE InsertStore(a) \/ RemoveStore(a)
      BY <2>4 DEF InsertStore, RemoveStore
    <2> QED
      BY <1>3, <2>1, <2>2, <2>3, <2>4 DEF AdapterStep, AttachStep, DetachStep
  <1>4. CASE UNCHANGED vars
    BY <1>4 DEF vars, lock, list, adapter, driver
  <1> QED
    BY <1>1, <1>2, <1>3, <1>4 DEF Next, LoaderStep, AdapterStep

\* A step of the loader that does not touch the links or an adapter.
LEMMA LoaderKeepsTypes ==
  ASSUME TypeOK, LoaderStep, ~EntryInit
  PROVE  TypeOK'
  <1>1. lockReady \in BOOLEAN /\ registered \in BOOLEAN /\ device \in BOOLEAN
    BY DEF TypeOK
  <1>2. /\ UNCHANGED <<Flink, Blink, allocated, apc, next, prev>>
        /\ lockOwner' \in {lockOwner, NoOwner, Loader}
        /\ lockReady' \in BOOLEAN /\ (lockReady' => lockReady)
        /\ registered' \in BOOLEAN
        /\ device' \in BOOLEAN
        /\ loader' \in LoaderPoint
    <2> USE <1>1 DEF LoaderGoes, LoaderPoint, lock, list, adapter
    <2>1. CASE LoadDriver \/ UnloadCall
      BY <2>1 DEF LoadDriver, UnloadCall
    <2>2. CASE EntryRegister \/ EntryDevice \/ UnloadDevice
      <3>1. UNCHANGED <<lock, list, adapter>> /\ loader' \in LoaderPoint
        BY <2>2 DEF EntryRegister, EntryDevice, UnloadDevice
      <3>2. registered' \in BOOLEAN
        BY <2>2 DEF EntryRegister, EntryDevice, UnloadDevice
      <3>3. device' \in BOOLEAN
        BY <2>2 DEF EntryRegister, EntryDevice, UnloadDevice
      <3> QED
        BY <3>1, <3>2, <3>3
    <2>3. CASE EntryRollback \/ UnloadDeregister
      <3>1. UNCHANGED <<lock, list, adapter, device>> /\ loader' \in LoaderPoint
        BY <2>3 DEF EntryRollback, UnloadDeregister, Deregister, DeregisterReturns
      <3>2. registered' \in BOOLEAN
        BY <2>3 DEF EntryRollback, UnloadDeregister, Deregister, DeregisterReturns
      <3> QED
        BY <3>1, <3>2
    <2>4. CASE UnloadAcquire \/ UnloadAssert
      BY <2>4 DEF UnloadAcquire, UnloadAssert
    <2>5. CASE FreeLock("EntryFreeLock") \/ FreeLock("UnloadFreeLock")
      BY <2>5 DEF FreeLock
    <2> QED
      BY <2>1, <2>2, <2>3, <2>4, <2>5 DEF LoaderStep, EntryStep, UnloadStep
  <1> QED
    BY <1>2 DEF TypeOK

LEMMA TypeOKStep ==
  ASSUME IInv, [Next]_vars
  PROVE  TypeOK'
  <1> USE DEF IInv, TypeOK, Nodes
  <1>1. CASE LoaderStep
    <2>1. CASE EntryInit
      BY <2>1, NamesDistinct DEF EntryInit, LoaderGoes, LoaderPoint, adapter
    <2>2. CASE ~EntryInit
      BY <1>1, <2>2, LoaderKeepsTypes
    <2> QED
      BY <2>1, <2>2
  <1>2. ASSUME NEW a \in Adapters, AdapterStep(a)
        PROVE  TypeOK'
    <2> USE NamesDistinct DEF AdapterGoes, AdapterPoint, lock, list, driver
    <2>1. CASE AttachCall(a) \/ AttachSetAttributes(a) \/ DetachCall(a) \/ DetachFree(a)
      BY <2>1 DEF AttachCall, AttachSetAttributes, DetachCall, DetachFree
    <2>2. CASE AttachAllocate(a)
      BY <2>2 DEF AttachAllocate
    <2>3. CASE InsertAcquire(a) \/ RemoveAcquire(a)
      BY <2>3 DEF InsertAcquire, RemoveAcquire
    <2>4. CASE InsertStore(a)
      BY <2>4 DEF InsertStore
    <2>5. CASE RemoveStore(a)
      <3>1. lockReady /\ a \in Ring
        BY <2>5 DEF RemoveStore, DriverPhases, RegisteredPoint, Ring, Linked
      <3>2. /\ next[a] \in Ring /\ prev[a] \in Ring
            /\ Garbage \notin Ring
        BY <2>5, <3>1 DEF RemoveStore, ListLockHeld, ListIntact, Ring, Linked
      <3> QED
        BY <2>5, <3>2 DEF RemoveStore
    <2> QED
      BY <1>2, <2>1, <2>2, <2>3, <2>4, <2>5 DEF AdapterStep, AttachStep, DetachStep
  <1>3. CASE UNCHANGED vars
    BY <1>3 DEF vars, lock, list, adapter, driver
  <1> QED
    BY <1>1, <1>2, <1>3 DEF Next, LoaderStep, AdapterStep

-----------------------------------------------------------------------------
(* Theorems.                                                               *)

LEMMA Invariance == Spec => []IInv
  <1>1. IInv /\ [Next]_vars => IInv'
    BY ListIntactStep, DriverPhasesStep, ContextsOwnedStep, ListLockHeldStep,
       TypeOKStep DEF IInv
  <1> QED
    BY <1>1, InitIInv, PTL DEF Spec

\* Every variable keeps its type.
THEOREM TypesHold == Spec => []TypeOK
  BY Invariance, PTL DEF IInv

\* A filter context is allocated exactly while its module is attached or on its
\* way in or out: no failure of FilterAttach leaks one and nothing frees one twice.
THEOREM ContextsAlwaysOwned == Spec => []ContextsOwned
  BY Invariance, PTL DEF IInv

\* FilterModuleList is one ring of exactly the attached modules, in every
\* interleaving of attaches and detaches of any number of adapters.
THEOREM ListAlwaysIntact == Spec => []ListIntact
  BY Invariance, PTL DEF IInv

\* FilterListLock is used only between its initialisation and its release.
THEOREM LockNeverUsedDead == Spec => []LockUsedWhileReady
  <1>1. IInv => LockUsedWhileReady
    BY DEF IInv, TypeOK, ListLockHeld, DriverPhases, RegisteredPoint,
       LockUsedWhileReady
  <1> QED
    BY <1>1, Invariance, PTL

\* DriverUnload's ASSERT(IsListEmpty(&FilterModuleList)) never fails, nor
\* would it on the failure path of DriverEntry.
THEOREM UnloadAssertHolds == Spec => []UnloadListEmpty
  <1>1. IInv => UnloadListEmpty
    <2> SUFFICES ASSUME IInv, loader \in {"UnloadAssert", "UnloadFreeLock", "EntryFreeLock"}
                 PROVE  Flink[ListHead] = ListHead /\ Blink[ListHead] = ListHead
      BY DEF UnloadListEmpty
    <2>1. lockReady /\ Ring = {ListHead}
      BY DEF IInv, DriverPhases, RegisteredPoint, Ring, Linked
    <2> QED
      BY <2>1 DEF IInv, ListIntact
  <1> QED
    BY <1>1, Invariance, PTL

\* A driver that is not loaded has left nothing behind.
THEOREM NothingOutlivesTheDriver == Spec => []UnloadedCleanly
  <1>1. IInv => UnloadedCleanly
    BY DEF IInv, ContextsOwned, DriverPhases, RegisteredPoint, UnloadedCleanly
  <1> QED
    BY <1>1, Invariance, PTL
=============================================================================
