--------------------------- MODULE Drivers_proofs ----------------------------
(***************************************************************************)
(* Proofs about the drivers that applications open, for any number of      *)
(* applications, threads, priorities and devices.                          *)
(*                                                                         *)
(* First PriorityBooster: the references are counted by the requests that  *)
(* are between PsLookupThreadByThreadId and ObDereferenceObject; what has  *)
(* been checked of a priority carries over to the next read of it as long  *)
(* as the client has not written to it.  Then the machine with any of the  *)
(* drivers, whose inductive invariant is DriversInv: that of the driver    *)
(* that is installed, while the state of the others stays as it was.  What *)
(* is needed of FilterDevice is proved in a module of its own;             *)
(* ControlDevice and TestDevice are dealt with here.                       *)
(***************************************************************************)
EXTENDS Drivers, FiniteSetTheorems, TLAPS

-----------------------------------------------------------------------------
(* PriorityBooster.                                                        *)

\* The requests that hold a reference to thread t.
Holders(t) == {c \in Clients : thread[c] = t}

LEMMA HoldersFinite ==
  \A t : IsFiniteSet(Holders(t)) /\ Cardinality(Holders(t)) \in Nat
  BY ClientsFinite, FS_Subset, FS_CardinalityType DEF Holders

LEMMA InitIInv == Init => IInv
  <1> SUFFICES ASSUME Init PROVE IInv
    OBVIOUS
  <1>1. TypeOK
    BY DEF Init, TypeOK, LoaderPoint, RequestPoint, ValidPriorities
  <1>2. DevicePhases /\ RequestPhases
    BY DEF Init, DevicePhases, RequestPhases
  <1>3. ReferencesBalanced
    <2> SUFFICES ASSUME NEW t \in Threads
                 PROVE  references[t] = Cardinality({c \in Clients : thread[c] = t})
      BY DEF ReferencesBalanced
    <2>1. {c \in Clients : thread[c] = t} = {}
      BY NoThreadIsNone DEF Init
    <2> QED
      BY <2>1, FS_EmptySet DEF Init
  <1> QED
    BY <1>1, <1>2, <1>3 DEF IInv

-----------------------------------------------------------------------------
(* DriverEntry and DriverUnload.                                           *)

LEMMA LoaderKeepsIInv ==
  ASSUME IInv, Load \/ Stop \/ LoaderStep
  PROVE  IInv'
  <1> USE DEF IInv, TypeOK, DevicePhases, LoaderGoes, request, threads
  <1>1. /\ loader' \in LoaderPoint
        /\ device' \in BOOLEAN /\ link' \in BOOLEAN /\ stopping' \in BOOLEAN
        /\ DevicePhases' /\ UNCHANGED <<handle, request, buffer, threads>>
    <2> USE DEF LoaderPoint
    <2>1. CASE Load
      BY <2>1 DEF Load
    <2>2. CASE Stop
      BY <2>2 DEF Stop
    <2>3. CASE CreateDevice
      <3>1. CASE loader' = "CreateLink"
        BY <2>3, <3>1 DEF CreateDevice
      <3>2. CASE loader' = "Failed"
        BY <2>3, <3>2 DEF CreateDevice
      <3> QED
        BY <2>3, <3>1, <3>2 DEF CreateDevice
    <2>4. CASE CreateLink
      <3>1. CASE loader' = "Loaded"
        BY <2>4, <3>1 DEF CreateLink
      <3>2. CASE loader' = "Failed"
        BY <2>4, <3>2 DEF CreateLink
      <3> QED
        BY <2>4, <3>1, <3>2 DEF CreateLink
    <2>5. CASE Unload
      BY <2>5 DEF Unload
    <2>6. CASE DeleteLink
      BY <2>6 DEF DeleteLink
    <2>7. CASE DeleteDevice
      BY <2>7 DEF DeleteDevice
    <2> QED
      BY <2>1, <2>2, <2>3, <2>4, <2>5, <2>6, <2>7 DEF LoaderStep
  <1>2. ASSUME NEW c \in Clients, handle[c] = "Open" PROVE loader' = "Loaded"
    <2>1. loader = "Loaded"
      BY <1>2 DEF RequestPhases
    <2> QED
      BY <1>2, <2>1
      DEF Load, Stop, LoaderStep, CreateDevice, CreateLink, Unload, DeleteLink, DeleteDevice
  <1>3. RequestPhases'
    BY <1>1, <1>2 DEF RequestPhases
  <1>4. ReferencesBalanced'
    BY <1>1 DEF ReferencesBalanced
  <1> QED
    BY <1>1, <1>3, <1>4

-----------------------------------------------------------------------------
(* The programs and the threads.                                           *)

\* What the references depend on.
LEMMA BalanceKept ==
  ASSUME ReferencesBalanced, UNCHANGED <<thread, references>>
  PROVE  ReferencesBalanced'
  BY DEF ReferencesBalanced

LEMMA ClientKeepsIInv ==
  ASSUME IInv, NEW c \in Clients,
         OpenDevice(c) \/ DeviceControl(c) \/ Exit(c) \/ WriteBuffer(c)
  PROVE  IInv'
  <1> USE DEF IInv, TypeOK
  <1>1. UNCHANGED <<driver, thread, threads>>
    BY DEF OpenDevice, DeviceControl, Exit, WriteBuffer, request
  <1>2. DevicePhases' /\ ReferencesBalanced'
    BY <1>1, BalanceKept DEF DevicePhases, driver, threads
  <1>3. TypeOK' /\ RequestPhases'
    <2> USE DEF RequestPhases, driver, request, threads, RequestPoint
    <2>1. CASE OpenDevice(c)
      BY <1>1, <2>1 DEF OpenDevice
    <2>2. CASE DeviceControl(c)
      BY <1>1, <2>2 DEF DeviceControl
    <2>3. CASE Exit(c)
      BY <1>1, <2>3 DEF Exit
    <2>4. CASE WriteBuffer(c)
      BY <1>1, <2>4 DEF WriteBuffer
    <2> QED
      BY <2>1, <2>2, <2>3, <2>4
  <1> QED
    BY <1>2, <1>3

LEMMA ThreadKeepsIInv ==
  ASSUME IInv, NEW t \in Threads, ThreadExits(t) \/ ThreadStarts(t)
  PROVE  IInv'
  <1> USE DEF IInv, TypeOK, driver, request
  <1>1. UNCHANGED <<driver, handle, request, buffer, references>>
    BY DEF ThreadExits, ThreadStarts
  <1>2. DevicePhases' /\ RequestPhases' /\ ReferencesBalanced'
    BY <1>1, BalanceKept DEF DevicePhases, RequestPhases
  <1>3. TypeOK'
    BY <1>1 DEF ThreadExits, ThreadStarts, ValidPriorities
  <1> QED
    BY <1>2, <1>3

-----------------------------------------------------------------------------
(* The request.                                                            *)

\* A request that finds its thread is one more holder of it ...
LEMMA LookupBalances ==
  ASSUME IInv, NEW c \in Clients, NEW t \in Threads, thread[c] = NoThread,
         thread' = [thread EXCEPT ![c] = t],
         references' = [references EXCEPT ![t] = @ + 1]
  PROVE  ReferencesBalanced' /\ references' \in [Threads -> Nat]
  <1> USE DEF IInv, TypeOK
  <1>1. \A u \in Threads : references[u] = Cardinality(Holders(u))
    BY DEF ReferencesBalanced, Holders
  <1>2. Holders(t)' = Holders(t) \cup {c} /\ c \notin Holders(t)
    BY NoThreadIsNone DEF Holders
  <1>3. \A u \in Threads \ {t} : Holders(u)' = Holders(u)
    BY NoThreadIsNone DEF Holders
  <1>4. Cardinality(Holders(t) \cup {c}) = Cardinality(Holders(t)) + 1
    BY <1>2, HoldersFinite, FS_AddElement
  <1>5. \A u \in Threads : references'[u] = Cardinality(Holders(u)')
    BY <1>1, <1>2, <1>3, <1>4
  <1>6. ReferencesBalanced'
    BY <1>5 DEF ReferencesBalanced, Holders
  <1> QED
    BY <1>6

\* ... and when it has given the reference back, one less.
LEMMA DereferenceBalances ==
  ASSUME IInv, NEW c \in Clients, NEW t \in Threads, thread[c] = t,
         thread' = [thread EXCEPT ![c] = NoThread],
         references' = [references EXCEPT ![t] = @ - 1]
  PROVE  ReferencesBalanced' /\ references' \in [Threads -> Nat]
  <1> USE DEF IInv, TypeOK
  <1>1. \A u \in Threads : references[u] = Cardinality(Holders(u))
    BY DEF ReferencesBalanced, Holders
  <1>2. Holders(t)' = Holders(t) \ {c} /\ c \in Holders(t)
    BY NoThreadIsNone DEF Holders
  <1>3. \A u \in Threads \ {t} : Holders(u)' = Holders(u)
    BY NoThreadIsNone DEF Holders
  <1>4. Cardinality(Holders(t) \ {c}) = Cardinality(Holders(t)) - 1
    BY <1>2, HoldersFinite, FS_RemoveElement
  <1>5. Cardinality(Holders(t) \ {c}) \in Nat
    BY <1>2, HoldersFinite, FS_RemoveElement, FS_CardinalityType
  <1>6. \A u \in Threads : references'[u] = Cardinality(Holders(u)')
    BY <1>1, <1>2, <1>3, <1>4
  <1>7. ReferencesBalanced'
    BY <1>6 DEF ReferencesBalanced, Holders
  <1>8. references[t] - 1 \in Nat
    BY <1>1, <1>4, <1>5
  <1> QED
    BY <1>7, <1>8

LEMMA RequestKeepsIInv ==
  ASSUME IInv, NEW c \in Clients, RequestStep(c)
  PROVE  IInv'
  <1> USE DEF IInv, TypeOK
  <1>1. UNCHANGED <<driver, handle, rewritten, buffer, running>>
    BY DEF RequestStep, Switch, CheckLow, CheckHigh, Lookup, SetPriority, Dereference,
       Complete, threads
  <1>2. DevicePhases'
    BY <1>1 DEF DevicePhases, driver
  <1>3. \A d \in Clients : buffer[d].ThreadId \in Threads /\ buffer[d].Priority \in Int
    BY PrioritiesAreIntegers DEF ThreadData
  <1>4. CASE Switch(c) \/ CheckLow(c) \/ CheckHigh(c) \/ Complete(c)
    <2>1. UNCHANGED <<thread, threads>>
      BY <1>4 DEF Switch, CheckLow, CheckHigh, Complete
    <2>2. ReferencesBalanced'
      BY <2>1, BalanceKept DEF threads
    <2>3. TypeOK'
      BY <1>1, <1>4, <2>1
      DEF Switch, CheckLow, CheckHigh, Complete, Goes, RequestPoint, driver, threads
    <2>4. CASE Switch(c)
      BY <1>1, <2>1, <2>2, <2>3, <2>4, <1>2 DEF Switch, Goes, RequestPhases, driver
    <2>5. CASE CheckLow(c)
      BY <1>1, <1>3, <2>1, <2>2, <2>3, <2>5, <1>2 DEF CheckLow, Goes, RequestPhases, driver
    <2>6. CASE CheckHigh(c)
      BY <1>1, <1>3, <2>1, <2>2, <2>3, <2>6, <1>2 DEF CheckHigh, Goes, RequestPhases, driver
    <2>7. CASE Complete(c)
      BY <1>1, <2>1, <2>2, <2>3, <2>7, <1>2 DEF Complete, Goes, RequestPhases, driver
    <2> QED
      BY <1>4, <2>4, <2>5, <2>6, <2>7
  <1>5. CASE Lookup(c)
    <2> DEFINE t == buffer[c].ThreadId
    <2>1. CASE t \in running /\ at' = [at EXCEPT ![c] = "Set"]
      <3>1. /\ at[c] = "Lookup" /\ thread[c] = NoThread
            /\ thread' = [thread EXCEPT ![c] = t]
            /\ references' = [references EXCEPT ![t] = @ + 1]
            /\ UNCHANGED priority
        BY <1>5, <2>1 DEF Lookup, Goes, RequestPhases
      <3>2. ReferencesBalanced' /\ references' \in [Threads -> Nat]
        BY <3>1, <1>3, LookupBalances
      <3>3. TypeOK'
        BY <1>1, <1>3, <2>1, <3>1, <3>2 DEF RequestPoint, driver
      <3>4. RequestPhases'
        BY <1>1, <1>3, <2>1, <3>1, NoThreadIsNone DEF RequestPhases, driver
      <3> QED
        BY <1>2, <3>2, <3>3, <3>4
    <2>2. CASE t \notin running
      <3>1. /\ at[c] = "Lookup" /\ at' = [at EXCEPT ![c] = "Complete"]
            /\ UNCHANGED <<thread, references, priority>>
        BY <1>5, <2>2 DEF Lookup, Goes
      <3>2. ReferencesBalanced'
        BY <3>1, BalanceKept
      <3>3. TypeOK'
        BY <1>1, <3>1 DEF RequestPoint, driver
      <3>4. RequestPhases'
        BY <1>1, <3>1 DEF RequestPhases, driver
      <3> QED
        BY <1>2, <3>2, <3>3, <3>4
    <2> QED
      BY <1>5, <2>1, <2>2 DEF Lookup, Goes
  <1>6. CASE SetPriority(c)
    <2>1. /\ at[c] = "Set" /\ at' = [at EXCEPT ![c] = "Dereference"]
          /\ UNCHANGED <<thread, references>>
          /\ priority' = [priority EXCEPT ![thread[c]] = buffer[c].Priority]
      BY <1>6 DEF SetPriority, Goes
    <2>2. ReferencesBalanced'
      BY <2>1, BalanceKept
    <2>3. priority' \in [Threads -> Priorities]
      BY <2>1 DEF ThreadData
    <2>4. TypeOK'
      BY <1>1, <2>1, <2>3 DEF RequestPoint, driver
    <2>5. RequestPhases'
      BY <1>1, <2>1 DEF RequestPhases, driver
    <2> QED
      BY <1>2, <2>2, <2>4, <2>5
  <1>7. CASE Dereference(c)
    <2>1. /\ at[c] = "Dereference" /\ at' = [at EXCEPT ![c] = "Complete"]
          /\ thread' = [thread EXCEPT ![c] = NoThread]
          /\ references' = [references EXCEPT ![thread[c]] = @ - 1]
          /\ thread[c] \in Threads /\ UNCHANGED priority
      BY <1>7 DEF Dereference, Goes, RequestPhases
    <2>2. ReferencesBalanced' /\ references' \in [Threads -> Nat]
      BY <2>1, DereferenceBalances
    <2>3. TypeOK'
      BY <1>1, <2>1, <2>2 DEF RequestPoint, driver
    <2>4. RequestPhases'
      BY <1>1, <2>1 DEF RequestPhases, driver
    <2> QED
      BY <1>2, <2>2, <2>3, <2>4
  <1> QED
    BY <1>4, <1>5, <1>6, <1>7 DEF RequestStep

LEMMA NextIInv == IInv /\ [Next]_vars => IInv'
  <1> SUFFICES ASSUME IInv, [Next]_vars PROVE IInv'
    OBVIOUS
  <1>1. CASE UNCHANGED vars
    BY <1>1, BalanceKept
    DEF vars, driver, request, threads, IInv, TypeOK, DevicePhases, RequestPhases
  <1>2. CASE Next
    BY <1>2, LoaderKeepsIInv, ClientKeepsIInv, ThreadKeepsIInv, RequestKeepsIInv DEF Next
  <1> QED
    BY <1>1, <1>2

\* The driver, its requests and its references, at every moment.
THEOREM Invariance == Spec => []IInv
  BY InitIInv, NextIInv, PTL DEF Spec

-----------------------------------------------------------------------------
(* The results.                                                            *)

\* Every variable has its type; above all, no reference count is negative.
THEOREM TypesHold == Spec => []TypeOK
  BY Invariance, PTL DEF IInv

\* However the requests of any number of programs overlap, the driver gives
\* back each reference to a thread object exactly once.
THEOREM Balanced == Spec => []ReferencesBalanced
  BY Invariance, PTL DEF IInv

\* A request that holds a thread is one of those its references are counted by.
LEMMA HolderReferenced == IInv => SetsExistingThread
  <1> SUFFICES ASSUME IInv, NEW c \in Clients, at[c] \in {"Set", "Dereference"}
               PROVE  thread[c] \in Threads /\ references[thread[c]] > 0
    BY DEF SetsExistingThread
  <1>1. thread[c] \in Threads
    BY DEF IInv, TypeOK, RequestPhases
  <1>2. c \in Holders(thread[c])
    BY DEF Holders
  <1>3. Cardinality(Holders(thread[c])) # 0
    BY <1>2, HoldersFinite, FS_EmptySet
  <1>4. references[thread[c]] = Cardinality(Holders(thread[c]))
    BY <1>1 DEF IInv, ReferencesBalanced, Holders
  <1> QED
    BY <1>1, <1>3, <1>4, HoldersFinite

\* The thread object is there when KeSetPriorityThread is called.
THEOREM ThreadExists == Spec => []SetsExistingThread
  BY HolderReferenced, Invariance, PTL

\* Both: a thread object has a reference for each request that is at it, and no
\* more.
THEOREM ThreadReferencesExact == Spec => []ThreadsReferenced
  BY Balanced, ThreadExists, PTL DEF ThreadsReferenced

\* The symbolic link leads to the device.
THEOREM LinkLeads == Spec => []LinkLeadsToDevice
  <1>1. IInv => LinkLeadsToDevice
    BY DEF IInv, DevicePhases, LinkLeadsToDevice
  <1> QED
    BY <1>1, Invariance, PTL

\* An unloaded driver has left nothing.
THEOREM NothingLeft == Spec => []UnloadLeavesNothing
  <1>1. IInv => UnloadLeavesNothing
    BY DEF IInv, DevicePhases, RequestPhases, UnloadLeavesNothing
  <1> QED
    BY <1>1, Invariance, PTL

\* What has been checked of a request that the client leaves alone is still true
\* when its priority is set, and no other step is one of KeSetPriorityThread.
LEMMA SetsWhatWasChecked ==
  ASSUME IInv, [Next]_vars, NEW c \in Clients,
         at[c] = "Set", at'[c] = "Dereference", ~rewritten[c]
  PROVE  /\ priority'[buffer[c].ThreadId] = buffer[c].Priority
         /\ buffer[c].Priority \in 1..31
  <1>1. buffer[c].Priority \in 1..31 /\ thread[c] = buffer[c].ThreadId
    BY DEF IInv, RequestPhases
  <1>2. SetPriority(c)
    <2>1. at # at'
      OBVIOUS
    <2>2. ASSUME NEW d \in Clients, DeviceControl(d) \/ Exit(d) PROVE FALSE
      BY <2>2 DEF DeviceControl, Exit, IInv, TypeOK
    <2>3. ASSUME NEW d \in Clients, RequestStep(d) PROVE SetPriority(c)
      BY <2>3
      DEF RequestStep, Switch, CheckLow, CheckHigh, Lookup, SetPriority, Dereference,
          Complete, Goes, IInv, TypeOK
    <2>4. ASSUME Load \/ Stop \/ LoaderStep PROVE FALSE
      BY <2>1, <2>4
      DEF Load, Stop, LoaderStep, CreateDevice, CreateLink, Unload, DeleteLink,
          DeleteDevice, request
    <2>5. ASSUME NEW t \in Threads, ThreadExits(t) \/ ThreadStarts(t) PROVE FALSE
      BY <2>1, <2>5 DEF ThreadExits, ThreadStarts, request
    <2>6. ASSUME NEW d \in Clients, OpenDevice(d) \/ WriteBuffer(d) PROVE FALSE
      BY <2>1, <2>6 DEF OpenDevice, WriteBuffer, request
    <2> QED
      BY <2>1, <2>2, <2>3, <2>4, <2>5, <2>6 DEF Next, vars, request
  <1>3. thread[c] \in Threads
    BY DEF IInv, TypeOK, RequestPhases
  <1> QED
    BY <1>1, <1>2, <1>3 DEF SetPriority, IInv, TypeOK

\* A client that does not write to its ThreadData during the request gets what
\* has been checked, whatever other clients write and whoever exits.
THEOREM SetsChecked == Spec => SetsCheckedPriority
  <1>1. IInv /\ [Next]_vars =>
           [\A c \in Clients : at[c] = "Set" /\ at'[c] = "Dereference" /\ ~rewritten[c] =>
               /\ priority'[buffer[c].ThreadId] = buffer[c].Priority
               /\ buffer[c].Priority \in 1..31]_vars
    BY SetsWhatWasChecked
  <1> QED
    BY <1>1, Invariance, PTL DEF Spec, SetsCheckedPriority

-----------------------------------------------------------------------------
(* The filter drivers.                                                     *)

\* What is proved of FilterDevice, for each of the two drivers.
FilterProofs == INSTANCE FilterDevice_proofs WITH CompletesIoctl <- FALSE
Filter2Proofs == INSTANCE FilterDevice_proofs WITH CompletesIoctl <- TRUE

LEMMA FilterIsProved ==
    /\ Filter!Init => FilterProofs!Init
    /\ Filter!Next => FilterProofs!Next
    /\ Filter!IInv <=> FilterProofs!IInv
  <1>1. Filter!Init => FilterProofs!Init
    BY DEF Filter!Init, FilterProofs!Init, Filter!NoRequest, FilterProofs!NoRequest
  <1>2. Filter!Next => FilterProofs!Next
    BY DEF
       Filter!Load, FilterProofs!Load, Filter!RegisterFilter,
       FilterProofs!RegisterFilter, Filter!RegisterDevice, FilterProofs!RegisterDevice,
       Filter!SetExtension, FilterProofs!SetExtension, Filter!Rollback,
       FilterProofs!Rollback, Filter!Stop, FilterProofs!Stop, Filter!Unload,
       FilterProofs!Unload, Filter!UnloadDevice, FilterProofs!UnloadDevice,
       Filter!UnloadFilter, FilterProofs!UnloadFilter, Filter!LoaderGoes,
       FilterProofs!LoaderGoes, Filter!Send, FilterProofs!Send, Filter!OpenDevice,
       FilterProofs!OpenDevice, Filter!DeviceControl, FilterProofs!DeviceControl,
       Filter!CloseHandle, FilterProofs!CloseHandle, Filter!LastReference,
       FilterProofs!LastReference, Filter!Complete, FilterProofs!Complete,
       Filter!Abandon, FilterProofs!Abandon, Filter!FilterDispatch,
       FilterProofs!FilterDispatch, Filter!CompletesRequest,
       FilterProofs!CompletesRequest, Filter!FilterDeviceIoControl,
       FilterProofs!FilterDeviceIoControl, Filter!LoaderStep, FilterProofs!LoaderStep,
       Filter!Dispatch, FilterProofs!Dispatch, Filter!Next, FilterProofs!Next,
       Filter!driver, FilterProofs!driver, Filter!requests, FilterProofs!requests,
       Filter!vars, FilterProofs!vars, Filter!Ioctls, FilterProofs!Ioctls,
       Filter!Requests, FilterProofs!Requests, Filter!NoRequest, FilterProofs!NoRequest
  <1>3. Filter!IInv <=> FilterProofs!IInv
    BY DEF
       Filter!IInv, FilterProofs!IInv, Filter!TypeOK, FilterProofs!TypeOK,
       Filter!DevicePhases, FilterProofs!DevicePhases, Filter!RequestPhases,
       FilterProofs!RequestPhases, Filter!OnlyIoctlsAreLost,
       FilterProofs!OnlyIoctlsAreLost, Filter!LoaderPoint, FilterProofs!LoaderPoint,
       Filter!Ioctls, FilterProofs!Ioctls, Filter!Requests, FilterProofs!Requests,
       Filter!NoRequest, FilterProofs!NoRequest
  <1> QED
    BY <1>1, <1>2, <1>3

LEMMA FilterKeeps ==
  ASSUME Filter!IInv, Filter!Next
  PROVE  Filter!IInv'
  <1>1. FilterProofs!IInv /\ FilterProofs!Next
    BY FilterIsProved
  <1>2. FilterProofs!IInv'
    BY <1>1, FilterProofs!NextIInv
  <1> QED
    BY <1>2, FilterIsProved, PTL

LEMMA Filter2IsProved ==
    /\ Filter2!Init => Filter2Proofs!Init
    /\ Filter2!Next => Filter2Proofs!Next
    /\ Filter2!IInv <=> Filter2Proofs!IInv
  <1>1. Filter2!Init => Filter2Proofs!Init
    BY DEF Filter2!Init, Filter2Proofs!Init, Filter2!NoRequest, Filter2Proofs!NoRequest
  <1>2. Filter2!Next => Filter2Proofs!Next
    BY DEF
       Filter2!Load, Filter2Proofs!Load, Filter2!RegisterFilter,
       Filter2Proofs!RegisterFilter, Filter2!RegisterDevice,
       Filter2Proofs!RegisterDevice, Filter2!SetExtension, Filter2Proofs!SetExtension,
       Filter2!Rollback, Filter2Proofs!Rollback, Filter2!Stop, Filter2Proofs!Stop,
       Filter2!Unload, Filter2Proofs!Unload, Filter2!UnloadDevice,
       Filter2Proofs!UnloadDevice, Filter2!UnloadFilter, Filter2Proofs!UnloadFilter,
       Filter2!LoaderGoes, Filter2Proofs!LoaderGoes, Filter2!Send, Filter2Proofs!Send,
       Filter2!OpenDevice, Filter2Proofs!OpenDevice, Filter2!DeviceControl,
       Filter2Proofs!DeviceControl, Filter2!CloseHandle, Filter2Proofs!CloseHandle,
       Filter2!LastReference, Filter2Proofs!LastReference, Filter2!Complete,
       Filter2Proofs!Complete, Filter2!Abandon, Filter2Proofs!Abandon,
       Filter2!FilterDispatch, Filter2Proofs!FilterDispatch, Filter2!CompletesRequest,
       Filter2Proofs!CompletesRequest, Filter2!FilterDeviceIoControl,
       Filter2Proofs!FilterDeviceIoControl, Filter2!LoaderStep,
       Filter2Proofs!LoaderStep, Filter2!Dispatch, Filter2Proofs!Dispatch,
       Filter2!Next, Filter2Proofs!Next, Filter2!driver, Filter2Proofs!driver,
       Filter2!requests, Filter2Proofs!requests, Filter2!vars, Filter2Proofs!vars,
       Filter2!Ioctls, Filter2Proofs!Ioctls, Filter2!Requests, Filter2Proofs!Requests,
       Filter2!NoRequest, Filter2Proofs!NoRequest
  <1>3. Filter2!IInv <=> Filter2Proofs!IInv
    BY DEF
       Filter2!IInv, Filter2Proofs!IInv, Filter2!TypeOK, Filter2Proofs!TypeOK,
       Filter2!DevicePhases, Filter2Proofs!DevicePhases, Filter2!RequestPhases,
       Filter2Proofs!RequestPhases, Filter2!OnlyIoctlsAreLost,
       Filter2Proofs!OnlyIoctlsAreLost, Filter2!LoaderPoint, Filter2Proofs!LoaderPoint,
       Filter2!Ioctls, Filter2Proofs!Ioctls, Filter2!Requests, Filter2Proofs!Requests,
       Filter2!NoRequest, Filter2Proofs!NoRequest
  <1> QED
    BY <1>1, <1>2, <1>3

LEMMA Filter2Keeps ==
  ASSUME Filter2!IInv, Filter2!Next
  PROVE  Filter2!IInv'
  <1>1. Filter2Proofs!IInv /\ Filter2Proofs!Next
    BY Filter2IsProved
  <1>2. Filter2Proofs!IInv'
    BY <1>1, Filter2Proofs!NextIInv
  <1> QED
    BY <1>2, Filter2IsProved, PTL

-----------------------------------------------------------------------------
(* EmptyKMDFDriver.                                                        *)

LEMMA EmptyInit == Empty!Init => Empty!IInv
  <1> SUFFICES ASSUME Empty!Init PROVE Empty!IInv
    OBVIOUS
  <1> USE DEF Empty!Init
  <1>1. Empty!TypeOK
    <2>1. inits \in 0..MaxInits
      BY MaxInitsIsNatural
    <2>2. queue \in Seq(Clients)
      OBVIOUS
    <2> QED
      BY <2>1, <2>2 DEF Empty!TypeOK, Empty!LoaderPoint, Empty!Objects
  <1>2. Empty!EntryPhases
    BY DEF Empty!EntryPhases, Empty!LoaderPoint
  <1>3. Empty!CallbacksHaveQueue /\ Empty!LinkedUnlessNoObject
    BY DEF Empty!CallbacksHaveQueue, Empty!LinkedUnlessNoObject
  <1> QED
    BY <1>1, <1>2, <1>3 DEF Empty!IInv

\* DriverEntry makes one object after the other, and none of them goes away
\* before the driver is unloaded.
LEMMA EmptyEntryKeeps ==
  ASSUME Empty!IInv, Empty!Load \/ Empty!DriverEntry \/ Empty!Stop
  PROVE  Empty!IInv'
  <1> USE DEF Empty!IInv, Empty!TypeOK, Empty!EntryPhases, Empty!LinkedUnlessNoObject,
              Empty!Goes, Empty!Creates, Empty!LoaderPoint, Empty!Objects
  <1>1. /\ UNCHANGED <<safeMode, handle, creating, queue, presented>>
        /\ objects \subseteq objects'
    BY DEF Empty!Load, Empty!DriverEntry, Empty!Stop, Empty!entry, Empty!requests,
           Empty!WdfDriverCreate, Empty!WdfControlDeviceInitAllocate,
           Empty!WdfDeviceInitAssignName, Empty!WdfDeviceCreate, Empty!WdfIoQueueCreate,
           Empty!WdfControlFinishInitializing, Empty!WdfDeviceWdmGetDeviceObject,
           Empty!WdfDeviceCreateSymbolicLink
  <1>2. Empty!CallbacksHaveQueue'
    BY <1>1 DEF Empty!CallbacksHaveQueue
  <1>3. /\ loader' \in Empty!LoaderPoint
        /\ inits' \in 0..MaxInits
        /\ objects' \subseteq Empty!Objects
        /\ object' \in BOOLEAN /\ finished' \in BOOLEAN /\ stopping' \in BOOLEAN
        /\ Empty!EntryPhases' /\ Empty!LinkedUnlessNoObject'
    <2>1. CASE Empty!Load
      BY <1>1, <2>1 DEF Empty!Load
    <2>2. CASE Empty!Stop
      BY <1>1, <2>2 DEF Empty!Stop, Empty!entry
    <2>3. CASE Empty!WdfDriverCreate
      BY <1>1, <2>3 DEF Empty!WdfDriverCreate
    <2>4. CASE Empty!WdfControlDeviceInitAllocate
      BY <1>1, <2>4, MaxInitsIsNatural DEF Empty!WdfControlDeviceInitAllocate
    <2>5. CASE Empty!WdfDeviceInitAssignName
      BY <1>1, <2>5 DEF Empty!WdfDeviceInitAssignName
    <2>6. CASE Empty!WdfDeviceCreate
      BY <1>1, <2>6, MaxInitsIsNatural DEF Empty!WdfDeviceCreate
    <2>7. CASE Empty!WdfIoQueueCreate
      BY <1>1, <2>7 DEF Empty!WdfIoQueueCreate
    <2>8. CASE Empty!WdfControlFinishInitializing
      BY <1>1, <2>8 DEF Empty!WdfControlFinishInitializing
    <2>9. CASE Empty!WdfDeviceWdmGetDeviceObject
      BY <1>1, <2>9 DEF Empty!WdfDeviceWdmGetDeviceObject
    <2>10. CASE Empty!WdfDeviceCreateSymbolicLink
      BY <1>1, <2>10 DEF Empty!WdfDeviceCreateSymbolicLink
    <2> QED
      BY <2>1, <2>2, <2>3, <2>4, <2>5, <2>6, <2>7, <2>8, <2>9, <2>10 DEF Empty!DriverEntry
  <1> QED
    BY <1>1, <1>2, <1>3

LEMMA EmptyUnloadKeeps ==
  ASSUME Empty!IInv, Empty!DriverUnload
  PROVE  Empty!IInv'
  BY DEF Empty!IInv, Empty!TypeOK, Empty!EntryPhases, Empty!CallbacksHaveQueue,
         Empty!LinkedUnlessNoObject, Empty!LoaderPoint, Empty!DriverUnload, Empty!requests

\* The applications and the callbacks: what is in the queue was sent through an
\* open handle, which is not closed before the request is completed.
LEMMA EmptyRequestsKeep ==
  ASSUME Empty!IInv,
         \/ \E c \in Clients : \/ Empty!OpenDevice(c) \/ Empty!CloseHandle(c)
                               \/ Empty!Send(c) \/ Empty!EvtWdfDeviceFileCreate(c)
         \/ Empty!Present \/ Empty!EvtIo
  PROVE  Empty!IInv'
  <1> USE DEF Empty!IInv, Empty!TypeOK
  <1>1. UNCHANGED <<loader, safeMode, inits, objects, object, finished, stopping>>
    BY DEF Empty!OpenDevice, Empty!CloseHandle, Empty!Send, Empty!EvtWdfDeviceFileCreate,
           Empty!Present, Empty!EvtIo, Empty!entry
  <1>2. Empty!LinkedUnlessNoObject'
    BY <1>1 DEF Empty!LinkedUnlessNoObject
  <1>3. /\ handle' \in [Clients -> {"None", "Open"}] /\ creating' \subseteq Clients
        /\ queue' \in Seq(Clients) /\ presented' \in BOOLEAN
        /\ (~finished => creating' = {} /\ \A c \in Clients : handle'[c] = "None")
        /\ Empty!CallbacksHaveQueue'
    <2> USE DEF Empty!EntryPhases, Empty!CallbacksHaveQueue
    <2>1. ASSUME NEW c \in Clients, Empty!OpenDevice(c) PROVE <1>3!:
      BY <1>1, <2>1 DEF Empty!OpenDevice
    <2>2. ASSUME NEW c \in Clients, Empty!CloseHandle(c) PROVE <1>3!:
      BY <1>1, <2>2 DEF Empty!CloseHandle
    <2>3. ASSUME NEW c \in Clients, Empty!Send(c) PROVE <1>3!:
      BY <1>1, <2>3 DEF Empty!Send
    <2>4. ASSUME NEW c \in Clients, Empty!EvtWdfDeviceFileCreate(c) PROVE <1>3!:
      BY <1>1, <2>4 DEF Empty!EvtWdfDeviceFileCreate
    <2>5. CASE Empty!Present
      BY <1>1, <2>5 DEF Empty!Present
    <2>6. CASE Empty!EvtIo
      <3>1. UNCHANGED <<handle, creating>> /\ presented' = FALSE /\ queue' = Tail(queue)
        BY <2>6 DEF Empty!EvtIo
      <3>2. queue # <<>>
        BY <2>6 DEF Empty!EvtIo
      <3>3. /\ Tail(queue) \in Seq(Clients)
            /\ \A i \in 1..Len(Tail(queue)) :
                  i + 1 \in 1..Len(queue) /\ Tail(queue)[i] = queue[i + 1]
        BY <3>2
      <3>4. \A i \in 1..Len(Tail(queue)) : handle[Tail(queue)[i]] = "Open"
        BY <3>2, <3>3
      <3> QED
        BY <1>1, <3>1, <3>3, <3>4
    <2> QED
      BY <2>1, <2>2, <2>3, <2>4, <2>5, <2>6
  <1>4. Empty!EntryPhases'
    BY <1>1, <1>3 DEF Empty!EntryPhases
  <1> QED
    BY <1>1, <1>2, <1>3, <1>4

LEMMA EmptyKeeps ==
  ASSUME Empty!IInv, Empty!Next
  PROVE  Empty!IInv'
  BY EmptyEntryKeeps, EmptyUnloadKeeps, EmptyRequestsKeep DEF Empty!Next

-----------------------------------------------------------------------------
(* WDFTestDriver.                                                          *)

LEMMA TestInit == Test!Init => Test!IInv
  BY DEF Test!Init, Test!IInv, Test!TypeOK, Test!DevicePhases, Test!RequestsHaveQueue,
         Test!CompletedOnce, Test!LoaderPoint, Test!PnpPoint, Test!Adding, Test!RequestPoint

LEMMA TestLoaderKeeps ==
  ASSUME Test!IInv, Test!Load \/ Test!LoaderStep \/ Test!Unload
  PROVE  Test!IInv'
  <1> USE DEF Test!IInv, Test!TypeOK, Test!DevicePhases, Test!LoaderGoes, Test!LoaderPoint
  <1>1. UNCHANGED <<pnp, queues, point, sentTo, owned, stopped>>
    BY DEF Test!Load, Test!LoaderStep, Test!Unload, Test!WdfDriverCreate, Test!CreateFailed,
           Test!WDFTestDriverEvtDriverContextCleanup, Test!devices, Test!requests
  <1>2. Test!RequestsHaveQueue' /\ Test!CompletedOnce'
    BY <1>1 DEF Test!RequestsHaveQueue, Test!CompletedOnce
  <1>3. loader' \in Test!LoaderPoint /\ tracing' \in BOOLEAN /\ Test!DevicePhases'
    BY <1>1 DEF Test!Load, Test!LoaderStep, Test!Unload, Test!WdfDriverCreate,
                Test!CreateFailed, Test!WDFTestDriverEvtDriverContextCleanup
  <1> QED
    BY <1>1, <1>2, <1>3

\* EvtDeviceAdd, Plug and Play and power management: a device that owns requests
\* is working, or stops without any other of its steps.
LEMMA TestDeviceKeeps ==
  ASSUME Test!IInv, NEW d \in Devices,
         \/ Test!AddDevice(d) \/ Test!WDFTestDriverEvtDeviceAdd(d)
         \/ Test!Start(d) \/ Test!PowerDown(d) \/ Test!Stopped(d)
  PROVE  Test!IInv'
  <1> USE DEF Test!IInv, Test!TypeOK, Test!DevicePhases, Test!PnpGoes, Test!PnpPoint,
              Test!Adding, Test!requests
  <1>1. /\ UNCHANGED <<loader, tracing, point, sentTo, owned>>
        /\ stopped' \subseteq Clients
    BY DEF Test!AddDevice, Test!WDFTestDriverEvtDeviceAdd, Test!WDFTestDriverCreateDevice,
           Test!WDFTestDriverQueueInitialize, Test!Start, Test!PowerDown, Test!Stopped
  <1>2. /\ pnp' = [pnp EXCEPT ![d] = pnp'[d]]
        /\ pnp'[d] \in Test!PnpPoint
        /\ queues' \subseteq Devices /\ \A e \in Devices \ {d} : e \in queues' <=> e \in queues
        /\ d \in queues' <=> pnp'[d] \in {"Added", "Working", "Stopping", "LowPower"}
        /\ pnp'[d] # "Absent" => loader = "Loaded"
        /\ d \in queues => d \in queues'
        /\ pnp[d] \in {"Working", "Stopping"} =>
              pnp'[d] \in {"Working", "Stopping"} \/ \A c \in owned : sentTo[c] # d
    <2>1. CASE Test!AddDevice(d)
      BY <2>1 DEF Test!AddDevice
    <2>2. CASE Test!WDFTestDriverCreateDevice(d)
      BY <2>2 DEF Test!WDFTestDriverCreateDevice
    <2>3. CASE Test!WDFTestDriverQueueInitialize(d)
      BY <2>3 DEF Test!WDFTestDriverQueueInitialize
    <2>4. CASE Test!Start(d)
      BY <2>4 DEF Test!Start
    <2>5. CASE Test!PowerDown(d)
      BY <2>5 DEF Test!PowerDown
    <2>6. CASE Test!Stopped(d)
      BY <2>6 DEF Test!Stopped
    <2> QED
      BY <2>1, <2>2, <2>3, <2>4, <2>5, <2>6 DEF Test!WDFTestDriverEvtDeviceAdd
  <1>3. pnp' \in [Devices -> Test!PnpPoint] /\ Test!DevicePhases'
    BY <1>1, <1>2
  <1>4. Test!RequestsHaveQueue' /\ Test!CompletedOnce'
    BY <1>1, <1>2, NoDeviceIsNone DEF Test!RequestsHaveQueue, Test!CompletedOnce
  <1> QED
    BY <1>1, <1>2, <1>3, <1>4

\* A device that is removed owns no request any more, and what is in its queue
\* goes with it.
LEMMA TestRemoveKeeps ==
  ASSUME Test!IInv, NEW d \in Devices, Test!Remove(d)
  PROVE  Test!IInv'
  <1> USE DEF Test!IInv, Test!TypeOK, Test!DevicePhases, Test!PnpGoes, Test!PnpPoint,
              Test!RequestPoint, Test!Remove
  <1>1. /\ UNCHANGED <<loader, tracing, owned, stopped>>
        /\ pnp' \in [Devices -> Test!PnpPoint] /\ queues' = queues \ {d}
        /\ Test!DevicePhases'
    BY DEF Test!Adding
  <1>2. ASSUME NEW c \in Clients
        PROVE  /\ point'[c] \in Test!RequestPoint
               /\ sentTo'[c] \in Devices \cup {NoDevice}
               /\ \/ point'[c] = point[c] /\ sentTo'[c] = sentTo[c]
                  \/ point[c] = "Queued" /\ sentTo[c] = d /\ point'[c] = "None"
               /\ point'[c] = "Queued" => sentTo'[c] # d
    OBVIOUS
  <1>3. /\ point' \in [Clients -> Test!RequestPoint]
        /\ sentTo' \in [Clients -> Devices \cup {NoDevice}]
    <2>1. /\ point' = [c \in Clients |-> point'[c]]
          /\ sentTo' = [c \in Clients |-> sentTo'[c]]
      OBVIOUS
    <2> QED
      BY <1>2, <2>1
  <1>4. \A c \in owned : sentTo[c] # d /\ sentTo'[c] = sentTo[c] /\ point'[c] = point[c]
    BY <1>2 DEF Test!RequestsHaveQueue, Test!CompletedOnce
  <1>5. Test!CompletedOnce'
    BY <1>1, <1>2, <1>4 DEF Test!CompletedOnce
  <1>6. Test!RequestsHaveQueue'
    BY <1>1, <1>2, <1>4, NoDeviceIsNone DEF Test!RequestsHaveQueue
  <1> QED
    BY <1>1, <1>3, <1>5, <1>6

\* The applications and the queue: a request is the driver's from the call of
\* EvtIoDeviceControl to WdfRequestComplete, whatever EvtIoStop is told.
LEMMA TestRequestKeeps ==
  ASSUME Test!IInv, NEW c \in Clients,
         \/ \E d \in Devices : Test!Send(c, d)
         \/ Test!Present(c) \/ Test!WDFTestDriverEvtIoDeviceControl(c)
         \/ Test!WDFTestDriverEvtIoStop(c)
  PROVE  Test!IInv'
  <1> USE DEF Test!IInv, Test!TypeOK, Test!RequestGoes, Test!RequestPoint, Test!devices,
              Test!RequestsHaveQueue, Test!CompletedOnce
  <1>1. UNCHANGED <<loader, tracing, pnp, queues>>
    BY DEF Test!Send, Test!Present, Test!WDFTestDriverEvtIoDeviceControl, Test!Trace,
           Test!Complete, Test!Return, Test!WDFTestDriverEvtIoStop
  <1>2. Test!DevicePhases'
    BY <1>1 DEF Test!DevicePhases
  <1>3. /\ point' \in [Clients -> Test!RequestPoint]
        /\ sentTo' \in [Clients -> Devices \cup {NoDevice}]
        /\ owned' \subseteq Clients /\ stopped' \subseteq Clients
        /\ Test!RequestsHaveQueue' /\ Test!CompletedOnce'
    <2>1. ASSUME NEW d \in Devices, Test!Send(c, d) PROVE <1>3!:
      BY <1>1, <2>1 DEF Test!Send, Test!DevicePhases
    <2>2. CASE Test!Present(c)
      BY <1>1, <2>2 DEF Test!Present
    <2>3. CASE Test!Trace(c)
      BY <1>1, <2>3 DEF Test!Trace
    <2>4. CASE Test!Complete(c)
      BY <1>1, <2>4 DEF Test!Complete
    <2>5. CASE Test!Return(c)
      BY <1>1, <2>5 DEF Test!Return
    <2>6. CASE Test!WDFTestDriverEvtIoStop(c)
      BY <1>1, <2>6 DEF Test!WDFTestDriverEvtIoStop
    <2> QED
      BY <2>1, <2>2, <2>3, <2>4, <2>5, <2>6 DEF Test!WDFTestDriverEvtIoDeviceControl
  <1> QED
    BY <1>1, <1>2, <1>3

LEMMA TestKeeps ==
  ASSUME Test!IInv, Test!Next
  PROVE  Test!IInv'
  BY TestLoaderKeeps, TestDeviceKeeps, TestRemoveKeeps, TestRequestKeeps DEF Test!Next

-----------------------------------------------------------------------------
(* The machine.                                                            *)

LEMMA StartsInvariant == InitAll => DriversInv
  <1> SUFFICES ASSUME InitAll PROVE DriversInv
    OBVIOUS
  <1>1. IInv /\ Empty!IInv /\ Test!IInv
    BY InitIInv, EmptyInit, TestInit DEF InitAll
  <1>2. Filter!IInv /\ (Filter2!Init => Filter2!IInv)
    BY FilterIsProved, Filter2IsProved, FilterProofs!InitIInv, Filter2Proofs!InitIInv
    DEF InitAll
  <1>3. Filter2!Init
    BY DEF InitAll, Filter!Init, Filter2!Init, Filter!NoRequest, Filter2!NoRequest
  <1>4. BoosterAtRest
    BY DEF InitAll, Init, BoosterAtRest
  <1> QED
    BY <1>1, <1>2, <1>3, <1>4 DEF DriversInv, InitAll

\* A driver that is not installed is not touched.
LEMMA BoosterRests ==
  ASSUME BoosterAtRest, UNCHANGED boosterOnly
  PROVE  BoosterAtRest'
  BY DEF BoosterAtRest, boosterOnly, request, threads

LEMMA StutterKeeps ==
  ASSUME DriversInv, UNCHANGED machine
  PROVE  DriversInv'
  <1> USE DEF machine, vars, driver, request, threads, filterOnly, emptyOnly, testOnly,
              boosterOnly
  <1>1. UNCHANGED vars /\ UNCHANGED <<installed, filterOnly, emptyOnly, testOnly>>
    OBVIOUS
  <1>2. BoosterAtRest => BoosterAtRest'
    BY <1>1, BoosterRests
  <1>3. IInv => IInv'
    BY <1>1, NextIInv
  <1>4. Filter!IInv => Filter!IInv'
    BY <1>1
    DEF Filter!IInv, Filter!TypeOK, Filter!DevicePhases, Filter!RequestPhases,
        Filter!OnlyIoctlsAreLost
  <1>5. Filter2!IInv => Filter2!IInv'
    BY <1>1
    DEF Filter2!IInv, Filter2!TypeOK, Filter2!DevicePhases, Filter2!RequestPhases,
        Filter2!OnlyIoctlsAreLost
  <1>6. Empty!IInv => Empty!IInv'
    BY <1>1
    DEF Empty!IInv, Empty!TypeOK, Empty!EntryPhases, Empty!CallbacksHaveQueue,
        Empty!LinkedUnlessNoObject
  <1>7. Test!IInv => Test!IInv'
    BY <1>1
    DEF Test!IInv, Test!TypeOK, Test!DevicePhases, Test!RequestsHaveQueue,
        Test!CompletedOnce
  <1> QED
    BY <1>1, <1>2, <1>3, <1>4, <1>5, <1>6, <1>7 DEF DriversInv

LEMMA NextKeeps ==
  ASSUME DriversInv, NextAll
  PROVE  DriversInv'
  <1> USE DEF DriversInv
  <1>1. CASE Booster(Next)
    BY <1>1, NextIInv DEF Booster
  <1>2. CASE FilterDriver("FilterDriver", Filter!Next)
    BY <1>2, FilterKeeps, BoosterRests DEF FilterDriver
  <1>3. CASE FilterDriver("NetworkFilterDriver2", Filter2!Next)
    BY <1>3, Filter2Keeps, BoosterRests DEF FilterDriver
  <1>4. CASE EmptyDriver(Empty!Next)
    BY <1>4, EmptyKeeps, BoosterRests DEF EmptyDriver
  <1>5. CASE TestDriver(Test!Next)
    BY <1>5, TestKeeps, BoosterRests DEF TestDriver
  <1> QED
    BY <1>1, <1>2, <1>3, <1>4, <1>5 DEF NextAll

\* What exists at each point of the installed driver's DriverEntry, unloading
\* and requests, in every state of the machine.
THEOREM DriversInvariance == SpecAll => []DriversInv
  <1>1. DriversInv /\ [NextAll]_machine => DriversInv'
    BY NextKeeps, StutterKeeps
  <1> QED
    BY <1>1, StartsInvariant, PTL DEF SpecAll

-----------------------------------------------------------------------------
(* What every driver promises.                                             *)

\* A driver is there as a whole or not at all: whichever call of DriverEntry
\* fails, and after every unloading, nothing is left of it but what
\* AllOrNothing names (the DriverEntry and DriverUnload of the five drivers).
THEOREM DriversAllOrNothing == SpecAll => []AllOrNothing
  <1>1. DriversInv => AllOrNothing
    <2> SUFFICES ASSUME DriversInv PROVE AllOrNothing
      OBVIOUS
    <2> USE DEF DriversInv, Drivers, FilterInstalled
    <2>1. CASE installed = "PriorityBooster"
      <3>1. UnloadLeavesNothing /\ LinkLeadsToDevice
        BY <2>1 DEF IInv, DevicePhases, RequestPhases, UnloadLeavesNothing,
                    LinkLeadsToDevice
      <3>2. /\ loader = "Loaded" => link
            /\ loader = "Failed" => ~link /\ \A c \in Clients : handle[c] # "Open"
        BY <2>1 DEF IInv, DevicePhases, RequestPhases
      <3> QED
        BY <2>1, <3>1, <3>2 DEF AllOrNothing
    <2>2. CASE installed = "FilterDriver"
      <3>1. /\ Filter!UnloadLeavesNothing
            /\ loader = "Loaded" => registered /\ device /\ signature
        BY <2>2 DEF Filter!IInv, Filter!TypeOK, Filter!DevicePhases, Filter!RequestPhases,
                    Filter!UnloadLeavesNothing
      <3> QED
        BY <2>2, <3>1 DEF AllOrNothing
    <2>3. CASE installed = "NetworkFilterDriver2"
      <3>1. /\ Filter!UnloadLeavesNothing
            /\ loader = "Loaded" => registered /\ device /\ signature
        BY <2>3 DEF Filter2!IInv, Filter2!TypeOK, Filter2!DevicePhases,
                    Filter2!RequestPhases, Filter!UnloadLeavesNothing, Filter!NoRequest,
                    Filter2!NoRequest
      <3> QED
        BY <2>3, <3>1 DEF AllOrNothing
    <2>4. CASE installed = "EmptyKMDFDriver"
      <3>1. loader = "Unloaded" => queue = <<>> /\ creating = {}
        <4> SUFFICES ASSUME loader = "Unloaded" PROVE queue = <<>> /\ creating = {}
          OBVIOUS
        <4>1. creating = {} /\ \A c \in Clients : handle[c] = "None"
          BY <2>4 DEF Empty!IInv, Empty!EntryPhases
        <4>2. queue # <<>> => 1 \in 1..Len(queue) /\ queue[1] \in Clients
          BY <2>4 DEF Empty!IInv, Empty!TypeOK
        <4> QED
          BY <2>4, <4>1, <4>2 DEF Empty!IInv, Empty!CallbacksHaveQueue
      <3> QED
        BY <2>4, <3>1 DEF AllOrNothing, Empty!IInv
    <2>5. CASE installed = "WDFTestDriver"
      <3>1. Test!UnloadStopsTracing
        BY <2>5 DEF Test!IInv, Test!TypeOK, Test!DevicePhases, Test!RequestsHaveQueue,
                    Test!UnloadStopsTracing
      <3> QED
        BY <2>5, <3>1 DEF AllOrNothing
    <2> QED
      BY <2>1, <2>2, <2>3, <2>4, <2>5
  <1> QED
    BY <1>1, DriversInvariance, PTL

\* Whenever a routine of a driver can be called, what it uses is there: device,
\* signature, queue and tracing (the dispatch routines and queue callbacks).
THEOREM DriversPrepared == SpecAll => []CallbacksPrepared
  <1>1. DriversInv => CallbacksPrepared
    <2> SUFFICES ASSUME DriversInv PROVE CallbacksPrepared
      OBVIOUS
    <2> USE DEF DriversInv, Drivers, FilterInstalled
    <2>1. CASE installed = "PriorityBooster"
      <3>1. \A c \in Clients : at[c] \notin {"Idle", "Done"} => device /\ loader = "Loaded"
        BY <2>1 DEF IInv, DevicePhases, RequestPhases
      <3> QED
        BY <2>1, <3>1 DEF CallbacksPrepared
    <2>2. CASE installed = "FilterDriver"
      <3>1. Filter!SignatureOfLoaded
        BY <2>2 DEF Filter!IInv, Filter!DevicePhases, Filter!RequestPhases,
                    Filter!SignatureOfLoaded
      <3> QED
        BY <2>2, <3>1 DEF CallbacksPrepared
    <2>3. CASE installed = "NetworkFilterDriver2"
      <3>1. Filter!SignatureOfLoaded
        BY <2>3 DEF Filter2!IInv, Filter2!DevicePhases, Filter2!RequestPhases,
                    Filter!SignatureOfLoaded, Filter!NoRequest, Filter2!NoRequest
      <3> QED
        BY <2>3, <3>1 DEF CallbacksPrepared
    <2>4. CASE installed = "EmptyKMDFDriver"
      BY <2>4 DEF CallbacksPrepared, Empty!IInv
    <2>5. CASE installed = "WDFTestDriver"
      <3>1. Test!TracesWhileTracing
        BY <2>5 DEF Test!IInv, Test!TypeOK, Test!DevicePhases, Test!RequestsHaveQueue,
                    Test!CompletedOnce, Test!TracesWhileTracing, Test!Traces, Test!Adding
      <3> QED
        BY <2>5, <3>1 DEF CallbacksPrepared, Test!IInv
    <2> QED
      BY <2>1, <2>2, <2>3, <2>4, <2>5
  <1> QED
    BY <1>1, DriversInvariance, PTL

\* No request is completed twice, and none but the device control requests of
\* the filter drivers is dropped (FilterDeviceIoControl, EvtIoDeviceControl and
\* EvtIoStop).
THEOREM DriversOwnRequests == SpecAll => []RequestsOwned
  <1>1. DriversInv => RequestsOwned
    BY DEF DriversInv, RequestsOwned, Filter!IInv, Filter2!IInv, Test!IInv
  <1> QED
    BY <1>1, DriversInvariance, PTL

\* A thread object has a reference for each request that works on its thread, and
\* no more, also while other drivers are loaded (PsLookupThreadByThreadId and
\* ObDereferenceObject in PriorityBoosterDeviceControl).
THEOREM DriversReference == SpecAll => []ThreadsReferenced
  <1>1. DriversInv => ThreadsReferenced
    <2> SUFFICES ASSUME DriversInv PROVE ThreadsReferenced
      OBVIOUS
    <2>1. CASE installed = "PriorityBooster"
      BY <2>1, HolderReferenced DEF DriversInv, IInv, ThreadsReferenced
    <2>2. CASE installed # "PriorityBooster"
      <3>1. BoosterAtRest
        BY <2>2 DEF DriversInv
      <3>2. ReferencesBalanced
        <4> SUFFICES ASSUME NEW t \in Threads
                     PROVE  references[t] = Cardinality({c \in Clients : thread[c] = t})
          BY DEF ReferencesBalanced
        <4>1. {c \in Clients : thread[c] = t} = {}
          BY <3>1, NoThreadIsNone DEF BoosterAtRest
        <4> QED
          BY <3>1, <4>1, FS_EmptySet DEF BoosterAtRest
      <3> QED
        BY <3>1, <3>2 DEF BoosterAtRest, ThreadsReferenced, SetsExistingThread
    <2> QED
      BY <2>1, <2>2
  <1> QED
    BY <1>1, DriversInvariance, PTL

\* A client that leaves its ThreadData alone during its request gets the priority
\* that has been checked (PriorityBoosterDeviceControl reads it three times).
THEOREM DriversSetChecked == SpecAll => SetsCheckedPriority
  <1>1. ASSUME DriversInv, [NextAll]_machine, NEW c \in Clients,
               at[c] = "Set", at'[c] = "Dereference", ~rewritten[c]
        PROVE  /\ priority'[buffer[c].ThreadId] = buffer[c].Priority
               /\ buffer[c].Priority \in 1..31
    <2>1. installed = "PriorityBooster" /\ IInv
      BY <1>1 DEF DriversInv, BoosterAtRest
    <2>2. [Next]_vars
      BY <1>1, <2>1
      DEF NextAll, Booster, FilterDriver, EmptyDriver, TestDriver, machine
    <2> QED
      BY <1>1, <2>1, <2>2, SetsWhatWasChecked
  <1>2. DriversInv /\ [NextAll]_machine =>
           [\A c \in Clients : at[c] = "Set" /\ at'[c] = "Dereference" /\ ~rewritten[c] =>
               /\ priority'[buffer[c].ThreadId] = buffer[c].Priority
               /\ buffer[c].Priority \in 1..31]_vars
    BY <1>1
  <1> QED
    BY <1>2, DriversInvariance, PTL DEF SpecAll, SetsCheckedPriority
=============================================================================
