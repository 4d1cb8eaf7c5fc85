------------------------ MODULE FilterDevice_proofs -------------------------
(***************************************************************************)
(* Proofs about FilterDevice, for any number of applications and either    *)
(* driver.  What exists at each point of DriverEntry and DriverUnload, and *)
(* which request a handle can have in each of its states, is inductive     *)
(* together with what is known of the requests that have been lost.        *)
(***************************************************************************)
EXTENDS FilterDevice, TLAPS

LEMMA InitIInv == Init => IInv
  BY DEF Init, IInv, TypeOK, LoaderPoint, DevicePhases, RequestPhases, OnlyIoctlsAreLost,
         NoRequest, Requests, Ioctls

\* DriverEntry and DriverUnload: what they make and take away is where the
\* phases say, and while a handle or a request is left they stay at "Loaded".
LEMMA LoaderKeepsIInv ==
  ASSUME IInv, Load \/ Stop \/ LoaderStep
  PROVE  IInv'
  <1> USE DEF IInv, TypeOK, DevicePhases, LoaderGoes, requests
  <1>1. /\ loader' \in LoaderPoint
        /\ registered' \in BOOLEAN /\ device' \in BOOLEAN
        /\ signature' \in BOOLEAN /\ stopping' \in BOOLEAN
        /\ DevicePhases' /\ UNCHANGED requests
    <2> USE DEF LoaderPoint
    <2>1. CASE Load
      BY <2>1 DEF Load
    <2>2. CASE Stop
      BY <2>2 DEF Stop
    <2>3. CASE RegisterFilter
      <3>1. CASE loader' = "RegisterDevice"
        BY <2>3, <3>1 DEF RegisterFilter
      <3>2. CASE loader' = "Unloaded"
        BY <2>3, <3>2 DEF RegisterFilter
      <3> QED
        BY <2>3, <3>1, <3>2 DEF RegisterFilter
    <2>4. CASE RegisterDevice
      <3>1. CASE loader' = "SetExtension"
        BY <2>4, <3>1 DEF RegisterDevice
      <3>2. CASE loader' = "Rollback"
        BY <2>4, <3>2 DEF RegisterDevice
      <3> QED
        BY <2>4, <3>1, <3>2 DEF RegisterDevice
    <2>5. CASE SetExtension
      BY <2>5 DEF SetExtension
    <2>6. CASE Rollback
      BY <2>6 DEF Rollback
    <2>7. CASE Unload
      BY <2>7 DEF Unload
    <2>8. CASE UnloadDevice
      BY <2>8 DEF UnloadDevice
    <2>9. CASE UnloadFilter
      BY <2>9 DEF UnloadFilter
    <2> QED
      BY <2>1, <2>2, <2>3, <2>4, <2>5, <2>6, <2>7, <2>8, <2>9 DEF LoaderStep
  <1>2. ASSUME NEW c \in Clients, handle[c] # "None" \/ irp[c] # NoRequest
        PROVE  loader' \in {"SetExtension", "Loaded"}
    <2>1. loader \in {"SetExtension", "Loaded"}
      BY <1>2 DEF RequestPhases
    <2> QED
      BY <1>2, <2>1
      DEF Load, Stop, LoaderStep, RegisterFilter, RegisterDevice, SetExtension, Rollback,
          Unload, UnloadDevice, UnloadFilter
  <1>3. RequestPhases'
    BY <1>1, <1>2 DEF RequestPhases
  <1>4. OnlyIoctlsAreLost'
    <2> SUFFICES ASSUME NEW c \in Clients, dispatched'[c] = "Abandoned"
                 PROVE  /\ irp'[c] = "IoctlNoFile" \/ (irp'[c] = "Ioctl" /\ ~CompletesIoctl)
                        /\ handle'[c] = "Open"
                        /\ device' /\ loader' \in {"SetExtension", "Loaded"}
      BY DEF OnlyIoctlsAreLost
    <2>1. /\ irp[c] = "IoctlNoFile" \/ (irp[c] = "Ioctl" /\ ~CompletesIoctl)
          /\ handle[c] = "Open"
      BY <1>1 DEF OnlyIoctlsAreLost
    <2> QED
      BY <1>1, <1>2, <2>1
  <1> QED
    BY <1>1, <1>3, <1>4

\* Sending a request: the device is there, and the handle in the state for it.
LEMMA SendKeepsIInv ==
  ASSUME IInv, NEW c \in Clients, NEW request \in Requests, Send(c, request),
         loader \in {"SetExtension", "Loaded"},
         request = "Create" => handle[c] = "None",
         request \in {"Cleanup"} \cup Ioctls => handle[c] = "Open",
         request = "Close" => handle[c] = "CleanedUp"
  PROVE  IInv'
  BY DEF IInv, TypeOK, DevicePhases, RequestPhases, OnlyIoctlsAreLost, Send, driver,
         NoRequest, Requests, Ioctls

LEMMA ClientKeepsIInv ==
  ASSUME IInv, NEW c \in Clients,
         OpenDevice(c) \/ DeviceControl(c) \/ CloseHandle(c) \/ LastReference(c)
  PROVE  IInv'
  <1> USE DEF Requests, Ioctls
  <1>1. CASE OpenDevice(c)
    <2>1. loader \in {"SetExtension", "Loaded"}
      <3>1. device /\ ~stopping /\ handle[c] = "None"
        BY <1>1 DEF OpenDevice
      <3> QED
        BY <3>1 DEF IInv, DevicePhases
    <2> QED
      BY <1>1, <2>1, SendKeepsIInv DEF OpenDevice
  <1>2. ASSUME handle[c] # "None" PROVE loader \in {"SetExtension", "Loaded"}
    BY <1>2 DEF IInv, RequestPhases
  <1>3. CASE DeviceControl(c)
    BY <1>2, <1>3, SendKeepsIInv DEF DeviceControl
  <1>4. CASE CloseHandle(c)
    BY <1>2, <1>4, SendKeepsIInv DEF CloseHandle
  <1>5. CASE LastReference(c)
    BY <1>2, <1>5, SendKeepsIInv DEF LastReference
  <1> QED
    BY <1>1, <1>3, <1>4, <1>5

LEMMA DispatchKeepsIInv ==
  ASSUME IInv, NEW c \in Clients, Dispatch(c)
  PROVE  IInv'
  <1> USE DEF NoRequest, IInv, TypeOK, Requests, Ioctls
  <1>1. UNCHANGED driver /\ dispatched[c] = "Driver" /\ irp[c] # NoRequest
    BY DEF Dispatch, FilterDispatch, FilterDeviceIoControl
  <1>2. DevicePhases'
    BY <1>1 DEF DevicePhases, driver
  <1>3. loader \in {"SetExtension", "Loaded"} /\ device
    BY <1>1 DEF RequestPhases, DevicePhases
  <1>4. CASE FilterDispatch(c)
    BY <1>1, <1>2, <1>3, <1>4
    DEF FilterDispatch, Complete, RequestPhases, OnlyIoctlsAreLost, driver
  <1>5. CASE FilterDeviceIoControl(c)
    <2>1. CASE CompletesRequest(c)
      BY <1>1, <1>2, <1>3, <1>5, <2>1
      DEF FilterDeviceIoControl, Complete, RequestPhases, OnlyIoctlsAreLost, driver
    <2>2. CASE ~CompletesRequest(c)
      BY <1>1, <1>2, <1>3, <1>5, <2>2
      DEF FilterDeviceIoControl, CompletesRequest, Abandon, RequestPhases,
          OnlyIoctlsAreLost, driver
    <2> QED
      BY <2>1, <2>2
  <1> QED
    BY <1>4, <1>5 DEF Dispatch

LEMMA NextIInv == IInv /\ [Next]_vars => IInv'
  <1> SUFFICES ASSUME IInv, [Next]_vars PROVE IInv'
    OBVIOUS
  <1>1. CASE UNCHANGED vars
    BY <1>1 DEF vars, driver, requests, IInv, TypeOK, DevicePhases, RequestPhases,
       OnlyIoctlsAreLost
  <1>2. CASE Next
    BY <1>2, LoaderKeepsIInv, ClientKeepsIInv, DispatchKeepsIInv DEF Next
  <1> QED
    BY <1>1, <1>2

\* The phases of the device and of the requests, at every moment.
THEOREM Invariance == Spec => []IInv
  BY InitIInv, NextIInv, PTL DEF Spec

-----------------------------------------------------------------------------
(* The results.                                                            *)

\* Every variable has its type, and a request is in somebody's hands exactly
\* when there is one.
THEOREM TypesHold == Spec => []TypeOK
  BY Invariance, PTL DEF IInv

\* However many applications there are, a driver that is not loaded has left
\* nothing behind and has nothing to answer.
THEOREM NothingLeft == Spec => []UnloadLeavesNothing
  <1>1. IInv => UnloadLeavesNothing
    BY DEF IInv, DevicePhases, RequestPhases, UnloadLeavesNothing
  <1> QED
    BY <1>1, Invariance, PTL

\* No request is lost but the device control requests FilterDeviceIoControl
\* does not complete, and what is lost holds the driver in memory.
THEOREM OnlyIoctls == Spec => []OnlyIoctlsAreLost
  BY Invariance, PTL DEF IInv

\* ASSERT(FilterDeviceExtension->Signature == 'FTDR') holds of every request
\* that comes after DriverEntry.
THEOREM SignatureSet == Spec => []SignatureOfLoaded
  <1>1. IInv => SignatureOfLoaded
    BY DEF IInv, DevicePhases, RequestPhases, SignatureOfLoaded
  <1> QED
    BY <1>1, Invariance, PTL
=============================================================================
