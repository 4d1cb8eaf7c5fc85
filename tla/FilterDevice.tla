---------------------------- MODULE FilterDevice -----------------------------
(***************************************************************************)
(* The control device of the two NDIS filter drivers: how DriverEntry      *)
(* registers it and DriverUnload takes it away, and what becomes of the    *)
(* requests (IRPs) of the applications that have it open.  The two drivers *)
(* share this code but for FilterDeviceIoControl, which completes its      *)
(* request in NetworkFilterDriver2 and returns without in FilterDriver.    *)
(*                                                                         *)
(* NDIS and the I/O manager are external: the device can be opened from    *)
(* the moment NdisRegisterDeviceEx has created it until the driver is      *)
(* asked to stop; a handle has one request at a time and is closed by two, *)
(* IRP_MJ_CLEANUP and IRP_MJ_CLOSE; DriverUnload is called when no handle  *)
(* is left.  Filter modules are in FilterDriver and FilterModule.          *)
(***************************************************************************)
CONSTANTS
    Clients,          \* the applications, each with one handle
    CompletesIoctl    \* is this NetworkFilterDriver2?

VARIABLES
    loader,      \* where DriverEntry or DriverUnload is
    registered,  \* is the driver registered with NDIS?
    device,      \* NdisFilterDeviceHandle # NULL
    signature,   \* is the device extension filled in?
    stopping,    \* has the I/O manager been asked to unload the driver?
    handle,      \* the handle of each application
    irp,         \* its request
    dispatched   \* is the request in the hands of the driver, or abandoned by it?

driver == <<loader, registered, device, signature, stopping>>
requests == <<handle, irp, dispatched>>
vars == <<driver, requests>>

LoaderPoint == {"Unloaded", "RegisterFilter", "RegisterDevice", "SetExtension",
                "Rollback", "Loaded", "UnloadDevice", "UnloadFilter"}

\* A device control request comes with a file object, or from another driver
\* without one.
Ioctls == {"Ioctl", "IoctlNoFile"}
Requests == {"Create", "Cleanup", "Close"} \cup Ioctls
NoRequest == "None"

Init ==
    /\ loader = "Unloaded"
    /\ registered = FALSE
    /\ device = FALSE
    /\ signature = FALSE
    /\ stopping = FALSE
    /\ handle = [c \in Clients |-> "None"]
    /\ irp = [c \in Clients |-> NoRequest]
    /\ dispatched = [c \in Clients |-> "No"]

-----------------------------------------------------------------------------
(* DriverEntry and DriverUnload.                                           *)

LoaderGoes(from, to) ==
    /\ loader = from
    /\ loader' = to

Load ==
    /\ LoaderGoes("Unloaded", "RegisterFilter")
    /\ UNCHANGED <<registered, device, signature, stopping, requests>>

\* NdisFRegisterFilterDriver.
RegisterFilter ==
    /\ \/ LoaderGoes("RegisterFilter", "RegisterDevice") /\ registered' = TRUE
       \/ LoaderGoes("RegisterFilter", "Unloaded") /\ UNCHANGED registered
    /\ UNCHANGED <<device, signature, stopping, requests>>

\* FilterRegisterDevice: NdisRegisterDeviceEx, and on success ...
RegisterDevice ==
    /\ \/ LoaderGoes("RegisterDevice", "SetExtension") /\ device' = TRUE
       \/ LoaderGoes("RegisterDevice", "Rollback") /\ UNCHANGED device
    /\ UNCHANGED <<registered, signature, stopping, requests>>

\* ... the extension of the device that is there already.
SetExtension ==
    /\ LoaderGoes("SetExtension", "Loaded")
    /\ signature' = TRUE
    /\ UNCHANGED <<registered, device, stopping, requests>>

\* Mutant: a failed FilterRegisterDevice leaves the driver registered.
RollbackNothing ==
    /\ LoaderGoes("Rollback", "Unloaded")
    /\ UNCHANGED <<registered, device, signature, stopping, requests>>

\* NdisFDeregisterFilterDriver, when there is no device.
Rollback ==
    /\ LoaderGoes("Rollback", "Unloaded")
    /\ registered' = FALSE
    /\ UNCHANGED <<device, signature, stopping, requests>>

\* The driver is asked to stop: no more opens.
Stop ==
    /\ loader = "Loaded" /\ ~stopping
    /\ stopping' = TRUE
    /\ UNCHANGED <<loader, registered, device, signature, requests>>

\* DriverUnload is called when all handles are closed.
Unload ==
    /\ stopping
    /\ \A c \in Clients : handle[c] = "None" /\ irp[c] = NoRequest
    /\ LoaderGoes("Loaded", "UnloadDevice")
    /\ UNCHANGED <<registered, device, signature, stopping, requests>>

\* FilterDeregisterDevice.
UnloadDevice ==
    /\ LoaderGoes("UnloadDevice", "UnloadFilter")
    /\ device' = FALSE
    /\ signature' = FALSE
    /\ UNCHANGED <<registered, stopping, requests>>

\* NdisFDeregisterFilterDriver, and the image goes.
UnloadFilter ==
    /\ LoaderGoes("UnloadFilter", "Unloaded")
    /\ registered' = FALSE
    /\ stopping' = FALSE
    /\ UNCHANGED <<device, signature, requests>>

-----------------------------------------------------------------------------
(* The applications and the I/O manager.                                   *)

Send(c, request) ==
    /\ irp[c] = NoRequest
    /\ irp' = [irp EXCEPT ![c] = request]
    /\ dispatched' = [dispatched EXCEPT ![c] = "Driver"]
    /\ UNCHANGED <<handle, driver>>

OpenDevice(c) == device /\ ~stopping /\ handle[c] = "None" /\ Send(c, "Create")

DeviceControl(c) == handle[c] = "Open" /\ \E request \in Ioctls : Send(c, request)

CloseHandle(c) == handle[c] = "Open" /\ Send(c, "Cleanup")

\* After the cleanup of a handle the I/O manager sends the last request.
LastReference(c) == handle[c] = "CleanedUp" /\ Send(c, "Close")

-----------------------------------------------------------------------------
(* The dispatch routines.                                                  *)

\* IoCompleteRequest.
Complete(c) ==
    /\ irp' = [irp EXCEPT ![c] = NoRequest]
    /\ dispatched' = [dispatched EXCEPT ![c] = "No"]

\* The routine returns, and nobody has the request any more.
Abandon(c) ==
    /\ dispatched' = [dispatched EXCEPT ![c] = "Abandoned"]
    /\ UNCHANGED <<handle, irp>>

\* FilterDispatch: IRP_MJ_CREATE, IRP_MJ_CLEANUP and IRP_MJ_CLOSE succeed.
FilterDispatch(c) ==
    /\ dispatched[c] = "Driver"
    /\ irp[c] \notin Ioctls
    /\ handle' = [handle EXCEPT ![c] =
                     CASE irp[c] = "Create" -> "Open"
                       [] irp[c] = "Cleanup" -> "CleanedUp"
                       [] irp[c] = "Close" -> "None"]
    /\ Complete(c)
    /\ UNCHANGED driver

\* Mutant: the early return of NetworkFilterDriver2 is taken by every request.
NeverCompletes(c) == FALSE

\* Does FilterDeviceIoControl come to its IoCompleteRequest?  FilterDriver has
\* none; NetworkFilterDriver2 returns before for a request without file object.
CompletesRequest(c) == CompletesIoctl /\ irp[c] = "Ioctl"

FilterDeviceIoControl(c) ==
    /\ dispatched[c] = "Driver"
    /\ irp[c] \in Ioctls
    /\ IF CompletesRequest(c) THEN Complete(c) /\ UNCHANGED handle ELSE Abandon(c)
    /\ UNCHANGED driver

-----------------------------------------------------------------------------
(* The specification.                                                      *)

LoaderStep ==
    \/ RegisterFilter \/ RegisterDevice \/ SetExtension \/ Rollback
    \/ Unload \/ UnloadDevice \/ UnloadFilter

Dispatch(c) == FilterDispatch(c) \/ FilterDeviceIoControl(c)

Next ==
    \/ Load \/ Stop \/ LoaderStep
    \/ \E c \in Clients :
          \/ OpenDevice(c) \/ DeviceControl(c) \/ CloseHandle(c) \/ LastReference(c)
          \/ Dispatch(c)

Spec == Init /\ [][Next]_vars

-----------------------------------------------------------------------------
(* Properties.                                                             *)

TypeOK ==
    /\ loader \in LoaderPoint
    /\ registered \in BOOLEAN /\ device \in BOOLEAN
    /\ signature \in BOOLEAN /\ stopping \in BOOLEAN
    /\ handle \in [Clients -> {"None", "Open", "CleanedUp"}]
    /\ irp \in [Clients -> Requests \cup {NoRequest}]
    /\ dispatched \in [Clients -> {"No", "Driver", "Abandoned"}]
    /\ \A c \in Clients : irp[c] = NoRequest <=> dispatched[c] = "No"

\* A driver that is not loaded, because it has been unloaded or because its
\* DriverEntry has failed at any point, is not registered with NDIS, has no
\* device, and no application has a handle or a request left.
UnloadLeavesNothing ==
    loader = "Unloaded" =>
        /\ ~registered /\ ~device /\ ~signature
        /\ \A c \in Clients : handle[c] = "None" /\ irp[c] = NoRequest

\* The one way to lose a request is a device control request, of any kind in
\* FilterDriver, without a file object in NetworkFilterDriver2; from then on
\* its handle stays open and the driver stays loaded with its device.
OnlyIoctlsAreLost ==
    \A c \in Clients : dispatched[c] = "Abandoned" =>
        /\ irp[c] = "IoctlNoFile" \/ (irp[c] = "Ioctl" /\ ~CompletesIoctl)
        /\ handle[c] = "Open"
        /\ device /\ loader \in {"SetExtension", "Loaded"}

\* ASSERT(FilterDeviceExtension->Signature == 'FTDR')
\* (NetworkFilterDriver2/main.cpp:95) holds of every request from the moment
\* DriverEntry has returned until the last handle is closed.
SignatureOfLoaded ==
    \A c \in Clients : irp[c] # NoRequest /\ loader # "SetExtension" => signature

\* What exists when.
DevicePhases ==
    /\ registered <=> loader \in {"RegisterDevice", "SetExtension", "Rollback",
                                  "Loaded", "UnloadDevice", "UnloadFilter"}
    /\ device <=> loader \in {"SetExtension", "Loaded", "UnloadDevice"}
    /\ signature <=> loader \in {"Loaded", "UnloadDevice"}
    /\ stopping => loader \in {"Loaded", "UnloadDevice", "UnloadFilter"}
    /\ loader \in {"UnloadDevice", "UnloadFilter"} => stopping

\* Where a handle and its request can be.
RequestPhases ==
    \A c \in Clients :
        /\ handle[c] # "None" \/ irp[c] # NoRequest => loader \in {"SetExtension", "Loaded"}
        /\ irp[c] = "Create" => handle[c] = "None"
        /\ irp[c] \in {"Cleanup"} \cup Ioctls => handle[c] = "Open"
        /\ irp[c] = "Close" => handle[c] = "CleanedUp"

\* The inductive invariant of the proofs.
IInv == TypeOK /\ DevicePhases /\ RequestPhases /\ OnlyIoctlsAreLost

\* An application waits for the answer to its request, and the request is not of
\* the kind that can be lost.
Waiting(c) ==
    /\ irp[c] # NoRequest
    /\ ~(irp[c] = "IoctlNoFile" \/ (irp[c] = "Ioctl" /\ ~CompletesIoctl))
=============================================================================
