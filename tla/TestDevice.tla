---------------------------- MODULE TestDevice ------------------------------
(***************************************************************************)
(* WDFTestDriver: a framework driver with devices, a parallel queue and    *)
(* WPP tracing.  DriverEntry starts the tracing and its callbacks use it,  *)
(* until DriverEntry fails or the cleanup callback of the driver object    *)
(* stops it.                                                               *)
(*                                                                         *)
(* The framework, Plug and Play and power management are external.  The    *)
(* interface of a device is enabled when EvtDeviceAdd has succeeded and    *)
(* the device is started.  A parallel queue presents a request as soon as  *)
(* it arrives and the device works; before a device leaves the working     *)
(* state, EvtIoStop is called for the requests that are presented and the  *)
(* framework waits until they have been completed, though not for the      *)
(* callback that has completed one to return.  The driver object is        *)
(* deleted when the last device is gone.                                   *)
(***************************************************************************)
CONSTANTS
    Devices,      \* the devices the driver is asked to serve
    Clients,      \* the applications, each with one request at a time
    NoDevice      \* the device of an application without a request

VARIABLES
    loader,       \* where DriverEntry or the unloading is
    tracing,      \* has WPP been initialised, and not cleaned up?
    pnp,          \* where each device is, EvtDeviceAdd included
    queue,        \* the devices that have their default queue
    at,           \* where the request of each application is
    device,       \* the device it was sent to
    owned,        \* the requests that are presented and not completed
    stopped       \* the requests EvtIoStop has been called for

devices == <<pnp, queue>>
requests == <<at, device, owned, stopped>>
vars == <<loader, tracing, devices, requests>>

LoaderPoint == {"Unloaded", "DriverCreate", "CreateFailed", "Loaded", "Cleanup"}
Adding == {"DeviceCreate", "CreateDeviceInterface", "QueueInitialize"}
PnpPoint == Adding \cup {"Absent", "Added", "Working", "Stopping", "LowPower"}
RequestPoint == {"None", "Queued", "Called", "Complete", "Return"}

\* Is EvtIoDeviceControl about to call TraceEvents?
Traces(c) == at[c] = "Called"

Init ==
    /\ loader = "Unloaded"
    /\ tracing = FALSE
    /\ pnp = [d \in Devices |-> "Absent"]
    /\ queue = {}
    /\ at = [c \in Clients |-> "None"]
    /\ device = [c \in Clients |-> NoDevice]
    /\ owned = {} /\ stopped = {}

-----------------------------------------------------------------------------
(* DriverEntry and WDFTestDriverEvtDriverContextCleanup.                   *)

LoaderGoes(from, to) ==
    /\ loader = from
    /\ loader' = to

\* WPP_INIT_TRACING.
Load ==
    /\ LoaderGoes("Unloaded", "DriverCreate")
    /\ tracing' = TRUE
    /\ UNCHANGED <<devices, requests>>

WdfDriverCreate ==
    /\ LoaderGoes("DriverCreate", "Loaded") \/ LoaderGoes("DriverCreate", "CreateFailed")
    /\ UNCHANGED <<tracing, devices, requests>>

\* WPP_CLEANUP, and the error is returned.
CreateFailed ==
    /\ LoaderGoes("CreateFailed", "Unloaded")
    /\ tracing' = FALSE
    /\ UNCHANGED <<devices, requests>>

\* The driver object is deleted, and the driver is unloaded after its cleanup.
Unload ==
    /\ \A d \in Devices : pnp[d] = "Absent"
    /\ LoaderGoes("Loaded", "Cleanup")
    /\ UNCHANGED <<tracing, devices, requests>>

WDFTestDriverEvtDriverContextCleanup ==
    /\ LoaderGoes("Cleanup", "Unloaded")
    /\ tracing' = FALSE
    /\ UNCHANGED <<devices, requests>>

-----------------------------------------------------------------------------
(* WDFTestDriverEvtDeviceAdd.                                              *)

PnpGoes(d, from, to) ==
    /\ pnp[d] = from
    /\ pnp' = [pnp EXCEPT ![d] = to]

\* The Plug and Play manager finds a device.
AddDevice(d) ==
    /\ loader = "Loaded"
    /\ PnpGoes(d, "Absent", "DeviceCreate")
    /\ UNCHANGED <<loader, tracing, queue, requests>>

\* WDFTestDriverCreateDevice: WdfDeviceCreate and WdfDeviceCreateDeviceInterface,
\* one of which may fail: then the framework deletes the device.
WDFTestDriverCreateDevice(d) ==
    /\ \/ PnpGoes(d, "DeviceCreate", "CreateDeviceInterface")
       \/ PnpGoes(d, "CreateDeviceInterface", "QueueInitialize")
       \/ PnpGoes(d, "DeviceCreate", "Absent")
       \/ PnpGoes(d, "CreateDeviceInterface", "Absent")
    /\ UNCHANGED <<loader, tracing, queue, requests>>

WDFTestDriverQueueInitialize(d) ==
    /\ \/ PnpGoes(d, "QueueInitialize", "Added") /\ queue' = queue \cup {d}
       \/ PnpGoes(d, "QueueInitialize", "Absent") /\ UNCHANGED queue
    /\ UNCHANGED <<loader, tracing, requests>>

-----------------------------------------------------------------------------
(* Plug and Play, power management, and the applications.                  *)

\* The device is started, or powered up again.
Start(d) ==
    /\ PnpGoes(d, "Added", "Working") \/ PnpGoes(d, "LowPower", "Working")
    /\ UNCHANGED <<loader, tracing, queue, requests>>

\* It is going to leave the working state ...
PowerDown(d) ==
    /\ PnpGoes(d, "Working", "Stopping")
    /\ stopped' = stopped \ {c \in Clients : device[c] = d}
    /\ UNCHANGED <<loader, tracing, queue, at, device, owned>>

\* ... when no request is left.
Stopped(d) ==
    /\ \A c \in owned : device[c] # d
    /\ PnpGoes(d, "Stopping", "LowPower")
    /\ UNCHANGED <<loader, tracing, queue, requests>>

\* The device is removed; what is still in the queue is cancelled.
Remove(d) ==
    /\ PnpGoes(d, "LowPower", "Absent")
    /\ queue' = queue \ {d}
    /\ LET cancelled == {c \in Clients : device[c] = d /\ at[c] = "Queued"} IN
          /\ at' = [c \in Clients |-> IF c \in cancelled THEN "None" ELSE at[c]]
          /\ device' = [c \in Clients |-> IF c \in cancelled THEN NoDevice ELSE device[c]]
    /\ UNCHANGED <<loader, tracing, owned, stopped>>

\* DeviceIoControl.
Send(c, d) ==
    /\ pnp[d] \in {"Working", "Stopping", "LowPower"}
    /\ at[c] = "None"
    /\ at' = [at EXCEPT ![c] = "Queued"]
    /\ device' = [device EXCEPT ![c] = d]
    /\ stopped' = stopped \ {c}
    /\ UNCHANGED <<loader, tracing, devices, owned>>

-----------------------------------------------------------------------------
(* The callbacks of the queue.                                             *)

RequestGoes(c, from, to) ==
    /\ at[c] = from
    /\ at' = [at EXCEPT ![c] = to]

\* The queue presents the request: EvtIoDeviceControl is called.
Present(c) ==
    /\ device[c] \in Devices
    /\ pnp[device[c]] = "Working"
    /\ RequestGoes(c, "Queued", "Called")
    /\ owned' = owned \cup {c}
    /\ UNCHANGED <<loader, tracing, devices, device, stopped>>

\* It calls TraceEvents ...
Trace(c) ==
    /\ RequestGoes(c, "Called", "Complete")
    /\ UNCHANGED <<loader, tracing, devices, device, owned, stopped>>

\* Mutant: a request EvtIoStop has been called for waits for its device to work.
CompleteUnstopped(c) ==
    /\ c \in stopped => pnp[device[c]] = "Working"
    /\ RequestGoes(c, "Complete", "Return")
    /\ owned' = owned \ {c}
    /\ UNCHANGED <<loader, tracing, devices, device, stopped>>

\* ... and WdfRequestComplete ...
Complete(c) ==
    /\ RequestGoes(c, "Complete", "Return")
    /\ owned' = owned \ {c}
    /\ UNCHANGED <<loader, tracing, devices, device, stopped>>

\* ... and returns.
Return(c) ==
    /\ RequestGoes(c, "Return", "None")
    /\ device' = [device EXCEPT ![c] = NoDevice]
    /\ UNCHANGED <<loader, tracing, devices, owned, stopped>>

\* Mutant: EvtIoStop completes the request as well.
EvtIoStopCompletes(c) ==
    /\ c \in owned \ stopped
    /\ pnp[device[c]] = "Stopping"
    /\ stopped' = stopped \cup {c}
    /\ owned' = owned \ {c}
    /\ UNCHANGED <<loader, tracing, devices, at, device>>

\* EvtIoStop is called for the requests the driver owns, and takes no action.
WDFTestDriverEvtIoStop(c) ==
    /\ c \in owned \ stopped
    /\ pnp[device[c]] = "Stopping"
    /\ stopped' = stopped \cup {c}
    /\ UNCHANGED <<loader, tracing, devices, at, device, owned>>

-----------------------------------------------------------------------------
(* The specification.                                                      *)

LoaderStep == WdfDriverCreate \/ CreateFailed \/ WDFTestDriverEvtDriverContextCleanup

WDFTestDriverEvtDeviceAdd(d) == WDFTestDriverCreateDevice(d) \/ WDFTestDriverQueueInitialize(d)

WDFTestDriverEvtIoDeviceControl(c) == Trace(c) \/ Complete(c) \/ Return(c)

Next ==
    \/ Load \/ LoaderStep \/ Unload
    \/ \E d \in Devices :
          \/ AddDevice(d) \/ WDFTestDriverEvtDeviceAdd(d)
          \/ Start(d) \/ PowerDown(d) \/ Stopped(d) \/ Remove(d)
    \/ \E c \in Clients :
          \/ \E d \in Devices : Send(c, d)
          \/ Present(c) \/ WDFTestDriverEvtIoDeviceControl(c) \/ WDFTestDriverEvtIoStop(c)

Spec == Init /\ [][Next]_vars

-----------------------------------------------------------------------------
(* Properties.                                                             *)

TypeOK ==
    /\ loader \in LoaderPoint
    /\ tracing \in BOOLEAN
    /\ pnp \in [Devices -> PnpPoint]
    /\ queue \subseteq Devices
    /\ at \in [Clients -> RequestPoint]
    /\ device \in [Clients -> Devices \cup {NoDevice}]
    /\ owned \subseteq Clients /\ stopped \subseteq Clients

\* TraceEvents is only called while WPP is initialised: the driver object, and
\* with it the tracing, outlives every callback that is going to use it.
TracesWhileTracing ==
    (\/ loader \in {"DriverCreate", "CreateFailed", "Cleanup"}
     \/ \E d \in Devices : pnp[d] \in Adding
     \/ \E c \in Clients : Traces(c) \/ c \in owned) => tracing

\* A driver that is not loaded, after a failed WdfDriverCreate or its unloading,
\* has stopped its tracing and owns no request.
UnloadStopsTracing == loader = "Unloaded" => ~tracing /\ queue = {} /\ owned = {}

\* A request comes to a device that has its queue, whatever has failed in
\* EvtDeviceAdd, and a device that has left the working state owns no request.
RequestsHaveQueue ==
    \A c \in Clients :
        /\ at[c] = "Queued" \/ c \in owned => device[c] \in queue
        /\ c \in owned => pnp[device[c]] \in {"Working", "Stopping"}

\* A request that EvtIoDeviceControl is going to complete is still the driver's:
\* EvtIoStop, which may be called for it meanwhile, must not complete it too.
CompletedOnce == \A c \in Clients : at[c] \in {"Called", "Complete"} <=> c \in owned

\* An application waits for a request that has been presented to the driver.
Waiting(c) == c \in owned

\* A device that is told to leave the working state does: "the framework waits
\* until the specified request is complete" (Queue.c:191), and it will be,
\* because EvtIoStop is for requests "guaranteed to complete in a small amount
\* of time" (Queue.c:189).
PowerDownEnds == \A d \in Devices : pnp[d] = "Stopping" ~> pnp[d] = "LowPower"

\* What exists when: the tracing while there is a driver, a device while the
\* driver is loaded, its queue from the end of EvtDeviceAdd to its removal.
DevicePhases ==
    /\ tracing <=> loader # "Unloaded"
    /\ \A d \in Devices :
          /\ pnp[d] # "Absent" => loader = "Loaded"
          /\ d \in queue <=> pnp[d] \in {"Added", "Working", "Stopping", "LowPower"}

\* The inductive invariant of the proofs.
IInv == TypeOK /\ DevicePhases /\ RequestsHaveQueue /\ CompletedOnce
=============================================================================
