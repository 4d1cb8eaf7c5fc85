--------------------------- MODULE ControlDevice ----------------------------
(***************************************************************************)
(* EmptyKMDFDriver: a framework driver without hardware.  Its DriverEntry  *)
(* makes a control device, a sequential queue and a symbolic link, one     *)
(* call at a time, and each of the calls may fail; its callbacks complete  *)
(* every request they are given.                                           *)
(*                                                                         *)
(* The framework is external.  It opens the device to applications when    *)
(* WdfControlFinishInitializing is called, keeps the requests of the       *)
(* default queue in the order of their arrival and presents one of them at *)
(* a time, and deletes the objects it has created once DriverEntry has     *)
(* failed or the driver is unloaded, when no handle is open.  The          *)
(* WDFDEVICE_INIT is not such an object: WdfDeviceCreate takes it when it  *)
(* succeeds, and otherwise its owner frees it.                             *)
(***************************************************************************)
EXTENDS Naturals, Sequences

CONSTANTS
    Clients,      \* the applications that may open the device
    MaxInits      \* bound on the WDFDEVICE_INITs, for TLC

VARIABLES
    loader,       \* where DriverEntry is, or what it has returned
    safeMode,     \* *InitSafeBootMode > 0
    inits,        \* how many WDFDEVICE_INITs are allocated
    objects,      \* the framework's objects: driver, device, queue, link
    object,       \* is DriverDeviceObject not null?
    finished,     \* has WdfControlFinishInitializing been called?
    stopping,     \* has the driver been asked to stop?
    handle,       \* the handle of each application
    creating,     \* the applications EvtWdfDeviceFileCreate is running for
    queue,        \* the requests of the queue, by the application that sent them
    presented     \* is a callback running for the first of them?

entry == <<loader, safeMode, inits, objects, object, finished>>
requests == <<handle, creating, queue, presented>>
vars == <<entry, stopping, requests>>

LoaderPoint ==
    {"Unloaded", "DriverCreate", "InitAllocate", "AssignName", "DeviceCreate",
     "QueueCreate", "FinishInitializing", "GetDeviceObject", "CreateSymbolicLink",
     "Loaded", "Failed"}
Objects == {"driver", "device", "queue", "link"}

Init ==
    /\ loader = "Unloaded"
    /\ safeMode \in BOOLEAN
    /\ inits = 0
    /\ objects = {} /\ object = FALSE /\ finished = FALSE
    /\ stopping = FALSE
    /\ handle = [c \in Clients |-> "None"]
    /\ creating = {}
    /\ queue = <<>> /\ presented = FALSE

-----------------------------------------------------------------------------
(* DriverEntry.                                                            *)

Goes(from, to) ==
    /\ loader = from
    /\ loader' = to

\* A call of the framework that creates an object, or fails; the break and the
\* early returns of DriverEntry free nothing.
Creates(from, to, o) ==
    \/ Goes(from, to) /\ objects' = objects \cup {o}
    \/ Goes(from, "Failed") /\ UNCHANGED objects

\* The system calls DriverEntry, which refuses to run in safe mode.
Load ==
    /\ ~safeMode
    /\ Goes("Unloaded", "DriverCreate")
    /\ object' = FALSE
    /\ UNCHANGED <<safeMode, inits, objects, finished, stopping, requests>>

WdfDriverCreate ==
    /\ Creates("DriverCreate", "InitAllocate", "driver")
    /\ UNCHANGED <<safeMode, inits, object, finished, stopping, requests>>

WdfControlDeviceInitAllocate ==
    /\ inits < MaxInits
    /\ \/ Goes("InitAllocate", "AssignName") /\ inits' = inits + 1
       \/ Goes("InitAllocate", "Failed") /\ UNCHANGED inits
    /\ UNCHANGED <<safeMode, objects, object, finished, stopping, requests>>

WdfDeviceInitAssignName ==
    /\ Goes("AssignName", "DeviceCreate") \/ Goes("AssignName", "Failed")
    /\ UNCHANGED <<safeMode, inits, objects, object, finished, stopping, requests>>

\* Mutant: applications may open the device before it has a queue.
WdfDeviceCreateFinished ==
    /\ Goes("DeviceCreate", "QueueCreate")
    /\ objects' = objects \cup {"device"}
    /\ finished' = TRUE
    /\ inits' = inits - 1
    /\ UNCHANGED <<safeMode, object, stopping, requests>>

\* WdfDeviceCreate frees the WDFDEVICE_INIT and sets the pointer to NULL, when
\* it succeeds.
WdfDeviceCreate ==
    /\ Creates("DeviceCreate", "QueueCreate", "device")
    /\ inits' = IF loader' = "Failed" THEN inits ELSE inits - 1
    /\ UNCHANGED <<safeMode, object, finished, stopping, requests>>

WdfIoQueueCreate ==
    /\ Creates("QueueCreate", "FinishInitializing", "queue")
    /\ UNCHANGED <<safeMode, inits, object, finished, stopping, requests>>

WdfControlFinishInitializing ==
    /\ Goes("FinishInitializing", "GetDeviceObject")
    /\ finished' = TRUE
    /\ UNCHANGED <<safeMode, inits, objects, object, stopping, requests>>

\* Without a device object the loop is left with the status of WdfIoQueueCreate,
\* which is a success.
WdfDeviceWdmGetDeviceObject ==
    /\ \/ Goes("GetDeviceObject", "CreateSymbolicLink") /\ object' = TRUE
       \/ Goes("GetDeviceObject", "Loaded") /\ object' = FALSE
    /\ UNCHANGED <<safeMode, inits, objects, finished, stopping, requests>>

WdfDeviceCreateSymbolicLink ==
    /\ Creates("CreateSymbolicLink", "Loaded", "link")
    /\ UNCHANGED <<safeMode, inits, object, finished, stopping, requests>>

-----------------------------------------------------------------------------
(* The framework and the applications.                                     *)

Stop ==
    /\ loader = "Loaded"
    /\ stopping' = TRUE
    /\ UNCHANGED <<entry, requests>>

\* DriverUnload, which is empty, and the deletion of the framework's objects.
DriverUnload ==
    /\ \/ loader = "Loaded" /\ stopping
       \/ loader = "Failed"
    /\ \A c \in Clients : handle[c] = "None" /\ c \notin creating
    /\ loader' = "Unloaded"
    /\ objects' = {}
    /\ finished' = FALSE
    /\ stopping' = FALSE
    /\ UNCHANGED <<safeMode, inits, object, requests>>

\* The device can be opened by its own name before it has a link.
OpenDevice(c) ==
    /\ finished /\ loader # "Failed" /\ ~stopping
    /\ handle[c] = "None" /\ c \notin creating
    /\ creating' = creating \cup {c}
    /\ UNCHANGED <<entry, stopping, handle, queue, presented>>

CloseHandle(c) ==
    /\ handle[c] = "Open"
    /\ \A i \in 1..Len(queue) : queue[i] # c
    /\ handle' = [handle EXCEPT ![c] = "None"]
    /\ UNCHANGED <<entry, stopping, creating, queue, presented>>

\* ReadFile, WriteFile, DeviceIoControl, or another request, which the caller
\* waits for.
Send(c) ==
    /\ handle[c] = "Open"
    /\ \A i \in 1..Len(queue) : queue[i] # c
    /\ queue' = Append(queue, c)
    /\ UNCHANGED <<entry, stopping, handle, creating, presented>>

\* The sequential queue presents its first request when the one before it has
\* been completed.
Present ==
    /\ queue # <<>> /\ ~presented
    /\ presented' = TRUE
    /\ UNCHANGED <<entry, stopping, handle, creating, queue>>

-----------------------------------------------------------------------------
(* The callbacks of IO.cpp.                                                *)

EvtWdfDeviceFileCreate(c) ==
    /\ c \in creating
    /\ creating' = creating \ {c}
    /\ handle' = [handle EXCEPT ![c] = "Open"]
    /\ UNCHANGED <<entry, stopping, queue, presented>>

\* EvtWdfIoQueueRead, EvtWdfIoQueueWrite, EvtIoDeviceControl or, for the rest,
\* EvtWdfIoQueueIoDefault: WdfRequestComplete.
EvtIo ==
    /\ presented
    /\ presented' = FALSE
    /\ queue' = Tail(queue)
    /\ UNCHANGED <<entry, stopping, handle, creating>>

-----------------------------------------------------------------------------
(* The specification.                                                      *)

DriverEntry ==
    \/ WdfDriverCreate \/ WdfControlDeviceInitAllocate \/ WdfDeviceInitAssignName
    \/ WdfDeviceCreate \/ WdfIoQueueCreate \/ WdfControlFinishInitializing
    \/ WdfDeviceWdmGetDeviceObject \/ WdfDeviceCreateSymbolicLink

Next ==
    \/ Load \/ DriverEntry
    \/ Stop \/ DriverUnload
    \/ \E c \in Clients :
          OpenDevice(c) \/ CloseHandle(c) \/ Send(c) \/ EvtWdfDeviceFileCreate(c)
    \/ Present \/ EvtIo

Spec == Init /\ [][Next]_vars

-----------------------------------------------------------------------------
(* Properties.                                                             *)

TypeOK ==
    /\ loader \in LoaderPoint
    /\ safeMode \in BOOLEAN
    /\ inits \in 0..MaxInits
    /\ objects \subseteq Objects
    /\ object \in BOOLEAN /\ finished \in BOOLEAN /\ stopping \in BOOLEAN
    /\ handle \in [Clients -> {"None", "Open"}]
    /\ creating \subseteq Clients
    /\ queue \in Seq(Clients)
    /\ presented \in BOOLEAN

\* No application is let in before the device has its queue, and a callback runs
\* for a request that is there: from the moment applications can open the
\* device, on every path through DriverEntry, until the objects are deleted.
CallbacksHaveQueue ==
    /\ (\E c \in Clients : c \in creating \/ handle[c] = "Open") =>
           {"driver", "device", "queue"} \subseteq objects
    /\ queue # <<>> => \A i \in 1..Len(queue) : handle[queue[i]] = "Open"
    /\ presented => queue # <<>>

\* A DriverEntry that reports success has made its symbolic link, unless the
\* framework had no device object for it.
LinkedUnlessNoObject == loader = "Loaded" /\ "link" \notin objects => ~object

\* An application waits for its open, or for a request in the queue and thereby
\* for those before it.
Waiting(c) == c \in creating \/ \E i \in 1..Len(queue) : queue[i] = c

\* What exists when: DriverEntry makes its objects in this order, and lets
\* applications in when all that their requests need is there.
EntryPhases ==
    /\ loader \in {"Unloaded", "DriverCreate"} => objects = {} /\ ~finished
    /\ loader \in LoaderPoint \ {"Unloaded", "DriverCreate", "Failed"} => "driver" \in objects
    /\ loader \in {"QueueCreate", "FinishInitializing"} => "device" \in objects
    /\ loader = "FinishInitializing" => "queue" \in objects
    /\ loader \in {"GetDeviceObject", "CreateSymbolicLink", "Loaded"} => finished
    /\ finished => {"driver", "device", "queue"} \subseteq objects
    /\ loader \in {"AssignName", "DeviceCreate"} => inits > 0
    /\ stopping => loader = "Loaded"
    /\ ~finished => creating = {} /\ \A c \in Clients : handle[c] = "None"

\* The inductive invariant of the proofs.
IInv == TypeOK /\ EntryPhases /\ CallbacksHaveQueue /\ LinkedUnlessNoObject
=============================================================================
