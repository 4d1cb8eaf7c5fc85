------------------------------ MODULE Drivers -------------------------------
(***************************************************************************)
(* The drivers of the repository that applications open: FilterDriver and  *)
(* NetworkFilterDriver2 with their device (FilterDevice), EmptyKMDFDriver  *)
(* (ControlDevice), WDFTestDriver (TestDevice) and PriorityBooster.  One   *)
(* of them is installed on a machine and is loaded, used, stopped and      *)
(* loaded again there; what all of them promise to the system and to their *)
(* applications is stated once, below.                                     *)
(*                                                                         *)
(* The state of PriorityBooster is this module's own; of the others, what  *)
(* they have in common with it (the loader, the device, the handles) has   *)
(* the same variables.                                                     *)
(***************************************************************************)
EXTENDS PriorityBooster, Sequences

CONSTANTS
    Devices, NoDevice,   \* of TestDevice
    MaxInits             \* of ControlDevice

ASSUME NoDeviceIsNone == NoDevice \notin Devices
ASSUME MaxInitsIsNatural == MaxInits \in Nat

VARIABLES
    installed,                                              \* the driver
    registered, signature, irp, dispatched,                 \* of FilterDevice
    safeMode, inits, objects, object, finished,             \* of ControlDevice
    creating, queue, presented,
    tracing, pnp, queues, point, sentTo, owned, stopped     \* of TestDevice

Filter == INSTANCE FilterDevice WITH CompletesIoctl <- FALSE
Filter2 == INSTANCE FilterDevice WITH CompletesIoctl <- TRUE
Empty == INSTANCE ControlDevice
Test == INSTANCE TestDevice WITH at <- point, device <- sentTo, queue <- queues

Drivers == {"FilterDriver", "NetworkFilterDriver2", "EmptyKMDFDriver",
            "WDFTestDriver", "PriorityBooster"}

boosterOnly == <<link, request, buffer, threads>>
filterOnly == <<registered, signature, irp, dispatched>>
emptyOnly == <<safeMode, inits, objects, object, finished, creating, queue, presented>>
testOnly == <<tracing, pnp, queues, point, sentTo, owned, stopped>>
machine == <<installed, vars, filterOnly, emptyOnly, testOnly>>

\* The inputs of a driver that is not installed do not matter.
InitAll ==
    /\ installed \in Drivers
    /\ Init /\ Filter!Init /\ Empty!Init /\ Test!Init
    /\ installed # "PriorityBooster" =>
          /\ buffer = [c \in Clients |-> CHOOSE data \in ThreadData : TRUE]
          /\ priority = [t \in Threads |-> CHOOSE p \in ValidPriorities : TRUE]
    /\ installed # "EmptyKMDFDriver" => safeMode = FALSE

\* A step of one driver leaves the state of the others alone.
Booster(A) ==
    /\ installed = "PriorityBooster" /\ A
    /\ UNCHANGED <<installed, filterOnly, emptyOnly, testOnly>>

FilterDriver(name, A) ==
    /\ installed = name /\ A
    /\ UNCHANGED <<installed, boosterOnly, emptyOnly, testOnly>>

EmptyDriver(A) ==
    /\ installed = "EmptyKMDFDriver" /\ A
    /\ UNCHANGED <<installed, boosterOnly, device, filterOnly, testOnly>>

TestDriver(A) ==
    /\ installed = "WDFTestDriver" /\ A
    /\ UNCHANGED <<installed, boosterOnly, device, stopping, handle, filterOnly, emptyOnly>>

NextAll ==
    \/ Booster(Next)
    \/ FilterDriver("FilterDriver", Filter!Next)
    \/ FilterDriver("NetworkFilterDriver2", Filter2!Next)
    \/ EmptyDriver(Empty!Next)
    \/ TestDriver(Test!Next)

SpecAll == InitAll /\ [][NextAll]_machine

\* DriverEntry, DriverUnload and what the system does for them.
Loading ==
    \/ Booster(LoaderStep)
    \/ FilterDriver("FilterDriver", Filter!LoaderStep)
    \/ FilterDriver("NetworkFilterDriver2", Filter2!LoaderStep)
    \/ EmptyDriver(Empty!DriverEntry \/ Empty!DriverUnload)
    \/ TestDriver(Test!LoaderStep)

\* The routines of the driver at work on a request of one application.
Serving(c) ==
    \/ Booster(RequestStep(c))
    \/ FilterDriver("FilterDriver", Filter!Dispatch(c) \/ Filter!LastReference(c))
    \/ FilterDriver("NetworkFilterDriver2", Filter2!Dispatch(c) \/ Filter2!LastReference(c))
    \/ EmptyDriver(Empty!EvtWdfDeviceFileCreate(c))
    \/ TestDriver(Test!WDFTestDriverEvtIoDeviceControl(c))

\* Code that has been called goes on; the framework presents the requests of a
\* queue and lets a device go that has none; PriorityBoosterClient ends.
FairSpecAll ==
    /\ SpecAll
    /\ WF_machine(Loading)
    /\ \A c \in Clients : WF_machine(Serving(c)) /\ WF_machine(Booster(Exit(c)))
    /\ WF_machine(EmptyDriver(Empty!Present \/ Empty!EvtIo))
    /\ \A d \in Devices : WF_machine(TestDriver(Test!Stopped(d)))

-----------------------------------------------------------------------------
(* What every driver promises.                                             *)

FilterInstalled == installed \in {"FilterDriver", "NetworkFilterDriver2"}

\* A driver is there as a whole or not at all.  One that DriverEntry reports
\* loaded has made everything that leads to it, but for EmptyKMDFDriver without
\* a device object, which has no link then; one that is not loaded, whichever
\* call of DriverEntry has failed, has left no registration, no link, no
\* tracing, no handle and no request behind.  Not promised: PriorityBooster
\* keeps the device when its link cannot be created (main.cpp:54), and
\* EmptyKMDFDriver its WDFDEVICE_INIT (Driver.cpp:86).
AllOrNothing ==
    CASE installed = "PriorityBooster" ->
            /\ UnloadLeavesNothing /\ LinkLeadsToDevice
            /\ loader = "Loaded" => link
            /\ loader = "Failed" => ~link /\ \A c \in Clients : handle[c] # "Open"
      [] FilterInstalled ->
            /\ Filter!UnloadLeavesNothing
            /\ loader = "Loaded" => registered /\ device /\ signature
      [] installed = "EmptyKMDFDriver" ->
            /\ Empty!LinkedUnlessNoObject
            /\ loader = "Unloaded" => queue = <<>> /\ creating = {}
      [] installed = "WDFTestDriver" ->
            Test!UnloadStopsTracing

\* What the driver's routines use is there whenever they can be called, from the
\* moment the device can be opened, while DriverEntry may still fail, until the
\* last call has returned: the signature that FilterDeviceIoControl asserts
\* (once DriverEntry has returned), the queue of a request, and the tracing.
CallbacksPrepared ==
    CASE installed = "PriorityBooster" ->
            \A c \in Clients : at[c] \notin {"Idle", "Done"} => device /\ loader = "Loaded"
      [] FilterInstalled -> Filter!SignatureOfLoaded
      [] installed = "EmptyKMDFDriver" -> Empty!CallbacksHaveQueue
      [] installed = "WDFTestDriver" -> Test!RequestsHaveQueue /\ Test!TracesWhileTracing

\* No request is completed twice or, but for device control requests of the
\* filter drivers, dropped by its routine; a request that is dropped keeps its
\* handle open and the driver loaded.
RequestsOwned ==
    /\ installed = "FilterDriver" => Filter!OnlyIoctlsAreLost
    /\ installed = "NetworkFilterDriver2" => Filter2!OnlyIoctlsAreLost
    /\ installed = "WDFTestDriver" => Test!CompletedOnce

\* Is a request of the application in the hands of the driver?
WaitsForDriver(c) ==
    CASE installed = "PriorityBooster" -> Waiting(c)
      [] installed = "FilterDriver" -> Filter!Waiting(c)
      [] installed = "NetworkFilterDriver2" -> Filter2!Waiting(c)
      [] installed = "EmptyKMDFDriver" -> Empty!Waiting(c)
      [] installed = "WDFTestDriver" -> Test!Waiting(c)

\* Every request an application waits for is completed, but for those that are
\* dropped: whatever a client of PriorityBooster writes to its buffer meanwhile,
\* and however many requests are before it in the sequential queue of
\* EmptyKMDFDriver.
RequestsComplete == \A c \in Clients : WaitsForDriver(c) ~> ~WaitsForDriver(c)

\* If the applications close their handles in the end, a driver that is asked to
\* stop, or whose DriverEntry has failed while the device was open, is unloaded;
\* and a device of WDFTestDriver that is told to leave the working state does.
StopsEnd ==
    /\ (\A c \in Clients : []<>(handle[c] = "None")) =>
          (stopping \/ (installed = "EmptyKMDFDriver" /\ loader = "Failed")
              ~> loader = "Unloaded")
    /\ Test!PowerDownEnds

-----------------------------------------------------------------------------
(* The inductive invariant of the proofs.                                  *)

\* PriorityBooster does nothing to threads where it is not installed.
BoosterAtRest ==
    /\ \A c \in Clients : at[c] = "Idle" /\ thread[c] = NoThread
    /\ \A t \in Threads : references[t] = 0

DriversInv ==
    /\ installed \in Drivers
    /\ IF installed = "PriorityBooster" THEN IInv ELSE BoosterAtRest
    /\ installed = "FilterDriver" => Filter!IInv
    /\ installed = "NetworkFilterDriver2" => Filter2!IInv
    /\ installed = "EmptyKMDFDriver" => Empty!IInv
    /\ installed = "WDFTestDriver" => Test!IInv
=============================================================================
