# A verification of basic-windows-drivers

TLA+ models of the drivers of this repository and of the program that configures one of them, the TLC
runs that check the models on small instances, and TLAPS proofs of their safety properties for every
value of the constants. Source paths are relative to `src/src/`; line numbers refer to the files as
they are.

Contents: [1 Inventory](#1-inventory) · [2 Models](#2-models-and-how-they-follow-the-code) ·
[3 Runs](#3-runs) · [4 Fairness](#4-fairness) · [5 Assumptions](#5-what-is-assumed-of-the-environment) ·
[6 Proofs](#6-proofs) · [7 Findings](#7-findings) · [8 Not modelled](#8-what-is-not-modelled) · [9 Plan](#9-plan)

## 1 Inventory

The repository is a collection of Windows drivers, not one system. Two groups carry logic of their
own: **FilterDriver**, an NDIS lightweight filter, and the pair **WFPController** (user mode) and
**WPFCalloutDriver** (kernel mode), which meet in the Windows Filtering Platform. The others are smaller:
drivers that applications open and send requests to, and the library classes of WFPController.

| Component | State | Operations | Hard behaviour | What makes it correct |
|---|---|---|---|---|
| FilterDriver, one filter module (`FilterDriver/main.cpp:10-758`, `NfdCore.hpp:89-140`) | `MS_FILTER`: `State`, `OutstandingSends`, `OutstandingRcvs`, `Lock` | `FilterAttach`, `FilterRestart`, `FilterPause`, `FilterDetach`; `FilterSendNetBufferLists`, `...Complete`, `FilterReceiveNetBufferLists`, `FilterReturnNetBufferLists` | handlers run on all processors at once, also against a pause; state is checked in one critical section and used after it; lent packets; the debug and the release build differ | no packet lost, doubled or kept; the counters exact; nothing touches a context that is gone; a pause succeeds |
| FilterDriver, the driver (`FilterDriver/main.cpp:1-8, 80-301, 789-820, 1097-1201`) | `FilterModuleList`, `FilterListLock`, the driver and device handles | `DriverEntry` with its failure paths, `DriverUnload`, insertion and removal of a module | modules of several adapters come and go at once, before `DriverEntry` has returned and while it fails | the list is one ring of live modules; the lock is used only while it exists; nothing is left behind |
| FilterDriver and NetworkFilterDriver2, the device (`FilterDriver/main.cpp:775-787, 822-948`, `NetworkFilterDriver2/main.cpp`) | driver registration, device handle, device extension, the IRPs of open handles | `DriverEntry`, `FilterRegisterDevice`, `FilterDispatch`, `FilterDeviceIoControl`, `DriverUnload` | the device can be opened while `DriverEntry` is still at work and may fail; FilterDriver never completes an IOCTL, NetworkFilterDriver2 not always | nothing is left behind; only those IRPs are lost; a request finds the extension filled in |
| FilterDriver, options and events (`main.cpp:855-874, 950-1095`) | none | `FilterRegisterOptions`, `FilterSetModuleOptions`, `FilterDevicePnPEventNotify` | none | – |
| WFPController, engine (`WFPController/main.cpp`, `WindowsFilteringPlatform/`) | the session (`m_engineHandle`, shared), four `Callout` objects with a session and an id each; in the Base Filtering Engine (BFE): provider, context, sublayer, callouts, filters | the commands `open`, `register`, `context`, `sublayer`, `callouts`, `filter`, `all`, `close`, `exit` | each command is several calls of BFE, each of which can fail; sessions are shared by reference counts; several controllers use the same keys; the process can be killed | filtering ends when it is told to; no objects without a session; no controller disturbs another |
| WFPController, sockets (`WinSock/wfpcontroller.winsock.socket.cpp`) | the handle, address family and TTL of each `Socket` | `Connect`, `SetPreconnectTTL`, `SetSocketTTL`, move, close | every call can fail in the middle of the loop over the addresses, and throws; values of closed handles are used again | every open socket has one owner; a connection has the TTL asked for |
| WFPController, strings (`Strings/`) | none | `TokeniseString`, `Replace`, `Erase`, `ConvertString` | adjacent, overlapping, leading and trailing delimiters; empty ones | no character lost; the functions agree with each other; the loops end |
| WFPController, errors (`Error/`), `WinSockInit` | none | message formatting; `WSAStartup`, `WSACleanup` | none | – |
| WPFCalloutDriver (`WPFCalloutDriver/src/`) | device object, the callouts registered with the filter engine, the global `matchedPort` | `DriverEntry`, `DriverUnload`, `RegisterAllCallouts`, `UnregisterAllCallouts`, five classify functions | classify functions run on all processors while the driver unloads; a global shared without a lock; five registrations and five unregistrations, each of which can fail | a callout outlives its driver only where a call has failed that would have registered or unregistered one; a reported port is a watched one |
| NetworkFilterDriver2, the module handlers (`FilterCallbacks.cpp`) | none | four handlers that return success | none | – |
| EmptyKMDFDriver | `WDFDEVICE_INIT`, device, sequential queue, link | `DriverEntry`, file creation, queue callbacks, `DriverUnload` | failure paths of `DriverEntry`, one of which reports success; the device is open before `DriverEntry` has returned | callbacks have what they need; every request is completed; the driver can be stopped |
| WDFTestDriver | WPP tracing, devices, a parallel queue each | `DriverEntry`, `EvtDeviceAdd`, `EvtIoDeviceControl`, `EvtIoStop`, cleanup | requests at once, against power transitions, removal and the end of the tracing | every request completed once; tracing only while it is initialised; a device can leave the working state |
| KmdfHelloWorld | none | `DriverEntry`, `EvtDeviceAdd` | none | – |
| PriorityBooster, PriorityBoosterClient | device, symbolic link, references to thread objects | load, unload, one IOCTL | the request is METHOD_NEITHER: the client can write to it while it is read; threads exit at any time; failure paths | references balanced; a well-behaved client sets checked priorities |
| SampleWdmDriver | `IntList`, a list of lists | `AddTrunkEntry`, `AddBranchEntry`, `DeleteTrunkEntry`, `Destroy` | the list head is never initialised; searches outside the lock | lists stay rings |
| ProtoDriver | – | a project file without source | – | – |

How they interact:

- *FilterDriver* is called by NDIS. The module handlers share `MS_FILTER` under `pFilter->Lock`;
  attach, detach and unload share `FilterModuleList` under `FilterListLock`. Packets
  (`NET_BUFFER_LIST`s) travel from the protocol above to the miniport below and back, or the reverse,
  and change hands at each call.
- *FilterDriver, NetworkFilterDriver2, EmptyKMDFDriver, WDFTestDriver* and *PriorityBooster* are called by
  the I/O manager or the framework for the requests of applications, on several processors and against
  loading, stopping and power transitions. They do not interact with each other.
- *WFPController* adds filters to BFE that name the callouts of *WPFCalloutDriver* by key; from then
  on the filter engine calls the classify functions of that driver. The provider context added by
  `AddContext` holds the controller's process id (`wfpcontroller.wfp.cpp:85`); the classify functions compare
  it with the process id of the packet. There is no other channel between the two. The command `connect` of
  WFPController uses `Socket`, and `Socket` uses `ConvertString`; neither shares state with the engine.

`PROJECT.json` lists every component and, under `hazards`, each hard behaviour at its line.

## 2 Models and how they follow the code

`MC*.tla` only add a symmetry set for TLC, and runs without symmetry name the module itself; `*_proofs.tla` hold theorems (section 6). In each module an
operator that is a deliberately wrong variant of a definition is marked `Mutant:`. No specification
uses those; they are substituted for the definition to see that a property notices.

### FilterModule, with PassThrough as its abstract specification

| Model | Code |
|---|---|
| `State`, `OutstandingSends`, `OutstandingRcvs` | the fields of `MS_FILTER`; counters are ULONGs, modulo `Modulus` |
| `Lock` | the owner of `pFilter->Lock` |
| `pnp` | where NDIS's PnP thread is: between two entry points, or in `FilterPause` |
| `pc`, `chain`, `canPend`, `ref` | for each call of a datapath handler: its next step, its `NetBufferLists` argument, `NDIS_TEST_RECEIVE_CAN_PEND`, and the counter value it has loaded |
| `where` | who holds each packet: `Upper`, `Lower`, `Filter`, or `Lent` for a receive indicated with the RESOURCES flag |

A handler is one step for each critical section and one for each call out into NDIS. A section that
updates a counter is cut once more, into load (`AcquireLock`) and store (`StoreSends`, `StoreRcvs`), so
that the lock is what makes `+=` atomic and not the model. The order is the code's: sends are counted
before they are passed on (main.cpp:562-583), completions are uncounted before they are passed up
(:504-513), receives are counted before they are indicated (:675-683), but `FilterReturnNetBufferLists`
returns first and uncounts afterwards (:746-757).

`DBG` selects the build: only with `#if DBG` do the handlers look at `State` at all. `TrackSends` and
`TrackReceives` are set to TRUE by `FilterAttach` (:197-198) and changed only in a branch of `FilterSetModuleOptions`
that is guarded by `if (bFalse)` (:969), so their tests are folded in. Flags that only tell the
dispatch level are left out. `FilterRestart` succeeds whatever the configuration says, as in the code.
The three states the enumeration declares and nothing assigns are in the type only.

`PassThrough` is what a filter module promises for one direction, seen from outside: a packet goes
`Home → Entered → Admitted → Away → Leaving → Home`, or `Home → Entered → Refused → Home`. With `Checked`, admission
needs a running module and refusal one that does not run; without it nothing is ever refused.
`SendPath` and `ReceivePath` instantiate it with the mapping `StageOf` (stage of a packet from its holder and from the point of
the call that holds it) and `IsRunning`. In the release build admission is the
counting itself.

### FilterDriver

| Model | Code |
|---|---|
| `lockReady`, `lockOwner` | `FilterListLock`: between `FILTER_INIT_LOCK` and `FILTER_FREE_LOCK`; its owner |
| `Flink`, `Blink` | the links of `FilterModuleList` (`ListHead`) and of every context; `Garbage` if never written |
| `allocated` | contexts allocated and not freed |
| `apc`, `next`, `prev` | for each adapter, where `FilterAttach` or `FilterDetach` is, and the links its critical section has loaded |
| `loader` | where `DriverEntry` or `DriverUnload` is |
| `registered`, `device` | `FilterDriverHandle` registered, `NdisFilterDeviceHandle` not NULL |

`InsertHeadList` and `RemoveEntryList` are two steps each, under the lock: one that loads the links the
operation needs, and one with all of its stores, four or two. `DriverEntry` has its three failures (registration, device, and the deregistration
that follows the second), `DriverUnload` the `#if DBG` section with the `ASSERT`. FilterModule models what
happens to a module between the attach and the detach that appear here.

### WFPController

| Model | Code |
|---|---|
| `pc`, `at`, `command` | where a controller process is, the callout or filter it has come to, whether it runs one step, `all`, or is on its way out |
| `engine`, `handle` | `WFPEngine::m_engineHandle` and the `m_engineHandle` of each `Callout`: the `shared_ptr`s that keep a session open |
| `added` | the `Callout`s with `m_calloutId # 0` |
| `objects` | BFE's objects, each with the session it was added through |

The actions are the functions of `WFPEngine` and `Callout`, one step per call of BFE. `OpenFilterEngine` replaces the
session while callouts may still share the old one. `ReplaceCallout` is the move assignment in
`Add*Callout`, whose `Move` first removes the callout that is replaced; `AddCallout` is `Callout::Add`.
`Throw` follows an exception to where `main` catches it, outside its loop, which destroys the engine:
`~WFPEngine` calls `Close` and then the members' destructors run in reverse order of declaration (`DestroyOrder`).
`Kill` ends a process at any point. `AddInboundIPv4PacketCallout` is empty in the code. The flags
`m_addedProvider` and `m_addedSublayer` and the filter ids are written and never read, so they are left out.

### CalloutDriver

| Model | Code |
|---|---|
| `loader`, `at` | where `DriverEntry` or `EvtDriverUnload` is, and the callout it has come to |
| `deviceInit`, `device` | a `PWDFDEVICE_INIT` to free, `DriverDeviceObject` not null |
| `registered` | the callouts the filter engine knows |
| `leftBehind` | history: the callouts that an earlier load or unload has left registered |
| `matchedPort` | the global of that name |
| `call` | the classify calls in progress: callout, local port, process id of the packet, process id in the filter's provider context |
| `sent`, `reported` | history: ports a watched process has sent from since the load, and ports reported as matched |

`Inbound::TCP::ClassifyFn` reads `matchedPort` twice without a lock (Callouts.cpp:156, the test for zero and the
comparison), and `Outbound::TCP::ClassifyFn` writes it (:206), hence `ClassifyInboundTCP` and `CompareInboundTCP`. Reading and writing an aligned 16-bit
global is one access on the processors the driver is built for. An unregistration that succeeds is `UnregisterCallout`
(no more calls are let in) and `CalloutDrained` (those in progress have returned). One that fails is logged by
`UnregisterAllCallouts`, which goes on to the next callout and returns `STATUS_SUCCESS` (Callouts.cpp:9-31): the callout stays
registered when the driver is gone, and its key is in the way of the next load, whose `RegisterAllCallouts` stops there. `Refusable`
bounds, for TLC, the callouts whose unregistration can fail; the theorems hold for any.

### FilterEngine and Filtering

`FilterEngine` is what controllers promise about BFE, and all that another program can see of them: `owner`, the process
that keeps each session open, and `objects`, each with its session. A process opens and closes sessions, adds objects to its own, whose
references are there already, and removes its own objects only. `WFPController` implements it under the mapping in its `Engine ==
INSTANCE ...`: the owner of a session is the process one of whose `shared_ptr`s holds it.

`Filtering` composes `FilterEngine` with `CalloutDriver` as it stands. A packet is classified by a callout that a filter of a live session
names, with the process id in that session's provider context (`ClassifyPacket`). A controller can be closed or killed while calls with its process id
are in progress.

### The drivers that applications open: FilterDevice, PriorityBooster, ControlDevice, TestDevice, Drivers

| Module | State | Code |
|---|---|---|
| `FilterDevice` | `loader`, `registered`, `device`, `signature` (the extension); `handle`, `irp`, `dispatched` for each application | FilterDriver with `CompletesIoctl` FALSE: its `FilterDeviceIoControl` has no `IoCompleteRequest`; NetworkFilterDriver2 with TRUE: it completes, except on the early return for a request without a file object |
| `PriorityBooster` | `loader`, `device`, `link`; for each client `handle`, `at`, `thread` (the local), `buffer` (its `ThreadData`), `rewritten`; `running`, `references`, `priority` of the threads | `DriverEntry`, `PriorityBoosterUnload`, `PriorityBoosterDeviceControl` with one step for each read of `data->`, and the client |
| `ControlDevice` (EmptyKMDFDriver) | `loader`, `safeMode`, `inits` (`WDFDEVICE_INIT`s allocated), `objects` of the framework, `object` (`DriverDeviceObject`), `finished`; `handle`, `creating`, `queue`, `presented` | `DriverEntry` call by call with each `break`, `EvtWdfDeviceFileCreate`, the callbacks of the sequential queue, which all complete their request (`EvtIo`), `DriverUnload` |
| `TestDevice` (WDFTestDriver) | `loader`, `tracing`; `pnp`, `queue` of each device; `at`, `device`, `owned`, `stopped` of each request | `DriverEntry` with WPP, `EvtDeviceAdd`, `EvtIoDeviceControl` in three steps (trace, complete, return), `EvtIoStop`, which takes no action, and the cleanup callback |

`Drivers` puts the four modules side by side, FilterDevice twice: a machine has one of the five drivers `installed`, which is loaded,
used, stopped and loaded again. It states once what all of them promise (`AllOrNothing`, `CallbacksPrepared`, `RequestsOwned`,
`RequestsComplete`, `StopsEnd`), in terms of the parts each module defines for itself.

### The library of WFPController: Socket, Strings, Library

| Module | State | Code |
|---|---|---|
| `Socket` | `alive`, `m_socket`, `m_addressFamily`, `m_preconnectTTL` of each object; `at`, `object`, `addresses`: where `Connect` is; `open`, `family`, `ttl`, `connected`, `unclosed`: WinSock's sockets | construction, `Close` and destruction, the move assignment, `SetPreconnectTTL`, `SetSocketTTL`, `Connect` with one step for each WinSock call, each of which can fail |
| `Strings` | `source`, `delimiter`, `to`; `tokenise`, `intermediateString`, `results`; `replace`, `lastPos`, `newString` | `TokeniseString` and `Replace`, one step for each iteration, and `Erase`; a string is a sequence over a small alphabet |

`Library` puts the two side by side, as they share no state.

## 3 Runs

| Run | Instance | Distinct states | Question |
|---|---|---|---|
| `filter_checked` | DBG, 2 calls, 2 + 2 packets, Modulus 8 | 351 365 | Are the counters exact, has every packet one holder, is a detach clean, do both directions implement PassThrough? |
| `filter_release` | not DBG, 3 calls, 1 + 1 packets | 148 016 | Is a packet accounted for that is indicated again while its last return is still to be uncounted, or, with the third call, its last two, and does the release build's send path, which refuses nothing, implement PassThrough? |
| `filter_live` | DBG, 2 calls, 1 + 1 packets, `DrainSpec` | 27 992 | Do packets move on, does a pause end with the counters drained? |
| `filter_pause_claim` | DBG, 2 calls, 1 + 1 packets | violated | Finding 1 |
| `driver_lifecycle` | DBG, 2 adapters, `FairSpec` | 7 380 | Is the list intact, the lock alive when used, nothing left behind, and do `DriverEntry` and `DriverUnload` end? |
| `controller_safety` | 2 controllers, 3 sessions | 87 548 | Does filtering end when it should, is `all` all or nothing, are others untouched, do both implement FilterEngine? |
| `controller_live` | 1 controller, 2 sessions, `FairSpec` | 4 097 | Does every command end? |
| `callout_safety` | 2 calls, 2 ports, 2 processes; unregistering the first and the last callout can fail | 2 265 941 | What do a load that fails and an unload leave registered, whichever calls fail, and what can be reported? |
| `callout_exit_claim` | 1 call, 1 port, 1 process | violated | Finding 2 |
| `filtering` | 2 controllers, 2 sessions, 2 calls, 1 port, filters for Outbound::TCP, whose unregistration can fail, `FairSpecAll` | 416 637 | Whose packets are watched while sessions come and go; does closing one end the watching, and does `DriverUnload` end under traffic that goes on? |
| `drivers` | each of 5 drivers, 2 applications, 2 devices, 1 thread, 2 `WDFDEVICE_INIT`s, `FairSpecAll` | 71 979 | Is each driver there as a whole or not at all, do its callbacks find what they use, is every request completed, can it be stopped? |
| `library` | 2 `Socket` objects, 2 handles, 2 addresses; strings up to 5, delimiters up to 2, `FairSpecAll` | 550 541 | Has every socket its owner, do the string functions agree with each other, do the loops end? |

The properties of each run are in its `.cfg` and explained where they are defined; those of `drivers` that
name one driver only (`ThreadsReferenced`, `SetsCheckedPriority`) are PriorityBooster's, those of `library` but for the last three Socket's.

*Why these bounds.* A lost update, a check used too late and a lock not taken need two actors; two
packets make chains of different length than the calls that carry them, so that counting calls and counting packets
differ. `Modulus` 8 is above the largest legal counter value and small enough that an underflow shows as a large value.
A doubly linked list is torn by two operations that overlap, which two adapters give; that a removal between two
other modules is sound as well is proved (`ListAlwaysIntact`, for any number of adapters). Two controllers and three sessions let
one controller replace its session while its callouts keep the old one and another process uses the same keys.
In `filtering` two sessions let a controller open its own while the other still filters, or replace its own, and two calls let one with the old context be
in progress when one with the new begins; `UsedCallouts` bounds the callouts to the one whose classify function writes `matchedPort`.
Two ports let `matchedPort` change between its two reads. In `callout_safety` the unregistration of the first and of the last callout can fail, so that
a failure is followed by successes and a success by a failure, and a later load finds its first key or its last one taken. In `drivers` two applications are what it takes for a
request to wait behind another in a queue, for two requests to refer to one thread, and for a handle to keep a driver that another
application has left; priorities 0, 31 and 32 are on both sides of each bound; two devices let one be removed while the other's callbacks trace. In
`library` two handles for two objects are so few that values are used again at once; a source of five and a delimiter of two
have every arrangement of leading, trailing, adjacent and overlapping delimiters; `MaxResults` is above what a delimiter
that is not empty can produce, and stops the growth for the empty one. The theorems of section 6 remove these bounds for
the safety properties; for liveness they remain.

Deadlock is checked in every run but two: in `drivers` applications may wait for ever for a request that FilterDriver has dropped, and in safe
mode EmptyKMDFDriver is never loaded; in `library` the functions return, and an empty delimiter runs into `MaxResults`.

## 4 Fairness

- *FilterModule `Fairness`*: a handler or a pause that is not waiting for the lock goes on (weak
  fairness), and an indication of a lent packet returns, since it is a function call. The lock is a spin
  lock without queue, so acquiring it needs strong fairness: it is free again and again because its
  sections do not block.
- *FilterModule `NeighboursFair`* (only `DrainSpec`): the miniport completes sends and the
  protocol returns receives. Without it no filter can drain; NDIS demands it of both.
- *FilterDriver*: code that is running goes on, strong fairness for the spin lock by adapters, and NDIS
  detaches the modules of a driver that deregisters. Nobody is obliged to attach, to detach otherwise, to load or to unload.
- *WFPController*: calls of BFE return. Users need not type anything and are not obliged to stop.
- *Filtering*: code of the callout driver that is running goes on; packets need not come, and controllers need do nothing.
- *Drivers*: entry points and routines that have been called go on, the framework presents the requests of a sequential queue one by one and
  lets a device leave the working state when no request is owned, and PriorityBoosterClient, once started, ends. Applications are not obliged to send or
  to close; `StopsEnd` is stated for behaviours in which they do close their handles in the end.
- *Library*: WinSock's functions return, and a function that has been called goes on.

## 5 What is assumed of the environment

Models of what is not in the repository, marked external in `PROJECT.json`:

- *NDIS and FilterModule.* Attach, restart, pause and detach come one at a time. Sends and receives
  are started between the end of the restart and the end of the pause (`DatapathOpen`); completions and
  returns come at any time. A paused module is detached only when both neighbours have their packets and no
  handler call is on a stack (`NdisDrained`). The miniport may complete packets in other chains than it was sent. A loan is
  back when its indication returns.
- `pFilter->Lock` is used without a call of `FILTER_INIT_LOCK`: the context is zeroed, which is what
  the initialisation of an NDIS spin lock does. The model starts with a free lock.
- *NDIS and FilterDriver.* Adapters can be attached as soon as the driver is registered;
  `NdisFDeregisterFilterDriver` starts no more attaches and returns when all modules are detached. The driver is not unloaded
  while a handle of its device is open.
- *BFE.* A key names one object; an object refers only to objects of its own dynamic session; a
  callout with a filter cannot be deleted; every call that adds can fail. A deletion by key is allowed to any session: that is more than BFE
  permits, so what holds here needs no access control. `FwpmEngineClose0` succeeds.
- *WFPController.* `connect` and `ttl` use no part of the engine; they return to the prompt or throw out of
  the loop, which is `exit` in the model.
- *Framework and filter engine, CalloutDriver.* A driver whose `DriverEntry` fails is removed without
  `EvtDriverUnload`. `FwpsCalloutUnregisterByKey0` fails, for any reason, and changes nothing, or lets no more calls in and waits for those in progress; for a callout that is not registered
  it fails. A key can be registered
  once. A callout that was left behind is called as if its code were still there: what happens otherwise is not
  for the model to say, and no property rests on it.

- *Filtering.* A packet is classified by a callout of the driver exactly when a filter names it and the filter's session has the provider
  context; calls that are in progress when a session closes go on.
- *I/O manager, FilterDevice and PriorityBooster.* A device can be opened from the moment it exists (for FilterDevice when
  `NdisRegisterDeviceEx` has created it; for PriorityBooster by its link, and only of a loaded driver) until the driver is asked to stop. A handle has
  one request at a time; `DriverUnload` is called when no handle is open; a
  driver whose `DriverEntry` fails is removed without it, and what it has left stays. A device control request may come from another driver, without a file
  object. Clients of PriorityBooster may write to their `ThreadData` at any time, from another thread; `PsLookupThreadByThreadId` gives a reference to a
  thread that is still running. PriorityBoosterClient ends after its one request.
- *Framework, ControlDevice and TestDevice.* Objects of a driver that fails or unloads are deleted by the framework when no handle is open; a
  `WDFDEVICE_INIT` that `WdfDeviceCreate` has not consumed is not. A sequential queue presents one request at a time in the order of arrival, a parallel one each request
  at once. Before a device leaves the working state `EvtIoStop` is called for what is presented, and the framework waits until that is completed, but not for the callback
  that has completed it to return. The driver object goes with the last device.
- *WinSock and Socket.* Every function can fail; the value of a closed handle may be given out again; `GetAddrInfoW` returns an address at least. Of what the class `Socket` offers
  two things are left out, `Connect` of an object that has a socket and the construction from another `Socket`; the move assignment is modelled. `main.cpp` does none of the
  three.

Constants have named assumptions (`ASSUME`) in the module that declares them: names are distinct, `DBG` is a Boolean,
the sets of FilterModule are finite, and the counters are wide enough (`CountersFit`: fewer packets, and fewer pairs of a
call and a receive, than a ULONG has values). PriorityBooster's clients are finitely many (`ClientsFinite`), so that references can be counted. Bounds
for TLC only: `MaxInits` of ControlDevice
(it leaks a `WDFDEVICE_INIT` with each failure), `MaxAddresses` of Socket, `MaxLength`, `MaxDelimiter` and `MaxResults` of Strings, `Refusable` of CalloutDriver, `UsedCallouts` of Filtering.

## 6 Proofs

Sixty-five theorems, in eight modules, for every value of the constants that meets the assumptions.
Every safety invariant and every action property of the runs is one of them.

| Module | Theorems |
|---|---|
| `FilterModule_proofs` | `TypeCorrect`, `PacketsHaveOneHolder`, `SendsCountedExactly`, `RcvsCountedExactly`, `CountersAreExact`, `ReturnAloneOutlivesPackets`, `DetachIsClean`; FilterModule implements PassThrough: `SendsPassThrough`, `PacketsPassThrough` |
| `FilterDriver_proofs` | `TypesHold`, `ContextsAlwaysOwned`, `ListAlwaysIntact`, `LockNeverUsedDead`, `UnloadAssertHolds`, `NothingOutlivesTheDriver` |
| `WFPController_proofs` | `TypesHold`, `CloseEnds`, `NothingOutlives`, `CalloutsAreTracked`, `OthersAreUntouched`, `AllOrNothing`, `OneFilters`; WFPController implements FilterEngine: `EngineImplemented` |
| `Filtering_proofs` | of CalloutDriver alone: `TypesHold`, `UnloadLeavesRefused`, `FailureIsPrefix`, `LoadedRegistersAll`, `EntryEndsEitherWay`, `ReportsAreWatched`; of the composition: `DriverImplemented`, `EngineImplemented`, `CallsForOneProcess` |
| `FilterDevice_proofs` | `Invariance`, `TypesHold`, `NothingLeft`, `OnlyIoctls`, `SignatureSet`, for both drivers |
| `Drivers_proofs` | of PriorityBooster alone: `Invariance`, `TypesHold`, `Balanced`, `ThreadExists`, `ThreadReferencesExact`, `LinkLeads`, `NothingLeft`, `SetsChecked`; of the machine with any of the drivers: `DriversInvariance`, `DriversAllOrNothing`, `DriversPrepared`, `DriversOwnRequests`, `DriversReference`, `DriversSetChecked` |
| `Strings_proofs` | `StringsInvariance`, `StringsTokens`, `StringsReplace`, for strings of any length |
| `Library_proofs` | of Socket alone: `Invariance`, `TypesHold`, `HeldByOne`, `NoneLost`, `FamilyKept`, `ReturnedIsConnected`, `SocketsHaveOwners`, `TTLBeforeConnection`; of the library: `LibrarySockets`, `LibraryTokens`, `LibraryReplace` |

Each module of the model has an inductive invariant `IInv` (`FilteringInv` and `DriversInv` in the compositions), stated at its end as a conjunction of
named parts; the proof has one lemma per part or per action, in it one step per action or part, and a last lemma or theorem `Invariance`:
`Spec => []IInv`. Each was checked by TLC on a small instance before it was proved.

- *FilterModule.* The counters alone are not inductive: a store writes what was loaded, so
  `LockHolder` says that what the owner of the lock has loaded is still the value of the counter, and that only an owner is between load
  and store. The counters are cardinalities of sets of packets, so every step is a set that grows or
  shrinks by a chain; that the chain is disjoint from (or inside) the set comes from `OneHolder`. `RcvsAccounted` adds pairs
  of a call and a packet (`ReturnsUncounted`), because a return uncounts packets that may be indicated again already.
  `CountersFit` turns the arithmetic modulo `Modulus` into that of the integers. `DetachedEmpty` carries
  `NdisDrained` from one attach to the next, and `ReleaseBuildChecksNothing` and `StateAsNdisKnows` fix what a call and
  a pause can find.
- *FilterModule implements PassThrough.* The stage of a packet is a function of the point of the one call that holds it (`StageOfHeld`), or
  of where it is if no call does (`StageOfFree`), and that there is one is `OneHolder`. So a call that enters, goes from point to
  point or ends moves just its chain (`EnterMoves`, `PointMoves`, `LeaveMoves`) by one step of PassThrough, or moves nothing, and the PnP thread only
  changes whether the module runs. In the checked build admission and refusal need what the critical section has read of `State`, in the same step; in
  the release build `ReleaseBuildChecksNothing` rules refusal out.
- *FilterDriver.* `ListIntact` is about pointers: `Blink` inverts `Flink` on the ring, and every set that
  contains the head and is closed under `Flink` is the whole ring. The last clause says there is only one ring without
  speaking of paths, and so needs no induction: an insertion or removal maps a closed set to
  a closed set. `ListLockHeld` says that the links the owner of the lock has loaded are still the current ones. `DriverPhases` ties
  lock, registration and device to the loader.
- *WFPController.* `ProcessInv` says at which points a process holds what: a callout with a session but no id exists
  only in the middle of `AddCallouts` or on the way out, and `Close` and the destructors have emptied the callouts before
  the one they have come to. `SessionsNotShared` and `KeysUnique` are why a deletion by key touches no other
  process: a `Callout` with an id names an object of its own session (`CalloutsTracked`), and the key has one object. `AllOrExit` rests on a second
  invariant, `AllInv`: what `all` has installed so far (`Installed`) is in the current session.
- *WFPController implements FilterEngine.* The refinement mapping takes the owner of a session from the `shared_ptr`s that hold it; from `IInv` every step of a
  process is an `Open`, an `Add` or a `Remove` of that process or a stutter. What makes it work is that `Deleted` reaches only callouts of the
  process's own session (`CalloutsTracked`, `KeysUnique`) to which no filter refers.
- *CalloutDriver.* `Registration` says that a load has added a prefix of `RegisterOrder` to what was left behind before it, and nothing twice, and that of the
  callouts an unload has come past those are registered whose unregistration failed: `UnloadLeavesRefused` follows at the end of the unload and `LoadedRegistersAll` at that of the
  load, since a callout left behind would have stopped it. `CallsInProgress` that a call is of a registered callout or of the one being
  drained; `MatchedPortSent` that `matchedPort` is zero or a port in `sent`, and that a call which compares has a port.
- *Filtering.* Every step of the composition is a step of CalloutDriver or leaves it alone, and the same of FilterEngine (`DriverImplemented`,
  `EngineImplemented`), so what is proved of either alone holds here. `ObjectsOwned` and `OneProvider` say that all objects of BFE are in the one
  session that has the provider, since whatever is added refers to it; hence there is one context at a time, whatever the number of controllers.
- *FilterDevice.* `DevicePhases` and `RequestPhases` say what exists at each point of `loader` and where a handle and its request can be;
  an abandoned request keeps its handle and so the driver.
- *PriorityBooster.* `ReferencesBalanced` equates a counter with a cardinality; a request that looks a thread up or lets it go adds or
  removes one element of a finite set. `RequestPhases` says what an untouched `ThreadData` has been checked for at each point.
- *Drivers.* `DriversInv` is the invariant of the driver that is installed, and for PriorityBooster's threads, which exist on every machine, that nobody
  refers to them where it is not. `EntryPhases` of ControlDevice follows `DriverEntry` call by call: what it has made at each point, that applications come in
  only when all of it is there, and that a `WDFDEVICE_INIT` is at hand where one is used. `DevicePhases` of TestDevice says which devices can have
  requests and callbacks at each point of the PnP thread and of the loader, so that the tracing outlives the callbacks that trace.
- *Socket.* `ConnectPhases` says which socket the object has while `Connect` runs; with it each of the other parts is
  preserved by each action, the reuse of a handle's value included, because only closed handles are given out.
- *Strings.* Both loops cut the source at the same positions. `Cuts` says what such a sequence of positions is: it starts with 0, and each next one is behind the
  delimiter found from the one before. `TokenisePhases` and `ReplacePhases` say that at each iteration `results` and `newString` are what these cuts
  make of the source. For TokeniseString that rests on `FindBehind`: to find in what is left is to find in the whole from there on. Two sequences of cuts
  agree as far as both go (`CutsAgree`), and one that leaves no delimiter behind is unique (`OneWayToCut`), hence `ReplacesBetweenTokens`; a piece ends at
  the leftmost delimiter (`PieceLeftmost`), hence `TokensLeftmost`. `find`, `Join` and `Erase` are a least element and two recursive functions: what they do
  is proved by induction in the form of sets of numbers (`Least`, `AllNumbers`), from the theorems of `WellFoundedInduction` that take no operator. No bound on
  lengths or characters is assumed.
- *Library.* Each part takes only its own steps (`PartsImplemented`), so that the theorems about Socket and Strings carry over.

Only model-checked: the liveness properties (`PacketsMoveOn`, `PauseEnds`, `LoaderEnds`, `CommandsEnd`, `CloseEndsWatching`, `UnloadCompletes`, `RequestsComplete`,
`StopsEnd`, `LoopsEnd`), since liveness under fairness is out of the prover's reach, which knows no ENABLED. The two findings are counterexamples.

## 7 Findings

1. **`FilterPause` does not mean what its header says** (`FilterDriver/main.cpp:37-38`: "After this function completes, the filter
   must not attempt to send or receive packets"). `FilterReceiveNetBufferLists` checks `State` in one critical section (to :630) and indicates later
   (:683); `FilterPause` waits for nothing (:57-77). Run `filter_pause_claim` shows a receive that is
   indicated after the pause has completed. In the release build there is no check at all. What does hold is in
   `filter_live` and in `DetachIsClean`: a paused module drains, and nothing is left when it is detached.
2. **A failed `RegisterAllCallouts` leaves callouts registered** (`WPFCalloutDriver/src/Callouts.cpp:78-126`, `Driver.cpp:107-122`). The
   README of the driver (:23) asks that all callouts be unregistered before the driver exits, as it cannot be started again otherwise. Run
   `callout_exit_claim` ends with the driver gone and a callout still registered. `FailureIsPrefix` says exactly what
   can be left. A second way to the same end is an unregistration that fails in `DriverUnload`, which `UnregisterAllCallouts` only logs
   (`Callouts.cpp:11-31`); `UnloadLeavesRefused` says what is left then, and `LoadedRegistersAll` why it matters: with a callout
   left behind no load ends with the device and its callouts.

Smaller observations, made while modelling; each is a step of a model, and none has a run of its own:

- NetworkFilterDriver2 asserts the signature of the device extension in `FilterDeviceIoControl` (`main.cpp:95`), but sets it (`:161-164`) after
  `NdisRegisterDeviceEx` has created
  the device (`:145-154`): a request in between finds the `ASSERT` false. `CallbacksPrepared` holds from the moment `DriverEntry` has returned.
- FilterDriver never completes a device control request (`main.cpp:876-948`), NetworkFilterDriver2 not one without a file object (`main.cpp:87`): the
  handle stays open and the driver loaded.
- PriorityBooster keeps its device when `IoCreateSymbolicLink` fails (`main.cpp:54-58`); every later load then fails at `IoCreateDevice`.
- PriorityBooster reads `Priority` and `ThreadId` of a METHOD_NEITHER buffer where it uses them (`PriorityBooster.cpp:62`, `:70`, `:75`): a client that writes to it in between
  gets a priority set that was not checked. `SetsCheckedPriority` is about the clients that do not.
- Nothing resets `matchedPort` of WPFCalloutDriver (`Callouts.cpp:206`): a port is reported long after the watched process has closed its connection.
  `OnlyWatchedPortsReported` says no more than that a watched process has sent from it. WFPController itself adds no filter for `Inbound::TCP`.
- EmptyKMDFDriver leaks its `WDFDEVICE_INIT` on every failure after its allocation (`Driver.cpp:86`, `:94`), and is loaded without a link when there
  is no device object (`:126`).
- `Connect` of a `Socket` that has a socket forgets it (`wfpcontroller.winsock.socket.cpp:149`), and `Socket(Socket&&)` closes a member that has no
  value yet (`:41`). `main.cpp` does neither, and the model leaves both out.
- An empty delimiter keeps `TokeniseString` and `Replace` in their loops for ever (`wfpcontroller.strings.cpp:192`); `LoopsEnd` says so.

## 8 What is not modelled

- FilterDriver's option and event callbacks and KmdfHelloWorld keep no state (`FilterSetModuleOptions` would switch handlers at run time, but only under
  `if (bFalse)`); the handlers of NetworkFilterDriver2's `FilterCallbacks.cpp` return success and do nothing; ProtoDriver has no source.
- SampleWdmDriver constructs an `IntList` and destroys it. The destructor follows the links of a list head that nobody has initialised, so there is no
  state after that to model; the operations on the lists have no caller.
- The error classes format messages; that an error is thrown is part of every step that can fail. `WinSockInit` is one call in a constructor and one
  in a destructor. `wfpcontroller.wfp.filter.cpp` is commented out.
- `Socket::Send` and `Socket::Receive` change nothing in the object and have no caller. `ConvertString` is two calls of a conversion API, and
  `DoCaseInsensitiveMatch` a comparison.
- Contents of packets, names, GUIDs, friendly names and logging: no property tells them apart.
- What becomes of a call into a driver that has gone: a callout left behind by a failed load or unload is called as if its code were there (section 5), and no property rests on it.

## 9 Plan

Done: the modules of section 2, the runs of section 3, the theorems of section 6.

What would come next: `Filtering` with `WFPController` in the place of `FilterEngine`: that the safety properties carry over follows from `EngineImplemented`, and
   could be stated as a theorem about that composition.
