--------------------------- MODULE CalloutDriver ----------------------------
(***************************************************************************)
(* WPFCalloutDriver: DriverEntry with its failure paths, the registration  *)
(* and unregistration of the five callouts, DriverUnload, and the classify *)
(* functions the filter engine calls on many processors at once.           *)
(*                                                                         *)
(* The framework and the filter engine are external: a classify function   *)
(* is called while its callout is registered, FwpsCalloutUnregisterByKey0  *)
(* fails or waits for the calls in progress, a key can be registered once, *)
(* and a driver whose DriverEntry fails is removed without EvtDriverUnload.*)
(***************************************************************************)
EXTENDS Integers, Sequences

CONSTANTS
    Calls,       \* the calls of classify functions that can be in progress
    Ports,       \* local ports
    Processes,   \* process ids
    Refusable,   \* bound: the callouts whose unregistration can fail
    NoPort,      \* port 0
    NoProcess    \* process id 0, and the id of a filter without a context

ASSUME ZeroesDistinct == NoPort \notin Ports /\ NoProcess \notin Processes

VARIABLES
    loader,       \* where DriverEntry or DriverUnload is
    at,           \* the callout it has come to
    deviceInit,   \* is there a PWDFDEVICE_INIT to free?
    device,       \* DriverDeviceObject # nullptr
    registered,   \* the callouts registered with the filter engine
    leftBehind,   \* history: those an earlier load or unload has left registered
    matchedPort,  \* the global of that name
    call,         \* the calls of classify functions
    sent,         \* the ports from which a watched process has sent
    reported      \* the ports Inbound::TCP::ClassifyFn has reported as matched

lifecycle == <<loader, at, deviceInit, device, registered, leftBehind>>
traffic == <<matchedPort, call, sent, reported>>
vars == <<lifecycle, traffic>>

\* The order of RegisterAllCallouts, and that of UnregisterAllCallouts.
RegisterOrder == <<"OutboundIPv4", "InboundICMPError", "OutboundICMPError",
                   "OutboundTCP", "InboundTCP">>
UnregisterOrder == <<"OutboundIPv4", "InboundICMPError", "OutboundICMPError",
                     "OutboundTCP", "InboundTCP">>
Callouts == {"OutboundIPv4", "InboundICMPError", "OutboundICMPError",
             "OutboundTCP", "InboundTCP"}

LoaderPoint == {"Unloaded", "Create", "CreateDevice", "Register", "FreeInit",
                "Loaded", "Unregister", "Drain", "Failed"}

\* The points at which the image of the driver is mapped.
Mapped == LoaderPoint \ {"Unloaded", "Failed"}

NoCall == [at |-> "Idle", callout |-> "None", port |-> NoPort,
           process |-> NoProcess, context |-> NoProcess]

Init ==
    /\ loader = "Unloaded"
    /\ at = 1
    /\ deviceInit = FALSE
    /\ device = FALSE
    /\ registered = {}
    /\ leftBehind = {}
    /\ matchedPort = NoPort
    /\ call = [t \in Calls |-> NoCall]
    /\ sent = {}
    /\ reported = {}

-----------------------------------------------------------------------------
(* DriverEntry.                                                            *)

\* The image is mapped: its globals are zero again.
Load ==
    /\ loader \in {"Unloaded", "Failed"}
    /\ loader' = "Create"
    /\ device' = FALSE
    /\ leftBehind' = registered
    /\ matchedPort' = NoPort
    /\ sent' = {}
    /\ reported' = {}
    /\ UNCHANGED <<at, deviceInit, registered, call>>

\* A driver that is not loaded has no device: the framework deletes it.
Fail ==
    /\ loader' = "Failed"
    /\ device' = FALSE

\* Safe mode, WdfDriverCreate and WdfControlDeviceInitAllocate.
Create ==
    /\ loader = "Create"
    /\ \/ loader' = "CreateDevice" /\ deviceInit' = TRUE /\ UNCHANGED device
       \/ Fail /\ UNCHANGED deviceInit
    /\ UNCHANGED <<at, registered, leftBehind, traffic>>

\* WdfDeviceCreate, which consumes deviceInit when it succeeds, and
\* WdfDeviceWdmGetDeviceObject; without a device object the driver is loaded
\* all the same, and registers nothing.
CreateDevice ==
    /\ loader = "CreateDevice"
    /\ \/ /\ loader' = "Register" /\ at' = 1
          /\ deviceInit' = FALSE /\ device' = TRUE
       \/ /\ loader' = "Loaded"
          /\ deviceInit' = FALSE
          /\ UNCHANGED <<at, device>>
       \/ /\ loader' = "FreeInit"
          /\ UNCHANGED <<at, deviceInit, device>>
    /\ UNCHANGED <<registered, leftBehind, traffic>>

\* Mutant: a callout that cannot be registered is skipped.
RegisterOrSkip ==
    /\ loader = "Register"
    /\ \/ registered' = registered \cup {RegisterOrder[at]}
       \/ UNCHANGED registered
    /\ IF at < 5 THEN at' = at + 1 /\ UNCHANGED loader
                 ELSE at' = 1 /\ loader' = "Loaded"
    /\ UNCHANGED <<deviceInit, device, leftBehind, traffic>>

\* RegisterAllCallouts, one RegisterCallout: the first failure ends it, and
\* DriverEntry with it.
RegisterCallout ==
    /\ loader = "Register"
    /\ LET k == RegisterOrder[at] IN
          \/ /\ k \notin registered
             /\ registered' = registered \cup {k}
             /\ IF at < 5 THEN at' = at + 1 /\ UNCHANGED loader
                          ELSE at' = 1 /\ loader' = "Loaded"
          \/ loader' = "FreeInit" /\ UNCHANGED <<at, registered>>
    /\ UNCHANGED <<deviceInit, device, leftBehind, traffic>>

\* The end of DriverEntry: what WdfDeviceCreate has not consumed is freed, and
\* an error is returned.
FreeInit ==
    /\ loader = "FreeInit"
    /\ deviceInit' = FALSE
    /\ Fail
    /\ at' = 1
    /\ UNCHANGED <<registered, leftBehind, traffic>>

-----------------------------------------------------------------------------
(* DriverUnload.                                                           *)

Unload ==
    /\ loader = "Loaded"
    /\ loader' = "Unregister"
    /\ at' = 1
    /\ leftBehind' = {}
    /\ UNCHANGED <<deviceInit, device, registered, traffic>>

\* On to the next callout; after the last one the framework deletes the device,
\* and the image goes.
NextCallout ==
    IF at < 5 THEN at' = at + 1 /\ loader' = "Unregister" /\ UNCHANGED device
              ELSE at' = 1 /\ loader' = "Unloaded" /\ device' = FALSE

\* FwpsCalloutUnregisterByKey0 lets no more calls of callout k in, ...
Unregister(k) ==
    /\ k \in registered
    /\ registered' = registered \ {k}
    /\ loader' = "Drain"
    /\ UNCHANGED <<at, device, leftBehind>>

\* ... or fails, as it does for a callout that is not registered.
CannotUnregister(k) ==
    /\ k \in registered => k \in Refusable
    /\ leftBehind' = leftBehind \cup ({k} \cap registered)
    /\ UNCHANGED registered

\* Mutant: the first failure ends UnregisterAllCallouts, as it does
\* RegisterAllCallouts.
UnregisterCalloutOrStop ==
    /\ loader = "Unregister"
    /\ LET k == UnregisterOrder[at] IN
          \/ Unregister(k)
          \/ CannotUnregister(k) /\ at' = 1 /\ loader' = "Unloaded" /\ device' = FALSE
    /\ UNCHANGED <<deviceInit, traffic>>

\* UnregisterAllCallouts, one FwpsCalloutUnregisterByKey0: a failure is logged,
\* and the others are unregistered all the same.
UnregisterCallout ==
    /\ loader = "Unregister"
    /\ LET k == UnregisterOrder[at] IN
          \/ Unregister(k)
          \/ CannotUnregister(k) /\ NextCallout
    /\ UNCHANGED <<deviceInit, traffic>>

\* It returns when no call of the callout is in progress.
InProgress(k) == \E t \in Calls : call[t] # NoCall /\ call[t].callout = k

CalloutDrained ==
    /\ loader = "Drain"
    /\ ~InProgress(UnregisterOrder[at])
    /\ NextCallout
    /\ UNCHANGED <<deviceInit, registered, leftBehind, traffic>>

-----------------------------------------------------------------------------
(* The classify functions.                                                 *)

\* The filter engine calls a registered callout for a packet on a local port,
\* in the context of a process, for a filter whose provider context names a
\* process or, without a context, none.  A callout that a failed DriverEntry or
\* a failed unregistration has left behind is called as if its code were there.
Classify(t, k, port, process, context) ==
    /\ k \in registered
    /\ call[t] = NoCall
    /\ call' = [call EXCEPT ![t] = [at |-> "Called", callout |-> k, port |-> port,
                                    process |-> process, context |-> context]]
    /\ UNCHANGED <<lifecycle, matchedPort, sent, reported>>

Return(t) == call' = [call EXCEPT ![t] = NoCall]

\* The process id in the filter's provider context.
GetProcessId(t) == call[t].context

\* Mutant: the process ids are only checked for zero.
IsAnyProcess(t) == GetProcessId(t) # NoProcess /\ call[t].process # NoProcess

\* Is the packet one of the process the filter watches?  Outbound::IPv4 and
\* Outbound::TCP ask.
IsWatched(t) ==
    /\ GetProcessId(t) # NoProcess
    /\ call[t].process # NoProcess
    /\ call[t].process = GetProcessId(t)

\* Mutant: the classify function waits for a packet of the process it watches.
ClassifyOutboundTCPWaits(t) ==
    /\ call[t].at = "Called" /\ call[t].callout = "OutboundTCP"
    /\ IsWatched(t)
    /\ matchedPort' = call[t].port
    /\ sent' = sent \cup {call[t].port}
    /\ Return(t)
    /\ UNCHANGED <<lifecycle, reported>>

\* Outbound::TCP::ClassifyFn.
ClassifyOutboundTCP(t) ==
    /\ call[t].at = "Called" /\ call[t].callout = "OutboundTCP"
    /\ IF IsWatched(t)
       THEN matchedPort' = call[t].port
       ELSE UNCHANGED matchedPort
    /\ sent' = sent \cup {p \in Ports : p = call[t].port /\ call[t].context \in Processes
                                        /\ call[t].process = call[t].context}
    /\ Return(t)
    /\ UNCHANGED <<lifecycle, reported>>

\* Inbound::TCP::ClassifyFn, which reads matchedPort without a lock: once to
\* see whether there is a port to match, ...
ClassifyInboundTCP(t) ==
    /\ call[t].at = "Called" /\ call[t].callout = "InboundTCP"
    /\ IF matchedPort # NoPort /\ call[t].port # NoPort
       THEN call' = [call EXCEPT ![t].at = "Compare"]
       ELSE Return(t)
    /\ UNCHANGED <<lifecycle, matchedPort, sent, reported>>

\* ... and again to compare.
CompareInboundTCP(t) ==
    /\ call[t].at = "Compare"
    /\ reported' = IF call[t].port = matchedPort THEN reported \cup {call[t].port} ELSE reported
    /\ Return(t)
    /\ UNCHANGED <<lifecycle, matchedPort, sent>>

\* The other three only log.
ClassifyOther(t) ==
    /\ call[t].at = "Called"
    /\ call[t].callout \in {"OutboundIPv4", "InboundICMPError", "OutboundICMPError"}
    /\ Return(t)
    /\ UNCHANGED <<lifecycle, matchedPort, sent, reported>>

-----------------------------------------------------------------------------
(* The specification.                                                      *)

EntryStep == Create \/ CreateDevice \/ RegisterCallout \/ FreeInit
UnloadStep == UnregisterCallout \/ CalloutDrained

ClassifyStep(t) ==
    \/ ClassifyOutboundTCP(t) \/ ClassifyInboundTCP(t) \/ CompareInboundTCP(t)
    \/ ClassifyOther(t)

Next ==
    \/ Load \/ EntryStep \/ Unload \/ UnloadStep
    \/ \E t \in Calls :
          \/ ClassifyStep(t)
          \/ \E k \in Callouts, port \in Ports \cup {NoPort},
                process \in Processes \cup {NoProcess}, context \in Processes \cup {NoProcess} :
                Classify(t, k, port, process, context)

Spec == Init /\ [][Next]_vars

\* Driver code that is running keeps running.
FairSpec ==
    /\ Spec
    /\ WF_vars(EntryStep) /\ WF_vars(UnloadStep)
    /\ \A t \in Calls : WF_vars(ClassifyStep(t))

-----------------------------------------------------------------------------
(* Properties.                                                             *)

CallTypes ==
    {NoCall} \cup
    [at : {"Called", "Compare"}, callout : Callouts, port : Ports \cup {NoPort},
     process : Processes \cup {NoProcess}, context : Processes \cup {NoProcess}]

TypeOK ==
    /\ loader \in LoaderPoint
    /\ at \in 1..5
    /\ deviceInit \in BOOLEAN
    /\ device \in BOOLEAN
    /\ registered \subseteq Callouts
    /\ leftBehind \subseteq Callouts
    /\ matchedPort \in Ports \cup {NoPort}
    /\ call \in [Calls -> CallTypes]
    /\ sent \subseteq Ports
    /\ reported \subseteq Ports

\* The callouts UnregisterAllCallouts has come past: before entry i.
Past(i) == {UnregisterOrder[j] : j \in {l \in 1..5 : l < i}}

\* Whatever was registered when DriverUnload began, a driver that has been
\* unloaded has no device, has left registered exactly the callouts whose own
\* unregistration failed, whatever became of the others, and has no classify
\* function running but for those that such a callout still lets in
\* (UnregisterAllCallouts, Callouts.cpp:9-31).
UnloadOutcome ==
    loader = "Unloaded" =>
        /\ registered = leftBehind
        /\ ~device
        /\ \A t \in Calls : call[t] # NoCall => call[t].callout \in leftBehind

\* The first n callouts of RegisterAllCallouts.
First(n) == {RegisterOrder[i] : i \in 1..n}

\* What n registrations have added to the callouts left behind before.
RegisteredFirst(n) == registered = leftBehind \cup First(n) /\ First(n) \cap leftBehind = {}

\* A DriverEntry that fails leaves no PWDFDEVICE_INIT, and no device; the
\* callouts it adds to those that were left behind before it are the first ones
\* of RegisterAllCallouts, never all.
FailureLeavesPrefix ==
    loader = "Failed" =>
        /\ ~deviceInit /\ ~device
        /\ \E n \in 0..4 : RegisteredFirst(n)

\* A driver that has its device is loaded with all five callouts or not at all,
\* and a callout left behind is in the way of every such load.
LoadedIsComplete ==
    loader = "Loaded" /\ device => registered = Callouts /\ leftBehind = {}

\* Both ways out of DriverEntry: all that RegisterAllCallouts registers or a
\* proper prefix of it without a device.
EntryOutcome == FailureLeavesPrefix /\ LoadedIsComplete

\* An inbound packet is reported as matched only if its port is one from which
\* a watched process has sent since the driver was loaded, although the global
\* changes between the two times it is read.
OnlyWatchedPortsReported == reported \subseteq sent

\* "check to see that all registered callouts are being unregistered before
\* the driver exits" (WPFCalloutDriver/README.md:23).
CalloutsUnregisteredBeforeExit == loader \notin Mapped => registered = {}

\* Registration and unregistration go in order.
Registration ==
    /\ loader \in {"Unloaded", "Create", "CreateDevice"} => registered = leftBehind
    /\ loader = "Register" => RegisteredFirst(at - 1)
    /\ loader \in {"FreeInit", "Failed"} => \E n \in 0..4 : RegisteredFirst(n)
    /\ loader = "Loaded" /\ ~device => registered = leftBehind
    /\ loader \in {"Unregister", "Drain"} =>
          leftBehind = registered \cap Past(at)
    /\ loader = "Drain" => UnregisterOrder[at] \notin registered

\* What exists when, and what keeps a call in progress.
DevicePhases ==
    /\ loader \in {"Unloaded", "Create", "CreateDevice", "Failed"} => ~device
    /\ loader = "Register" => device
    /\ deviceInit => loader \in {"CreateDevice", "FreeInit"}

CallsInProgress ==
    \A t \in Calls : call[t] # NoCall =>
        \/ call[t].callout \in registered
        \/ loader = "Drain" /\ call[t].callout = UnregisterOrder[at]

\* The port to match is a port from which a watched process has sent.
MatchedPortSent ==
    /\ matchedPort \in sent \cup {NoPort}
    /\ \A t \in Calls : call[t] # NoCall /\ call[t].at = "Compare" => call[t].port # NoPort

\* The inductive invariant of the proofs.
IInv == /\ TypeOK /\ Registration /\ DevicePhases /\ LoadedIsComplete
        /\ CallsInProgress /\ MatchedPortSent /\ OnlyWatchedPortsReported

\* DriverUnload comes to an end under any traffic.
UnloadCompletes == loader = "Unregister" ~> loader = "Unloaded"
=============================================================================
