-------------------------- MODULE Filtering_proofs ---------------------------
(***************************************************************************)
(* Proofs about the callout driver, alone and together with the            *)
(* controllers, for any number of controllers, sessions, classify calls,   *)
(* ports and processes.                                                    *)
(*                                                                         *)
(* CalloutDriver alone comes first.  Its inductive invariant is IInv:      *)
(* callouts are registered and unregistered in order and those that cannot *)
(* be unregistered are left behind, a call in progress keeps its callout   *)
(* or is waited for, and the port to match was sent from.  The composition gives the driver no step it does not have on its *)
(* own (StepOfDriver), so IInv holds in it, and with it FilteringInv is    *)
(* inductive.                                                              *)
(***************************************************************************)
EXTENDS Filtering, TLAPS

-----------------------------------------------------------------------------
(* CalloutDriver: its start.                                               *)

LEMMA Order ==
  /\ RegisterOrder[1] = "OutboundIPv4" /\ RegisterOrder[2] = "InboundICMPError"
  /\ RegisterOrder[3] = "OutboundICMPError" /\ RegisterOrder[4] = "OutboundTCP"
  /\ RegisterOrder[5] = "InboundTCP"
  /\ \A i \in 1..5 : UnregisterOrder[i] = RegisterOrder[i] /\ RegisterOrder[i] \in Callouts
  <1>1. /\ RegisterOrder[1] = "OutboundIPv4" /\ RegisterOrder[2] = "InboundICMPError"
        /\ RegisterOrder[3] = "OutboundICMPError" /\ RegisterOrder[4] = "OutboundTCP"
        /\ RegisterOrder[5] = "InboundTCP"
    BY DEF RegisterOrder
  <1>2. UnregisterOrder = RegisterOrder
    BY DEF RegisterOrder, UnregisterOrder
  <1>3. \A i \in 1..5 : i = 1 \/ i = 2 \/ i = 3 \/ i = 4 \/ i = 5
    OBVIOUS
  <1> QED
    BY <1>1, <1>2, <1>3 DEF Callouts

\* The callouts RegisterAllCallouts has registered, one by one.
LEMMA FirstGrows ==
  /\ First(0) = {} /\ First(5) = Callouts
  /\ \A i \in 1..5 : /\ First(i) = First(i - 1) \cup {RegisterOrder[i]}
                      /\ RegisterOrder[i] \notin First(i - 1)
  <1>1. First(0) = {} /\ \A i \in 1..5 : First(i) = First(i - 1) \cup {RegisterOrder[i]}
    BY DEF First
  <1>2. /\ First(1) = {"OutboundIPv4"}
        /\ First(2) = First(1) \cup {"InboundICMPError"}
        /\ First(3) = First(2) \cup {"OutboundICMPError"}
        /\ First(4) = First(3) \cup {"OutboundTCP"}
        /\ First(5) = First(4) \cup {"InboundTCP"}
    BY <1>1, Order
  <1>3. \A i \in 1..5 : i = 1 \/ i = 2 \/ i = 3 \/ i = 4 \/ i = 5
    OBVIOUS
  <1> QED
    BY <1>1, <1>2, <1>3, Order DEF Callouts

\* Those UnregisterAllCallouts has come past.
LEMMA PastGrows ==
  /\ Past(1) = {} /\ Past(6) = Callouts
  /\ \A i \in 1..5 : /\ Past(i + 1) = Past(i) \cup {UnregisterOrder[i]}
                      /\ UnregisterOrder[i] \notin Past(i)
  <1>1. \A i \in 1..6 : Past(i) = First(i - 1)
    BY Order DEF Past, First
  <1> QED
    BY <1>1, FirstGrows, Order

LEMMA InitIInv == Init => IInv
  <1> SUFFICES ASSUME Init PROVE IInv
    OBVIOUS
  <1>1. TypeOK
    <2>1. NoCall \in CallTypes
      BY DEF CallTypes
    <2>2. call \in [Calls -> CallTypes]
      BY <2>1 DEF Init
    <2>3. deviceInit \in BOOLEAN /\ device \in BOOLEAN
      BY DEF Init
    <2> QED
      BY <2>2, <2>3 DEF Init, TypeOK, LoaderPoint
  <1>2. Registration /\ DevicePhases /\ LoadedIsComplete
    BY DEF Init, Registration, DevicePhases, LoadedIsComplete
  <1>3. CallsInProgress /\ MatchedPortSent /\ OnlyWatchedPortsReported
    BY DEF Init, CallsInProgress, MatchedPortSent, OnlyWatchedPortsReported
  <1> QED
    BY <1>1, <1>2, <1>3 DEF IInv

-----------------------------------------------------------------------------
(* The driver's life.                                                      *)

LifeStep == Load \/ EntryStep \/ Unload \/ UnloadStep

\* DriverEntry adds the callouts in order to those left behind.
LEMMA RegisterAdds ==
  ASSUME IInv, RegisterCallout, NEW n \in 0..4, at = n + 1
  PROVE  IF loader' = "FreeInit" THEN RegisteredFirst(n)'
         ELSE RegisteredFirst(n + 1)' /\ loader' = (IF n = 4 THEN "Loaded" ELSE "Register")
              /\ (n < 4 => at' = n + 2)
  <1>1. /\ registered = leftBehind \cup First(n) /\ First(n) \cap leftBehind = {}
        /\ UNCHANGED leftBehind
    BY DEF IInv, Registration, RegisteredFirst, RegisterCallout
  <1>2. CASE loader' = "FreeInit"
    <2>1. UNCHANGED registered
      BY <1>2 DEF RegisterCallout
    <2> QED
      BY <1>1, <1>2, <2>1 DEF RegisteredFirst
  <1>3. CASE loader' # "FreeInit"
    <2>1. /\ RegisterOrder[n + 1] \notin registered
          /\ registered' = registered \cup {RegisterOrder[n + 1]}
          /\ IF n + 1 < 5 THEN at' = n + 2 /\ UNCHANGED loader ELSE loader' = "Loaded"
          /\ loader = "Register"
      BY <1>3 DEF RegisterCallout
    <2>2. First(n + 1) = First(n) \cup {RegisterOrder[n + 1]}
      BY FirstGrows
    <2> QED
      BY <1>1, <1>3, <2>1, <2>2 DEF RegisteredFirst
  <1> QED
    BY <1>2, <1>3

\* UnregisterAllCallouts goes on past a callout that stays registered.
LEMMA UnregistrationStep ==
  ASSUME IInv, UnloadStep
  PROVE  Registration'
  <1>1. /\ at \in 1..5 /\ registered \subseteq Callouts
        /\ loader \in {"Unregister", "Drain"} /\ leftBehind = registered \cap Past(at)
    BY DEF IInv, TypeOK, Registration, UnloadStep, UnregisterCallout, CalloutDrained
  <1>2. /\ Past(at + 1) = Past(at) \cup {UnregisterOrder[at]}
        /\ UnregisterOrder[at] \notin Past(at)
    BY <1>1, PastGrows
  <1>3. CASE UnregisterCallout /\ Unregister(UnregisterOrder[at])
    <2>1. /\ loader' = "Drain" /\ registered' = registered \ {UnregisterOrder[at]}
          /\ UNCHANGED <<at, leftBehind>>
      BY <1>3 DEF Unregister
    <2>2. Past(at)' = Past(at)
      BY <2>1 DEF Past
    <2>3. leftBehind' = registered' \cap Past(at)'
      BY <1>1, <1>2, <2>1, <2>2
    <2>4. UnregisterOrder[at]' \notin registered'
      BY <2>1
    <2> QED
      BY <2>1, <2>3, <2>4 DEF Registration
  <1>4. ASSUME NextCallout, UNCHANGED registered,
               leftBehind' = registered \cap Past(at + 1)
        PROVE  Registration'
    <2>1. CASE at < 5
      <3>1. loader' = "Unregister" /\ at' = at + 1
        BY <1>4, <2>1 DEF NextCallout
      <3>2. Past(at)' = Past(at + 1)
        BY <3>1 DEF Past
      <3> QED
        BY <1>4, <3>1, <3>2 DEF Registration
    <2>2. CASE ~(at < 5)
      <3>1. loader' = "Unloaded" /\ at = 5
        BY <1>1, <1>4, <2>2 DEF NextCallout
      <3>2. Past(at + 1) = Callouts
        BY <3>1, PastGrows
      <3> QED
        BY <1>1, <1>4, <3>1, <3>2 DEF Registration
    <2> QED
      BY <2>1, <2>2
  <1>5. CASE UnregisterCallout /\ CannotUnregister(UnregisterOrder[at]) /\ NextCallout
    <2>1. UNCHANGED registered /\ leftBehind' = registered \cap Past(at + 1)
      BY <1>1, <1>2, <1>5 DEF CannotUnregister
    <2> QED
      BY <1>4, <1>5, <2>1
  <1>6. CASE CalloutDrained
    <2>1. UNCHANGED registered /\ leftBehind' = registered \cap Past(at + 1)
      BY <1>1, <1>2, <1>6 DEF CalloutDrained, IInv, Registration
    <2> QED
      BY <1>4, <1>6, <2>1 DEF CalloutDrained
  <1> QED
    BY <1>3, <1>5, <1>6 DEF UnloadStep, UnregisterCallout

\* Registration and unregistration go in order.
LEMMA RegistrationStep ==
  ASSUME IInv, LifeStep
  PROVE  Registration'
  <1> USE DEF IInv, Registration
  <1>1. CASE Load
    BY <1>1 DEF Load
  <1>2. CASE Create \/ CreateDevice
    <2>1. registered' = leftBehind' /\ First(0) = {}
      BY <1>2, FirstGrows DEF Create, CreateDevice
    <2>2. RegisteredFirst(0)'
      BY <2>1 DEF RegisteredFirst
    <2>3. loader' = "Register" => at' = 1
      BY <1>2 DEF Create, CreateDevice, Fail
    <2>4. loader' \in {"CreateDevice", "Register", "Loaded", "FreeInit", "Failed"}
      BY <1>2 DEF Create, CreateDevice, Fail
    <2>5. loader' = "Register" => RegisteredFirst(at - 1)'
      BY <2>1, <2>3 DEF RegisteredFirst
    <2> QED
      BY <2>1, <2>2, <2>4, <2>5
  <1>3. CASE FreeInit
    <2>1. PICK n \in 0..4 : RegisteredFirst(n)
      BY <1>3 DEF FreeInit
    <2>2. RegisteredFirst(n)'
      BY <1>3, <2>1 DEF FreeInit, RegisteredFirst
    <2> QED
      BY <1>3, <2>2 DEF FreeInit, Fail
  <1>4. CASE RegisterCallout
    <2>1. PICK n \in 0..4 : at = n + 1
      <3>1. at \in 1..5 /\ at - 1 \in 0..4 /\ at = (at - 1) + 1
        BY DEF TypeOK
      <3> QED
        BY <3>1
    <2>2. /\ IF loader' = "FreeInit" THEN RegisteredFirst(n)'
             ELSE RegisteredFirst(n + 1)' /\ loader' = (IF n = 4 THEN "Loaded" ELSE "Register")
                  /\ (n < 4 => at' = n + 2)
      BY <1>4, <2>1, RegisterAdds
    <2>3. device'
      BY <1>4 DEF RegisterCallout, DevicePhases
    <2>4. CASE loader' = "FreeInit"
      BY <2>2, <2>4
    <2>5. CASE loader' # "FreeInit" /\ n < 4
      <3>1. RegisteredFirst(n + 1)' /\ loader' = "Register" /\ at' - 1 = n + 1
        BY <2>2, <2>5
      <3>2. RegisteredFirst(at - 1)'
        BY <3>1 DEF RegisteredFirst
      <3> QED
        BY <3>1, <3>2
    <2>6. CASE loader' # "FreeInit" /\ n = 4
      BY <2>2, <2>3, <2>6
    <2> QED
      BY <2>4, <2>5, <2>6
  <1>5. CASE Unload
    BY <1>5, PastGrows DEF Unload
  <1>6. CASE UnloadStep
    BY <1>6, UnregistrationStep
  <1> QED
    BY <1>1, <1>2, <1>3, <1>4, <1>5, <1>6 DEF LifeStep, EntryStep

LEMMA DevicePhasesStep ==
  ASSUME IInv, LifeStep
  PROVE  DevicePhases'
  BY DEF IInv, DevicePhases, LifeStep, EntryStep, UnloadStep, Load, Create, CreateDevice,
     RegisterCallout, FreeInit, Fail, Unload, UnregisterCallout, Unregister, CannotUnregister,
     NextCallout, CalloutDrained

LEMMA LoadedIsCompleteStep ==
  ASSUME IInv, LifeStep
  PROVE  LoadedIsComplete'
  <1> USE DEF IInv, LoadedIsComplete
  <1>1. CASE RegisterCallout
    <2>1. CASE loader' = "Loaded"
      <3>1. at = 4 + 1 /\ 4 \in 0..4
        BY <1>1, <2>1 DEF RegisterCallout, TypeOK
      <3>2. RegisteredFirst(5)'
        <4>1. RegisteredFirst(4 + 1)'
          BY <1>1, <2>1, <3>1, RegisterAdds
        <4> QED
          BY <4>1 DEF RegisteredFirst
      <3>3. registered' = leftBehind' \cup Callouts /\ Callouts \cap leftBehind' = {}
        BY <3>2, FirstGrows DEF RegisteredFirst
      <3>4. leftBehind' \subseteq Callouts
        BY <1>1 DEF RegisterCallout, TypeOK
      <3> QED
        BY <3>3, <3>4
    <2> QED
      BY <2>1
  <1>2. CASE Load \/ Create \/ CreateDevice \/ FreeInit \/ Unload \/ UnloadStep
    BY <1>2 DEF Load, Create, CreateDevice, FreeInit, Fail, Unload, UnloadStep, DevicePhases,
       UnregisterCallout, Unregister, CannotUnregister, NextCallout, CalloutDrained
  <1> QED
    BY <1>1, <1>2 DEF LifeStep, EntryStep

LEMMA CallsInProgressStep ==
  ASSUME IInv, LifeStep
  PROVE  CallsInProgress'
  <1> USE DEF IInv, CallsInProgress
  <1>1. CASE Load \/ EntryStep \/ Unload
    BY <1>1 DEF Load, EntryStep, Create, CreateDevice, RegisterCallout, FreeInit, Fail,
       Unload, traffic
  <1>2. CASE UnregisterCallout
    BY <1>2 DEF UnregisterCallout, Unregister, CannotUnregister, NextCallout, traffic
  <1>3. CASE CalloutDrained
    BY <1>3 DEF CalloutDrained, InProgress, NextCallout, traffic
  <1> QED
    BY <1>1, <1>2, <1>3 DEF LifeStep, UnloadStep

LEMMA LifeKeepsTraffic ==
  ASSUME IInv, LifeStep
  PROVE  MatchedPortSent' /\ OnlyWatchedPortsReported'
  <1> USE DEF IInv, MatchedPortSent, OnlyWatchedPortsReported
  <1>1. CASE Load
    BY <1>1 DEF Load
  <1>2. CASE EntryStep \/ Unload \/ UnloadStep
    BY <1>2 DEF EntryStep, UnloadStep, Create, CreateDevice, RegisterCallout, FreeInit,
       Unload, UnregisterCallout, CalloutDrained, traffic
  <1> QED
    BY <1>1, <1>2 DEF LifeStep

LEMMA LifeTypeOK ==
  ASSUME IInv, LifeStep
  PROVE  TypeOK'
  <1> USE DEF IInv, LoaderPoint
  <1>1. TypeOK /\ deviceInit \in BOOLEAN /\ device \in BOOLEAN
    BY DEF TypeOK
  <1>2. loader' \in LoaderPoint
    BY <1>1 DEF TypeOK, LifeStep, EntryStep, UnloadStep, Load, Create, CreateDevice,
       RegisterCallout, FreeInit, Fail, Unload, UnregisterCallout, Unregister, NextCallout,
       CalloutDrained
  <1>3. at' \in 1..5 /\ registered' \subseteq Callouts /\ leftBehind' \subseteq Callouts
    <2>1. CASE RegisterCallout
      BY <2>1, Order DEF TypeOK, RegisterCallout
    <2>2. CASE UnloadStep
      BY <2>2 DEF TypeOK, UnloadStep, UnregisterCallout, Unregister, CannotUnregister,
         NextCallout, CalloutDrained
    <2>3. CASE Load \/ Create \/ CreateDevice \/ FreeInit \/ Unload
      BY <2>3 DEF TypeOK, Load, Create, CreateDevice, FreeInit, Unload
    <2> QED
      BY <2>1, <2>2, <2>3 DEF LifeStep, EntryStep
  <1>4. deviceInit' \in BOOLEAN
    BY <1>1 DEF LifeStep, EntryStep, UnloadStep, Load, Create, CreateDevice,
       RegisterCallout, FreeInit, Unload, UnregisterCallout, CalloutDrained
  <1>5. device' \in BOOLEAN
    BY <1>1 DEF LifeStep, EntryStep, UnloadStep, Load, Create, CreateDevice, RegisterCallout,
       FreeInit, Fail, Unload, UnregisterCallout, Unregister, NextCallout, CalloutDrained
  <1>6. /\ matchedPort' \in {matchedPort, NoPort} /\ call' = call
        /\ sent' \in {sent, {}} /\ reported' \in {reported, {}}
    BY DEF LifeStep, EntryStep, UnloadStep, Load, Create, CreateDevice, RegisterCallout,
       FreeInit, Unload, UnregisterCallout, CalloutDrained, traffic
  <1> QED
    BY <1>1, <1>2, <1>3, <1>4, <1>5, <1>6 DEF TypeOK

-----------------------------------------------------------------------------
(* Traffic.                                                                *)

LEMMA LifecycleKept ==
  ASSUME IInv, UNCHANGED lifecycle
  PROVE  Registration' /\ DevicePhases' /\ LoadedIsComplete'
  BY DEF IInv, lifecycle, Registration, RegisteredFirst, First, Past, DevicePhases,
     LoadedIsComplete

\* A call begins.
LEMMA ClassifyKeepsIInv ==
  ASSUME IInv, NEW t \in Calls, NEW k \in Callouts, NEW port \in Ports \cup {NoPort},
         NEW process \in Processes \cup {NoProcess}, NEW context \in Processes \cup {NoProcess},
         Classify(t, k, port, process, context)
  PROVE  IInv'
  <1> DEFINE new == [at |-> "Called", callout |-> k, port |-> port,
                     process |-> process, context |-> context]
  <1>1. /\ k \in registered /\ call' = [call EXCEPT ![t] = new]
        /\ UNCHANGED <<lifecycle, matchedPort, sent, reported>>
    BY DEF Classify
  <1>2. new \in CallTypes /\ new.callout = k /\ new.at = "Called"
    BY DEF CallTypes
  <1>3. call'[t] = new /\ \A u \in Calls \ {t} : call'[u] = call[u]
    BY <1>1 DEF IInv, TypeOK
  <1> HIDE DEF new
  <1>4. TypeOK'
    BY <1>1, <1>2 DEF IInv, TypeOK, lifecycle
  <1>5. CallsInProgress'
    BY <1>1, <1>2, <1>3 DEF IInv, CallsInProgress, lifecycle
  <1>6. MatchedPortSent' /\ OnlyWatchedPortsReported'
    BY <1>1, <1>2, <1>3 DEF IInv, MatchedPortSent, OnlyWatchedPortsReported
  <1> QED
    BY <1>1, <1>4, <1>5, <1>6, LifecycleKept DEF IInv

\* A step of a call that is in progress.
LEMMA ClassifyStepKeepsIInv ==
  ASSUME IInv, NEW t \in Calls, ClassifyStep(t)
  PROVE  IInv'
  <1>1. call[t] # NoCall /\ call[t] \in CallTypes
    BY DEF IInv, TypeOK, CallTypes, NoCall, ClassifyStep, ClassifyOutboundTCP, ClassifyInboundTCP,
       CompareInboundTCP, ClassifyOther
  <1>2. UNCHANGED lifecycle
    BY DEF ClassifyStep, ClassifyOutboundTCP, ClassifyInboundTCP, CompareInboundTCP,
       ClassifyOther
  <1>3. CASE call' = [call EXCEPT ![t] = NoCall]
    <2>1. call'[t] = NoCall /\ \A u \in Calls \ {t} : call'[u] = call[u]
      BY <1>3 DEF IInv, TypeOK
    <2>2. CallsInProgress'
      BY <1>2, <2>1 DEF IInv, CallsInProgress, lifecycle
    <2>3. /\ matchedPort' \in Ports \cup {NoPort} /\ matchedPort' \in sent' \cup {NoPort}
          /\ sent' \subseteq Ports /\ reported' \subseteq sent'
      <3> USE <1>1 DEF IInv, TypeOK, MatchedPortSent, OnlyWatchedPortsReported, CallTypes
      <3>1. CASE ClassifyOutboundTCP(t)
        BY <3>1 DEF ClassifyOutboundTCP, IsWatched, GetProcessId
      <3>2. CASE CompareInboundTCP(t)
        BY <3>2 DEF CompareInboundTCP, NoCall
      <3>3. CASE ClassifyInboundTCP(t) \/ ClassifyOther(t)
        BY <3>3 DEF ClassifyInboundTCP, ClassifyOther
      <3> QED
        BY <3>1, <3>2, <3>3 DEF ClassifyStep
    <2>4. MatchedPortSent' /\ OnlyWatchedPortsReported'
      BY <2>1, <2>3 DEF IInv, MatchedPortSent, OnlyWatchedPortsReported
    <2>5. TypeOK'
      BY <1>2, <1>3, <2>3 DEF IInv, TypeOK, CallTypes, lifecycle
    <2> QED
      BY <1>2, <2>2, <2>4, <2>5, LifecycleKept DEF IInv
  <1>4. CASE call' # [call EXCEPT ![t] = NoCall]
    <2>1. /\ call' = [call EXCEPT ![t].at = "Compare"] /\ call[t].port # NoPort
          /\ UNCHANGED <<matchedPort, sent, reported>>
      BY <1>4 DEF ClassifyStep, ClassifyOutboundTCP, ClassifyInboundTCP, CompareInboundTCP,
         ClassifyOther, Return
    <2>2. /\ call'[t] \in CallTypes /\ call'[t] # NoCall
          /\ call'[t].callout = call[t].callout /\ call'[t].port = call[t].port
          /\ \A u \in Calls \ {t} : call'[u] = call[u]
      BY <1>1, <2>1 DEF IInv, TypeOK, CallTypes, NoCall
    <2>3. CallsInProgress' /\ MatchedPortSent' /\ OnlyWatchedPortsReported'
      BY <1>1, <1>2, <2>1, <2>2
      DEF IInv, CallsInProgress, MatchedPortSent, OnlyWatchedPortsReported, lifecycle
    <2>4. TypeOK'
      BY <1>2, <2>1, <2>2 DEF IInv, TypeOK, lifecycle
    <2> QED
      BY <1>2, <2>3, <2>4, LifecycleKept DEF IInv
  <1> QED
    BY <1>3, <1>4

-----------------------------------------------------------------------------
(* Theorems.                                                               *)

LEMMA NextIInv == IInv /\ [Next]_vars => IInv'
  <1> SUFFICES ASSUME IInv, [Next]_vars
               PROVE  IInv'
    OBVIOUS
  <1>1. CASE LifeStep
    BY <1>1, RegistrationStep, DevicePhasesStep, LoadedIsCompleteStep,
       CallsInProgressStep, LifeKeepsTraffic, LifeTypeOK DEF IInv
  <1>2. ASSUME NEW t \in Calls, ClassifyStep(t)
        PROVE  IInv'
    BY <1>2, ClassifyStepKeepsIInv
  <1>3. ASSUME NEW t \in Calls, NEW k \in Callouts, NEW port \in Ports \cup {NoPort},
               NEW process \in Processes \cup {NoProcess},
               NEW context \in Processes \cup {NoProcess},
               Classify(t, k, port, process, context)
        PROVE  IInv'
    BY <1>3, ClassifyKeepsIInv
  <1>4. CASE UNCHANGED vars
    <2>1. UNCHANGED lifecycle /\ UNCHANGED traffic
      BY <1>4 DEF vars
    <2>2. Registration' /\ DevicePhases' /\ LoadedIsComplete'
      BY <2>1, LifecycleKept
    <2>3. TypeOK' /\ CallsInProgress' /\ MatchedPortSent' /\ OnlyWatchedPortsReported'
      BY <2>1 DEF lifecycle, traffic, IInv, TypeOK, CallsInProgress, MatchedPortSent,
         OnlyWatchedPortsReported
    <2> QED
      BY <2>2, <2>3 DEF IInv
  <1> QED
    BY <1>1, <1>2, <1>3, <1>4 DEF Next, LifeStep

LEMMA Invariance == Spec => []IInv
  BY InitIInv, NextIInv, PTL DEF Spec

\* Every variable keeps its type.
THEOREM TypesHold == Spec => []TypeOK
  <1>1. IInv => TypeOK
    BY DEF IInv
  <1> QED
    BY <1>1, Invariance, PTL

\* DriverUnload leaves registered the callouts that could not be unregistered,
\* and no others, no call but for those, and no device.
THEOREM UnloadLeavesRefused == Spec => []UnloadOutcome
  <1>1. IInv => UnloadOutcome
    BY DEF IInv, Registration, DevicePhases, CallsInProgress, UnloadOutcome
  <1> QED
    BY <1>1, Invariance, PTL

\* What DriverEntry adds to what was left behind before when it fails.
THEOREM FailureIsPrefix == Spec => []FailureLeavesPrefix
  <1>1. IInv => FailureLeavesPrefix
    BY DEF IInv, Registration, DevicePhases, FailureLeavesPrefix
  <1> QED
    BY <1>1, Invariance, PTL

\* A loaded driver with a device has registered all five callouts.
THEOREM LoadedRegistersAll == Spec => []LoadedIsComplete
  BY Invariance, PTL DEF IInv

\* DriverEntry ends with all of its callouts or with a prefix of them.
THEOREM EntryEndsEitherWay == Spec => []EntryOutcome
  BY FailureIsPrefix, LoadedRegistersAll, PTL DEF EntryOutcome

\* No inbound packet of an unwatched port is reported.
THEOREM ReportsAreWatched == Spec => []OnlyWatchedPortsReported
  BY Invariance, PTL DEF IInv

-----------------------------------------------------------------------------
(* The objects of BFE.                                                     *)

\* Everything but the provider refers to the provider.
LEMMA AllReferToProvider ==
  ASSUME NEW o \in Engine!EngineObjects
  PROVE  o = Engine!ProviderObject \/ Engine!ProviderObject \in Engine!Refers(o)
  <1>1. CASE o = Engine!ProviderObject
    BY <1>1
  <1>2. CASE o # Engine!ProviderObject /\ o \in Engine!Filters
    BY <1>2 DEF Engine!Refers
  <1>3. CASE o # Engine!ProviderObject /\ o \notin Engine!Filters
    BY <1>3 DEF Engine!Refers
  <1> QED
    BY <1>1, <1>2, <1>3

\* The provider is neither a callout nor a filter.
LEMMA ProviderIsApart ==
    /\ \A k : Engine!ProviderObject # Engine!CalloutOf(k)
    /\ Engine!ProviderObject \notin Engine!Filters
  BY DEF Engine!ProviderObject, Engine!CalloutOf, Engine!FilterOf, Engine!Filters

LEMMA ControllerIsNobody == NoOwner \notin Controllers
  BY ControllersAreProcesses

\* Sessions open and close: who owns the ones that stay does not change.
LEMMA OwnersAfter ==
  ASSUME ObjectsOwned, NEW c \in Controllers, NEW opened, NEW closed,
         Engine!OpenAndClose(c, opened, closed)
  PROVE  /\ owner' \in [Sessions -> Controllers \cup {NoOwner}]
         /\ \A x \in objects : x[2] \notin closed =>
               x[2] \in Sessions /\ owner'[x[2]] = owner[x[2]]
  BY ControllerIsNobody DEF ObjectsOwned, Engine!OpenAndClose

\* Closing sessions, and deleting callouts before, leaves ownership in order.
LEMMA RemovalKeeps ==
  ASSUME ObjectsOwned, OneProvider, NEW c \in Controllers, NEW opened, NEW closed,
         NEW gone \in SUBSET Engine!Deletable(c), Engine!OpenAndClose(c, opened, closed),
         objects' = {x \in objects \ gone : x[2] \notin closed}
  PROVE  ObjectsOwned' /\ OneProvider'
  <1>1. ObjectsOwned'
    BY OwnersAfter DEF ObjectsOwned
  <1>2. ASSUME NEW x \in objects'
        PROVE  <<Engine!ProviderObject, x[2]>> \in objects'
    <2>1. x \in objects /\ x[2] \notin closed
      OBVIOUS
    <2>2. <<Engine!ProviderObject, x[2]>> \in objects
      BY <2>1 DEF OneProvider
    <2>3. <<Engine!ProviderObject, x[2]>> \notin gone
      BY ProviderIsApart DEF Engine!Deletable
    <2> QED
      BY <2>1, <2>2, <2>3
  <1>3. \A x, y \in objects' : x[1] = Engine!ProviderObject /\ y[1] = Engine!ProviderObject => x = y
    BY DEF OneProvider
  <1> QED
    BY <1>1, <1>2, <1>3 DEF OneProvider

LEMMA EngineKeeps ==
  ASSUME ObjectsOwned, OneProvider, NEW c \in Controllers,
         Engine!Open(c) \/ Engine!Add(c) \/ Engine!Remove(c)
  PROVE  ObjectsOwned' /\ OneProvider'
  <1>1. CASE Engine!Open(c)
    <2>1. PICK s \in Sessions, closed \in SUBSET Sessions :
             /\ Engine!OpenAndClose(c, {s}, closed)
             /\ objects' = {x \in objects : x[2] \notin closed}
      BY <1>1 DEF Engine!Open
    <2>2. /\ {} \in SUBSET Engine!Deletable(c)
          /\ objects' = {x \in objects \ {} : x[2] \notin closed}
      BY <2>1
    <2> QED
      BY <2>1, <2>2, RemovalKeeps
  <1>2. CASE Engine!Add(c)
    <2>1. PICK s \in Engine!Owned(c), o \in Engine!EngineObjects :
             /\ o \in Engine!Filters \/ \A x \in objects : x[1] # o
             /\ \A r \in Engine!Refers(o) : <<r, s>> \in objects
             /\ objects' = objects \cup {<<o, s>>} /\ UNCHANGED owner
      BY <1>2 DEF Engine!Add
    <2>2. s \in Sessions /\ owner[s] = c
      BY DEF Engine!Owned
    <2>3. ObjectsOwned'
      BY <2>1, <2>2 DEF ObjectsOwned
    <2>4. <<Engine!ProviderObject, s>> \in objects'
      BY <2>1, AllReferToProvider
    <2>5. \A x, y \in objects' :
             x[1] = Engine!ProviderObject /\ y[1] = Engine!ProviderObject => x = y
      BY <2>1, ProviderIsApart DEF OneProvider
    <2> QED
      BY <2>1, <2>3, <2>4, <2>5 DEF OneProvider
  <1>3. CASE Engine!Remove(c)
    BY <1>3, RemovalKeeps DEF Engine!Remove
  <1> QED
    BY <1>1, <1>2, <1>3

-----------------------------------------------------------------------------
(* Calls.                                                                  *)

\* The contexts a packet can meet are those of controllers that filter, and
\* the process that filters is one at a time.
LEMMA ContextFilters ==
  ASSUME ObjectsOwned, OneProvider, NEW k \in FilteredCallouts, NEW context \in Contexts(k)
  PROVE  context \in Controllers /\ Filtering = {context}
  <1>1. PICK x \in objects : x[1] = Engine!FilterOf(k) /\ context = owner[x[2]]
    BY DEF Contexts
  <1>2. context \in Controllers
    BY <1>1 DEF ObjectsOwned
  <1>3. Engine!FilterOf(k) \in Engine!Filters
    BY DEF FilteredCallouts, Engine!Filters
  <1>4. ASSUME NEW y \in objects
        PROVE  y[2] = x[2]
    <2>1. /\ <<Engine!ProviderObject, x[2]>> \in objects
          /\ <<Engine!ProviderObject, y[2]>> \in objects
      BY DEF OneProvider
    <2>2. <<Engine!ProviderObject, x[2]>> = <<Engine!ProviderObject, y[2]>>
      BY <2>1 DEF OneProvider
    <2> QED
      BY <2>2
  <1>5. Filtering = {context}
    BY <1>1, <1>3, <1>4 DEF Filtering
  <1> QED
    BY <1>2, <1>5

\* A classify step is one of a call in progress, and starts no other.
LEMMA StepStartsNoCall ==
  ASSUME IInv, NEW t \in Calls, ClassifyStep(t), NEW u \in Calls, call[u] = NoCall
  PROVE  call'[u] = NoCall
  <1>1. call[t].at \in {"Called", "Compare"}
    BY DEF ClassifyStep, ClassifyOutboundTCP, ClassifyInboundTCP, CompareInboundTCP,
       ClassifyOther
  <1>2. t # u
    BY <1>1 DEF NoCall
  <1>3. \E c : call' = [call EXCEPT ![t] = c]
    BY DEF ClassifyStep, ClassifyOutboundTCP, ClassifyInboundTCP, CompareInboundTCP,
       ClassifyOther, Return
  <1> QED
    BY <1>2, <1>3 DEF IInv, TypeOK

\* A packet that meets a filter starts a call for the process that filters.
LEMMA PacketStartsCall ==
  ASSUME FilteringInv, NEW t \in Calls, ClassifyPacket(t),
         NEW u \in Calls, call[u] = NoCall, call'[u] # NoCall
  PROVE  Filtering = {call'[u].context}
  <1>1. PICK k \in FilteredCallouts, port \in Ports, running \in Processes :
           \E context \in Contexts(k) : Classify(t, k, port, running, context)
    BY DEF ClassifyPacket
  <1>2. PICK context \in Contexts(k) : Classify(t, k, port, running, context)
    BY <1>1
  <1> DEFINE new == [at |-> "Called", callout |-> k, port |-> port,
                     process |-> running, context |-> context]
  <1>3. Filtering = {context}
    BY ContextFilters DEF FilteringInv
  <1>4. call' = [call EXCEPT ![t] = new]
    BY <1>2 DEF Classify
  <1>5. new.context = context
    OBVIOUS
  <1> HIDE DEF new
  <1>6. u = t /\ call'[u] = new
    BY <1>4 DEF FilteringInv, IInv, TypeOK
  <1> QED
    BY <1>3, <1>5, <1>6

\* The composition gives the driver no step it does not have on its own: a
\* packet that meets a filter is a classify call of CalloutDriver.
LEMMA StepOfDriver ==
  ASSUME FilteringInv, [NextAll]_composed
  PROVE  [Next]_vars
  <1>1. CASE DriverStep
    BY <1>1 DEF DriverStep, Next
  <1>2. ASSUME NEW c \in Controllers, ControllerStep(c)
        PROVE  UNCHANGED vars
    BY <1>2 DEF ControllerStep
  <1>3. ASSUME NEW t \in Calls, CallStep(t)
        PROVE  Next
    BY <1>3 DEF CallStep, Next
  <1>4. ASSUME NEW t \in Calls, ClassifyPacket(t)
        PROVE  Next
    <2>1. PICK k \in FilteredCallouts, port \in Ports, running \in Processes :
             \E context \in Contexts(k) : Classify(t, k, port, running, context)
      BY <1>4 DEF ClassifyPacket
    <2>2. PICK context \in Contexts(k) : Classify(t, k, port, running, context)
      BY <2>1
    <2>3. k \in Callouts /\ context \in Processes
      BY ContextFilters, ControllersAreProcesses
      DEF FilteringInv, FilteredCallouts, Engine!CalloutNames, Callouts
    <2> QED
      BY <2>2, <2>3 DEF Next
  <1>5. CASE UNCHANGED composed
    BY <1>5 DEF composed
  <1> QED
    BY <1>1, <1>2, <1>3, <1>4, <1>5 DEF NextAll

\* And BFE no step it does not have on its own.
LEMMA StepOfEngine ==
  ASSUME [NextAll]_composed
  PROVE  [Engine!Next]_<<owner, objects>>
  BY DEF NextAll, DriverStep, ControllerStep, CallStep, ClassifyPacket, composed, Engine!Next

-----------------------------------------------------------------------------
(* The inductive invariant.                                                *)

LEMMA InitFiltering == InitAll => FilteringInv
  BY InitIInv DEF InitAll, FilteringInv, Engine!Init, ObjectsOwned, OneProvider

LEMMA NextFiltering == FilteringInv /\ [NextAll]_composed => FilteringInv'
  <1> SUFFICES ASSUME FilteringInv, [NextAll]_composed
               PROVE  FilteringInv'
    OBVIOUS
  <1>1. IInv'
    BY StepOfDriver, NextIInv DEF FilteringInv
  <1>2. ObjectsOwned' /\ OneProvider'
    <2>1. ASSUME NEW c \in Controllers, ControllerStep(c)
          PROVE  ObjectsOwned' /\ OneProvider'
      BY <2>1, EngineKeeps DEF ControllerStep, FilteringInv
    <2>2. CASE UNCHANGED <<owner, objects>>
      BY <2>2 DEF FilteringInv, ObjectsOwned, OneProvider
    <2> QED
      BY <2>1, <2>2 DEF NextAll, DriverStep, CallStep, ClassifyPacket, composed
  <1> QED
    BY <1>1, <1>2 DEF FilteringInv

LEMMA FilteringInvariance == SpecAll => []FilteringInv
  BY InitFiltering, NextFiltering, PTL DEF SpecAll

-----------------------------------------------------------------------------
(* Theorems.                                                               *)

\* The composition is a behaviour of the driver as CalloutDriver has it, and of
\* BFE as FilterEngine has it: what is proved of either alone holds in it.
THEOREM DriverImplemented == SpecAll => Spec
  <1>1. InitAll => Init
    BY DEF InitAll
  <1> QED
    BY <1>1, StepOfDriver, FilteringInvariance, PTL DEF SpecAll, Spec

THEOREM EngineImplemented == SpecAll => Engine!Spec
  <1>1. InitAll => Engine!Init
    BY DEF InitAll
  <1> QED
    BY <1>1, StepOfEngine, PTL DEF SpecAll, Engine!Spec, Engine!engineVars

\* A new call is for the one process whose filters are there.
THEOREM CallsForOneProcess == SpecAll => OneContextAtATime
  <1>1. FilteringInv /\ [NextAll]_composed =>
            [\A t \in Calls : call[t] = NoCall /\ call'[t] # NoCall =>
                Filtering = {call'[t].context}]_composed
    <2> SUFFICES ASSUME FilteringInv, NextAll, NEW u \in Calls,
                        call[u] = NoCall, call'[u] # NoCall
                 PROVE  Filtering = {call'[u].context}
      OBVIOUS
    <2>1. CASE DriverStep
      BY <2>1 DEF DriverStep, Load, EntryStep, Create, CreateDevice, RegisterCallout,
         FreeInit, Unload, UnloadStep, UnregisterCallout, CalloutDrained, traffic
    <2>2. ASSUME NEW c \in Controllers, ControllerStep(c)
          PROVE  FALSE
      BY <2>2 DEF ControllerStep, vars, traffic
    <2>3. ASSUME NEW t \in Calls, CallStep(t)
          PROVE  FALSE
      BY <2>3, StepStartsNoCall DEF CallStep, FilteringInv
    <2>4. ASSUME NEW t \in Calls, ClassifyPacket(t)
          PROVE  Filtering = {call'[u].context}
      BY <2>4, PacketStartsCall
    <2> QED
      BY <2>1, <2>2, <2>3, <2>4 DEF NextAll
  <1> QED
    BY <1>1, FilteringInvariance, PTL DEF SpecAll, OneContextAtATime
=============================================================================
