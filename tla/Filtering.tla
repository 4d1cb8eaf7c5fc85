----------------------------- MODULE Filtering ------------------------------
(***************************************************************************)
(* The controllers and the callout driver together.  The controllers are   *)
(* FilterEngine, which WFPController implements; the driver is             *)
(* CalloutDriver as it stands.  They meet in the filter engine: a packet   *)
(* is classified by a callout of the driver if a filter names that callout *)
(* by its key, and the context of the call is the process id that          *)
(* AddContext put into the session of the filter.                          *)
(***************************************************************************)
EXTENDS CalloutDriver

CONSTANTS
    Controllers,   \* the processes that run WFPController
    Sessions,      \* the sessions of BFE
    NoOwner,       \* the owner of a session that is not open
    UsedCallouts   \* bound on the callouts the controllers add, for TLC

ASSUME ControllersAreProcesses == Controllers \subseteq Processes /\ NoOwner \notin Processes

VARIABLES
    owner,     \* the process that keeps each session open
    objects    \* BFE's objects

Engine == INSTANCE FilterEngine

ASSUME UsedCalloutsAreTheirs == UsedCallouts \subseteq Engine!CalloutNames

composed == <<vars, owner, objects>>

\* The callouts the controller adds filters for: the driver has one more.
FilteredCallouts == Engine!CalloutNames

\* The processes with a filter at this moment.
Filtering == {owner[x[2]] : x \in {y \in objects : y[1] \in Engine!Filters}}

\* Is a call in progress that looks for packets of process c?
Watching(c) == \E t \in Calls : call[t] # NoCall /\ call[t].context = c

InitAll == Init /\ Engine!Init

\* Mutant: AddContext enters some other process id than that of its controller.
ContextsOfOthers(k) ==
    {c \in Controllers : \E x \in objects :
        /\ x[1] = Engine!FilterOf(k) /\ <<Engine!ContextObject, x[2]>> \in objects
        /\ owner[x[2]] # c}

\* The filters a packet at the layer of callout k meets, each with the context
\* of its session.
Contexts(k) ==
    {owner[x[2]] : x \in {y \in objects :
        y[1] = Engine!FilterOf(k) /\ <<Engine!ContextObject, y[2]>> \in objects}}

\* A packet of some process meets a filter.
ClassifyPacket(t) ==
    /\ \E k \in FilteredCallouts, port \in Ports, running \in Processes :
          \E context \in Contexts(k) : Classify(t, k, port, running, context)
    /\ UNCHANGED <<owner, objects>>

\* A step of a controller.
ControllerStep(c) ==
    /\ Engine!Open(c) \/ Engine!Add(c) \/ Engine!Remove(c)
    /\ \A x \in objects', k \in Engine!CalloutNames \ UsedCallouts : x[1] # Engine!CalloutOf(k)
    /\ UNCHANGED vars

\* A step of the driver.
DriverStep == (Load \/ EntryStep \/ Unload \/ UnloadStep) /\ UNCHANGED <<owner, objects>>

CallStep(t) == ClassifyStep(t) /\ UNCHANGED <<owner, objects>>

NextAll ==
    \/ DriverStep
    \/ \E c \in Controllers : ControllerStep(c)
    \/ \E t \in Calls : CallStep(t) \/ ClassifyPacket(t)

SpecAll == InitAll /\ [][NextAll]_composed

\* As in CalloutDriver: driver code that is running keeps running.
FairSpecAll ==
    /\ SpecAll
    /\ WF_composed(EntryStep /\ UNCHANGED <<owner, objects>>)
    /\ WF_composed(UnloadStep /\ UNCHANGED <<owner, objects>>)
    /\ \A t \in Calls : WF_composed(CallStep(t))

-----------------------------------------------------------------------------
(* Properties.                                                             *)

\* Although any number of controllers can be running, a packet meets the
\* filters of one of them only: a new call is for the one process that filters.
OneContextAtATime ==
    [][\A t \in Calls : call[t] = NoCall /\ call'[t] # NoCall =>
          Filtering = {call'[t].context}]_composed

\* "Type `close` to end filtering" (WPFCalloutDriver/README.md:27): once a
\* process has closed its sessions for good, the calls that were looking for
\* its packets end, and there are no new ones.
CloseEndsWatching ==
    \A c \in Controllers : <>[](Engine!Owned(c) = {}) => <>[]~Watching(c)

\* BFE only has objects of sessions that a controller keeps open, ...
ObjectsOwned ==
    /\ owner \in [Sessions -> Controllers \cup {NoOwner}]
    /\ objects \subseteq Engine!EngineObjects \X Sessions
    /\ \A x \in objects : owner[x[2]] \in Controllers

\* ... and all of them in the session of the one provider.
OneProvider ==
    /\ \A x \in objects : <<Engine!ProviderObject, x[2]>> \in objects
    /\ \A x, y \in objects :
          x[1] = Engine!ProviderObject /\ y[1] = Engine!ProviderObject => x = y

\* The inductive invariant of the proofs, with that of CalloutDriver.
FilteringInv == IInv /\ ObjectsOwned /\ OneProvider
=============================================================================
