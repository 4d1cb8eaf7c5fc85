--------------------------- MODULE WFPController ----------------------------
(***************************************************************************)
(* The user-mode controller: main's command loop, WFPEngine and Callout    *)
(* (src/WFPController), for any number of controller processes that share  *)
(* one Base Filtering Engine (BFE).                                        *)
(*                                                                         *)
(* An open session is kept by shared_ptrs: m_engineHandle and the handle   *)
(* in each of the four Callout objects.  The session is dynamic: BFE       *)
(* deletes what was added through it when its last handle is closed.  What *)
(* BFE does is external: a key can be added once, an object can only refer *)
(* to objects of its own session, what is referred to cannot be deleted,   *)
(* and any call can fail.                                                  *)
(***************************************************************************)
EXTENDS Integers, Sequences

CONSTANTS
    Controllers,   \* the controller processes
    Sessions,      \* the sessions BFE can have open
    None           \* a null handle, and the owner of a session that is not open

ASSUME NoneIsNoSession == None \notin Sessions /\ None \notin Controllers

VARIABLES
    pc,        \* where each process is
    at,        \* the callout or filter it has come to
    command,   \* the command it executes: "one" step, "all", or "exit"
    engine,    \* m_engineHandle
    handle,    \* m_engineHandle of each Callout
    added,     \* the Callouts whose m_calloutId # 0
    objects    \* BFE: the objects, each with the session that added it

process == <<pc, at, command>>
handles == <<engine, handle>>
vars == <<process, handles, added, objects>>

Callouts == {"OutboundTCP", "OutboundIPv4", "InboundICMPError", "OutboundICMPError"}

\* The order of AddCallouts, of AddFilters and Close, and of the destructors.
AddOrder == <<"OutboundTCP", "OutboundIPv4", "InboundICMPError", "OutboundICMPError">>
FilterOrder == <<"OutboundIPv4", "InboundICMPError", "OutboundICMPError", "OutboundTCP">>
DestroyOrder == <<"OutboundTCP", "OutboundICMPError", "InboundICMPError", "OutboundIPv4">>

\* BFE's objects.  Filters have no key: each call of FwpmFilterAdd0 adds one.
CalloutObject(k) == <<"callout", k>>
FilterObject(k) == <<"filter", k>>
Provider == <<"provider", "ProviderKey">>
Context == <<"context", "ProviderContextKey">>
Sublayer == <<"sublayer", "SublayerKey">>
Objects == {Provider, Context, Sublayer}
           \cup {CalloutObject(k) : k \in Callouts} \cup {FilterObject(k) : k \in Callouts}

Point == {"Prompt", "Open", "Provider", "Context", "Sublayer", "Replace", "Add",
          "Filters", "Close", "CloseEngine", "Destroy", "Gone"}

Init ==
    /\ pc = [c \in Controllers |-> "Gone"]
    /\ at = [c \in Controllers |-> 1]
    /\ command = [c \in Controllers |-> "one"]
    /\ engine = [c \in Controllers |-> None]
    /\ handle = [c \in Controllers |-> [k \in Callouts |-> None]]
    /\ added = [c \in Controllers |-> {}]
    /\ objects = {}

-----------------------------------------------------------------------------
(* Sessions.                                                               *)

\* The sessions a process keeps open.
Held(c) == ({engine[c]} \cup {handle[c][k] : k \in Callouts}) \ {None}

Open == UNION {Held(c) : c \in Controllers}

\* Mutant: a session that is not dynamic.
KeepAll(objs, open) == objs

\* The session is opened with FWPM_SESSION_FLAG_DYNAMIC, and the deleter of the
\* last shared_ptr calls FwpmEngineClose0: BFE drops what was added through it.
Keep(objs, open) == {x \in objs : x[2] \in open}

-----------------------------------------------------------------------------
(* Control.                                                                *)

\* Where a step of "all" goes on; a command on its own returns to the prompt.
AfterStep ==
    [p \in {"Open", "Provider", "Context", "Sublayer", "Add", "Filters"} |->
        CASE p = "Open" -> "Provider"
          [] p = "Provider" -> "Context"
          [] p = "Context" -> "Sublayer"
          [] p = "Sublayer" -> "Replace"
          [] p = "Add" -> "Filters"
          [] p = "Filters" -> "Prompt"]

Goto(c, p, i) ==
    /\ pc' = [pc EXCEPT ![c] = p]
    /\ at' = [at EXCEPT ![c] = i]

Done(c) ==
    /\ Goto(c, IF command[c] = "all" THEN AfterStep[pc[c]] ELSE "Prompt", 1)
    /\ UNCHANGED command

\* Mutant: main catches exceptions inside its loop.
ThrowCaught(c) ==
    /\ Goto(c, "Prompt", 1)
    /\ UNCHANGED command

\* An exception: main catches it outside its loop and returns, so the engine
\* is destroyed; ~WFPEngine starts with Close.
Throw(c) ==
    /\ Goto(c, "Close", 1)
    /\ command' = [command EXCEPT ![c] = "exit"]

\* The user starts a controller, and types a command; "connect" can also end
\* the program, by an exception, and "exit" does.
Start(c) ==
    /\ pc[c] = "Gone"
    /\ Goto(c, "Prompt", 1)
    /\ command' = [command EXCEPT ![c] = "one"]
    /\ UNCHANGED <<handles, added, objects>>

Type(c) ==
    /\ pc[c] = "Prompt"
    /\ \/ /\ \E p \in {"Open", "Provider", "Context", "Sublayer", "Replace", "Filters", "Close"} :
                Goto(c, p, 1)
          /\ command' = [command EXCEPT ![c] = "one"]
       \/ /\ Goto(c, "Open", 1)
          /\ command' = [command EXCEPT ![c] = "all"]
       \/ /\ Goto(c, "Close", 1)
          /\ command' = [command EXCEPT ![c] = "exit"]
    /\ UNCHANGED <<handles, added, objects>>

-----------------------------------------------------------------------------
(* The commands.                                                           *)

\* OpenFilterEngine: the new handle replaces the old one, and closes its
\* session unless a Callout still shares it.
OpenFilterEngine(c) ==
    /\ pc[c] = "Open"
    /\ \/ \E s \in Sessions \ Open :
             /\ engine' = [engine EXCEPT ![c] = s]
             /\ UNCHANGED handle
             /\ objects' = Keep(objects, Open')
             /\ Done(c)
       \/ Throw(c) /\ UNCHANGED <<handles, objects>>
    /\ UNCHANGED added

\* BFE adds object o for the session of process c if its key is new and what
\* it refers to is there.
Exists(o) == \E s \in Sessions : <<o, s>> \in objects

BfeAdds(c, o, refs) ==
    /\ engine[c] # None
    /\ o \in {FilterObject(k) : k \in Callouts} \/ ~Exists(o)
    /\ \A r \in refs : <<r, engine[c]>> \in objects
    /\ objects' = objects \cup {<<o, engine[c]>>}

\* RegisterProvider, AddContext, AddSublayer: one call, which fails without a
\* session.
AddOne(c, p, o, refs) ==
    /\ pc[c] = p
    /\ \/ BfeAdds(c, o, refs) /\ Done(c)
       \/ Throw(c) /\ UNCHANGED objects
    /\ UNCHANGED <<handles, added>>

\* Mutant: a sublayer without providerKey.
AddSublayerAnyProvider(c) == AddOne(c, "Sublayer", Sublayer, {})

RegisterProvider(c) == AddOne(c, "Provider", Provider, {})
AddContext(c) == AddOne(c, "Context", Context, {Provider})
AddSublayer(c) == AddOne(c, "Sublayer", Sublayer, {Provider})

\* What FwpmCalloutDeleteByKey0 can leave of BFE's objects: the callout goes if
\* no filter refers to it, whatever session asks.
Deleted(k) ==
    IF Exists(FilterObject(k))
    THEN {objects}
    ELSE {objects, {x \in objects : x[1] # CalloutObject(k)}}

\* Mutant: Callout::Remove without the check of m_calloutId.
RemovesAny(c, k) == handle[c][k] # None

\* Does Callout::Remove do anything?
Removes(c, k) == k \in added[c] /\ handle[c][k] # None

\* Callout::Remove by process c, whose Callout k holds session h afterwards.
\* Nobody looks at the status of the deletion but to print it.
RemoveThen(c, k, h) ==
    /\ handle' = [handle EXCEPT ![c][k] = h]
    /\ added' = [added EXCEPT ![c] = @ \ {k}]
    /\ UNCHANGED engine
    /\ \E objs \in IF Removes(c, k) THEN Deleted(k) ELSE {objects} :
          objects' = Keep(objs, Open')

Remove(c, k) == RemoveThen(c, k, IF Removes(c, k) THEN None ELSE handle[c][k])

\* Add*Callout, first half: the move assignment of a new Callout, which
\* removes the one it replaces.
ReplaceCallout(c) ==
    /\ pc[c] = "Replace"
    /\ \/ /\ engine[c] # None
          /\ RemoveThen(c, AddOrder[at[c]], engine[c])
          /\ Goto(c, "Add", at[c])
          /\ UNCHANGED command
       \/ /\ engine[c] = None
          /\ Throw(c)
          /\ UNCHANGED <<handles, added, objects>>

\* Second half: Callout::Add.
AddCallout(c) ==
    /\ pc[c] = "Add"
    /\ LET k == AddOrder[at[c]] IN
          \/ /\ BfeAdds(c, CalloutObject(k), {Provider})
             /\ added' = [added EXCEPT ![c] = @ \cup {k}]
             /\ IF at[c] < 4 THEN Goto(c, "Replace", at[c] + 1) /\ UNCHANGED command
                             ELSE Done(c)
          \/ Throw(c) /\ UNCHANGED <<objects, added>>
    /\ UNCHANGED handles

\* Mutant: the status of FwpmFilterAdd0 is not looked at.
AddFilterUnchecked(c) ==
    /\ pc[c] = "Filters"
    /\ LET k == FilterOrder[at[c]] IN
          /\ \/ BfeAdds(c, FilterObject(k), {Provider, Context, Sublayer, CalloutObject(k)})
             \/ UNCHANGED objects
          /\ IF at[c] < 4 THEN Goto(c, "Filters", at[c] + 1) /\ UNCHANGED command
                          ELSE Done(c)
    /\ UNCHANGED <<handles, added>>

\* AddFilters, one AddFilter.
AddFilter(c) ==
    /\ pc[c] = "Filters"
    /\ LET k == FilterOrder[at[c]] IN
          \/ /\ BfeAdds(c, FilterObject(k), {Provider, Context, Sublayer, CalloutObject(k)})
             /\ IF at[c] < 4 THEN Goto(c, "Filters", at[c] + 1) /\ UNCHANGED command
                             ELSE Done(c)
          \/ Throw(c) /\ UNCHANGED objects
    /\ UNCHANGED <<handles, added>>

-----------------------------------------------------------------------------
(* Close, the destructors, and the end of the process.                     *)

CloseReturns(c) ==
    /\ Goto(c, IF command[c] = "exit" THEN "Destroy" ELSE "Prompt", 1)
    /\ UNCHANGED command

\* Mutant: Remove insists on the deletion.
CloseCalloutsInsists(c) ==
    /\ pc[c] = "Close"
    /\ engine[c] # None
    /\ LET k == FilterOrder[at[c]] IN
          /\ Removes(c, k) => ~Exists(FilterObject(k))
          /\ Remove(c, k)
    /\ IF at[c] < 4 THEN Goto(c, "Close", at[c] + 1) ELSE Goto(c, "CloseEngine", 1)
    /\ UNCHANGED command

\* Close without a session, and its four calls of Callout::Remove.
CloseNothing(c) ==
    /\ pc[c] = "Close"
    /\ engine[c] = None
    /\ CloseReturns(c)
    /\ UNCHANGED <<handles, added, objects>>

CloseCallouts(c) ==
    /\ pc[c] = "Close"
    /\ engine[c] # None
    /\ Remove(c, FilterOrder[at[c]])
    /\ IF at[c] < 4 THEN Goto(c, "Close", at[c] + 1) ELSE Goto(c, "CloseEngine", 1)
    /\ UNCHANGED command

\* m_engineHandle = nullptr.
CloseEngine(c) ==
    /\ pc[c] = "CloseEngine"
    /\ engine' = [engine EXCEPT ![c] = None]
    /\ UNCHANGED <<handle, added>>
    /\ objects' = Keep(objects, Open')
    /\ CloseReturns(c)

\* ~Callout and its members, for each Callout.
DestroyCallout(c) ==
    /\ pc[c] = "Destroy"
    /\ RemoveThen(c, DestroyOrder[at[c]], None)
    /\ IF at[c] < 4 THEN Goto(c, "Destroy", at[c] + 1) ELSE Goto(c, "Gone", 1)
    /\ UNCHANGED command

\* The process is killed: BFE closes its sessions.
Kill(c) ==
    /\ pc[c] # "Gone"
    /\ Goto(c, "Gone", 1)
    /\ engine' = [engine EXCEPT ![c] = None]
    /\ handle' = [handle EXCEPT ![c] = [k \in Callouts |-> None]]
    /\ added' = [added EXCEPT ![c] = {}]
    /\ objects' = Keep(objects, Open')
    /\ UNCHANGED command

-----------------------------------------------------------------------------
(* The specification.                                                      *)

Step(c) ==
    \/ OpenFilterEngine(c) \/ RegisterProvider(c) \/ AddContext(c) \/ AddSublayer(c)
    \/ ReplaceCallout(c) \/ AddCallout(c) \/ AddFilter(c)
    \/ CloseNothing(c) \/ CloseCallouts(c) \/ CloseEngine(c) \/ DestroyCallout(c)

Next == \E c \in Controllers : Start(c) \/ Type(c) \/ Step(c) \/ Kill(c)

Spec == Init /\ [][Next]_vars

\* Every call of BFE returns.
FairSpec == Spec /\ \A c \in Controllers : WF_vars(Step(c))

-----------------------------------------------------------------------------
(* Properties.                                                             *)

TypeOK ==
    /\ pc \in [Controllers -> Point]
    /\ at \in [Controllers -> 1..4]
    /\ command \in [Controllers -> {"one", "all", "exit"}]
    /\ engine \in [Controllers -> Sessions \cup {None}]
    /\ handle \in [Controllers -> [Callouts -> Sessions \cup {None}]]
    /\ added \in [Controllers -> SUBSET Callouts]
    /\ objects \subseteq Objects \X Sessions

\* "Type `close` to end filtering" (WPFCalloutDriver/README.md:27): after close,
\* after exit and after a failure a process holds no session, not even by a
\* Callout added through a session that has been replaced since.
CloseEndsFiltering ==
    \A c \in Controllers :
        pc[c] \in {"Prompt", "Gone"} /\ engine[c] = None => Held(c) = {}

\* Whatever the user types, whatever fails and whoever is killed, BFE keeps no
\* object of a session that nobody holds.
NothingOutlivesItsSession == \A x \in objects : x[2] \in Open

\* A Callout with an id is an object of BFE, and it was added through the very
\* session the Callout holds: Remove deletes what it added or nothing.
CalloutsTracked ==
    \A c \in Controllers : \A k \in added[c] :
        <<CalloutObject(k), handle[c][k]>> \in objects

\* "all" installs everything in one session or ends the program; it never
\* comes back to the prompt with a part of it.
AllOrExit ==
    \A c \in Controllers :
        (pc[c] = "Prompt" /\ command[c] = "all") =>
            \A o \in Objects : <<o, engine[c]>> \in objects

\* What one process does leaves the objects of another alone, although all of
\* them use the same keys.
OthersUntouched ==
    [][\A c \in Controllers :
          (UNCHANGED <<pc[c], at[c], command[c]>>) =>
              \A x \in objects : x[2] \in Held(c) => x \in objects']_vars

\* What the processes do together implements FilterEngine: the owner of a
\* session is the process that holds a handle to it.
SessionOwner ==
    [s \in Sessions |->
        IF s \in Open THEN CHOOSE c \in Controllers : s \in Held(c) ELSE None]

Engine == INSTANCE FilterEngine WITH owner <- SessionOwner, NoOwner <- None

ImplementsFilterEngine == Engine!Spec

\* Two controllers never filter at the same time: all objects of BFE, whoever
\* added them and whatever failed, belong to one session.
OneControllerFilters == \A x, y \in objects : x[2] = y[2]

\* A process shares its sessions with no other, and a key names one object.
SessionsNotShared ==
    \A c, d \in Controllers : c # d => Held(c) \cap Held(d) = {}

KeysUnique ==
    \A x, y \in objects :
        (x[1] = y[1] /\ x[1] \notin {FilterObject(k) : k \in Callouts}) => x = y

\* Where a process can be with which handles: a Callout has a handle without
\* an id only in the middle of AddCallouts or on the way out, Close gets rid
\* of the handles one by one, and so does the destructor.
Empty(c) == \A k \in Callouts : handle[c][k] = None

ProcessInv(c) ==
    /\ command[c] = "exit" => pc[c] \in {"Close", "CloseEngine", "Destroy", "Gone"}
    /\ pc[c] = "Destroy" => command[c] = "exit"
    /\ pc[c] \in {"Destroy", "Gone"} => engine[c] = None
    /\ pc[c] = "CloseEngine" => engine[c] # None
    /\ pc[c] = "Gone" => Empty(c)
    /\ pc[c] = "Add" => engine[c] # None /\ handle[c][AddOrder[at[c]]] = engine[c]
    /\ command[c] # "exit" /\ (engine[c] = None \/ pc[c] = "CloseEngine") => Empty(c)
    /\ command[c] # "exit" /\ pc[c] = "Close" =>
          \A i \in 1..4 : i < at[c] => handle[c][FilterOrder[i]] = None
    /\ pc[c] = "Destroy" =>
          \A i \in 1..4 : i < at[c] => handle[c][DestroyOrder[i]] = None
    /\ command[c] # "exit" =>
          \A k \in Callouts : handle[c][k] # None /\ k \notin added[c] =>
              pc[c] = "Add" /\ k = AddOrder[at[c]]

\* The inductive invariant of the proofs.
IInv == /\ TypeOK /\ \A c \in Controllers : ProcessInv(c)
        /\ SessionsNotShared /\ KeysUnique /\ CalloutsTracked /\ NothingOutlivesItsSession

\* The part of AllOrExit that is done when "all" has come to a point.
Installed(c, o) ==
    \/ o = Provider
       /\ pc[c] \in {"Context", "Sublayer", "Replace", "Add", "Filters", "Prompt"}
    \/ o = Context /\ pc[c] \in {"Sublayer", "Replace", "Add", "Filters", "Prompt"}
    \/ o = Sublayer /\ pc[c] \in {"Replace", "Add", "Filters", "Prompt"}
    \/ \E i \in 1..4 :
          /\ o = CalloutObject(AddOrder[i])
          /\ pc[c] \in {"Filters", "Prompt"} \/ (pc[c] \in {"Replace", "Add"} /\ i < at[c])
    \/ \E i \in 1..4 :
          /\ o = FilterObject(FilterOrder[i])
          /\ pc[c] = "Prompt" \/ (pc[c] = "Filters" /\ i < at[c])

AllInv ==
    \A c \in Controllers : command[c] = "all" =>
        /\ pc[c] \notin {"Close", "CloseEngine", "Destroy"}
        /\ pc[c] \notin {"Open", "Gone"} => engine[c] # None
        /\ \A o \in Objects : Installed(c, o) => <<o, engine[c]>> \in objects

\* Every command comes to an end, also when callouts are still in use.
CommandsEnd == \A c \in Controllers : (pc[c] # "Prompt") ~> (pc[c] \in {"Prompt", "Gone"})
=============================================================================
