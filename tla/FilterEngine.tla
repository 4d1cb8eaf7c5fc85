---------------------------- MODULE FilterEngine -----------------------------
(***************************************************************************)
(* What the controllers promise about the Base Filtering Engine (BFE): an  *)
(* object is only ever there for a process that keeps the session open     *)
(* through which it added the object; a process only touches objects of    *)
(* its own; and what an object refers to is there, in the same session.    *)
(* WFPController implements this.                                          *)
(***************************************************************************)
CONSTANTS
    Controllers,   \* the processes
    Sessions,      \* the sessions BFE can have open
    NoOwner        \* the owner of a session that is not open

VARIABLES
    owner,     \* the process that keeps each session open
    objects    \* the objects, each with the session that added it

engineVars == <<owner, objects>>

CalloutNames == {"OutboundTCP", "OutboundIPv4", "InboundICMPError", "OutboundICMPError"}

ProviderObject == <<"provider", "ProviderKey">>
ContextObject == <<"context", "ProviderContextKey">>
SublayerObject == <<"sublayer", "SublayerKey">>
CalloutOf(k) == <<"callout", k>>
FilterOf(k) == <<"filter", k>>

Filters == {FilterOf(k) : k \in CalloutNames}
EngineObjects ==
    {ProviderObject, ContextObject, SublayerObject}
    \cup {CalloutOf(k) : k \in CalloutNames} \cup Filters

\* What an object refers to: everything but the provider refers to that, and
\* a filter to its callout, the sublayer and the context.
Refers(o) ==
    CASE o = ProviderObject -> {}
      [] o \in Filters -> {ProviderObject, ContextObject, SublayerObject, CalloutOf(o[2])}
      [] OTHER -> {ProviderObject}

Init ==
    /\ owner = [s \in Sessions |-> NoOwner]
    /\ objects = {}

Owned(c) == {s \in Sessions : owner[s] = c}

\* Process c opens the sessions in opened and closes those in closed, with
\* everything that was added through them.
OpenAndClose(c, opened, closed) ==
    /\ \A s \in opened : owner[s] = NoOwner
    /\ \A s \in closed : owner[s] = c
    /\ owner' = [s \in Sessions |->
                    IF s \in opened THEN c ELSE IF s \in closed THEN NoOwner ELSE owner[s]]

\* A session is opened, and perhaps old ones are closed.
Open(c) ==
    /\ \E s \in Sessions, closed \in SUBSET Sessions :
          /\ OpenAndClose(c, {s}, closed)
          /\ objects' = {x \in objects : x[2] \notin closed}

\* An object is added; only filters can be added twice.
Add(c) ==
    /\ \E s \in Owned(c), o \in EngineObjects :
          /\ o \in Filters \/ \A x \in objects : x[1] # o
          /\ \A r \in Refers(o) : <<r, s>> \in objects
          /\ objects' = objects \cup {<<o, s>>}
    /\ UNCHANGED owner

\* The callouts of process c that no filter refers to.
Deletable(c) ==
    {x \in objects :
        /\ x[2] \in Owned(c)
        /\ \E k \in CalloutNames : x[1] = CalloutOf(k) /\ \A y \in objects : y[1] # FilterOf(k)}

\* Sessions are closed, and before that some of these callouts deleted.
Remove(c) ==
    \E closed \in SUBSET Sessions, gone \in SUBSET Deletable(c) :
        /\ OpenAndClose(c, {}, closed)
        /\ objects' = {x \in objects \ gone : x[2] \notin closed}

Next == \E c \in Controllers : Open(c) \/ Add(c) \/ Remove(c)

Spec == Init /\ [][Next]_engineVars
=============================================================================
