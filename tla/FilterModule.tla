---------------------------- MODULE FilterModule ----------------------------
(***************************************************************************)
(* One filter module of FilterDriver: the MS_FILTER context of one network *)
(* adapter (NfdCore.hpp), the Attach / Restart / Pause / Detach entry      *)
(* points that move it between states, and the four datapath handlers that *)
(* run concurrently with them and with each other (main.cpp).              *)
(*                                                                         *)
(* A call of a datapath handler occupies a slot of Calls.  A handler is    *)
(* cut into one step per critical section of pFilter->Lock and one per     *)
(* call out into NDIS; the counter updates under the lock are cut once     *)
(* more, into the load and the store of the C expression.  Attach, Restart *)
(* and Detach run at PASSIVE_LEVEL on NDIS's PnP thread, one after the     *)
(* other, together with FilterPause, whose steps are told apart.           *)
(*                                                                         *)
(* NDIS, the protocol above and the miniport below are the environment:    *)
(* they own the NET_BUFFER_LISTs the filter does not hold and decide when  *)
(* a handler is called.                                                    *)
(***************************************************************************)
EXTENDS Integers, FiniteSets

CONSTANTS
    Calls,      \* slots for datapath handler calls that run at one time
    SendNBLs,   \* NET_BUFFER_LISTs of the protocol above (sends)
    RcvNBLs,    \* NET_BUFFER_LISTs of the miniport below (receives)
    PnP,        \* NDIS's PnP thread
    NoOwner,    \* the owner of a free spin lock
    DBG,        \* is this the checked build (#if DBG)?
    Modulus     \* number of values of a ULONG

NBLs == SendNBLs \cup RcvNBLs

ASSUME CallsFinite == IsFiniteSet(Calls)
ASSUME NblsFinite == IsFiniteSet(SendNBLs) /\ IsFiniteSet(RcvNBLs)
ASSUME NblsDisjoint == SendNBLs \cap RcvNBLs = {}
ASSUME OwnersDistinct == PnP \notin Calls /\ NoOwner \notin Calls \cup {PnP}
ASSUME BuildChosen == DBG \in BOOLEAN
\* There is one ULONG value more than packets that can be counted at once.
ASSUME CountersFit ==
    /\ Modulus \in Nat
    /\ Cardinality(SendNBLs) < Modulus
    /\ Cardinality(RcvNBLs) + Cardinality(Calls) * Cardinality(RcvNBLs) < Modulus

VARIABLES
    State,              \* pFilter->State
    OutstandingSends,   \* pFilter->OutstandingSends
    OutstandingRcvs,    \* pFilter->OutstandingRcvs
    Lock,               \* the owner of pFilter->Lock
    pnp,                \* where the PnP thread is
    pc,                 \* where each handler call is
    chain,              \* the NetBufferLists argument of each call
    canPend,            \* NDIS_TEST_RECEIVE_CAN_PEND of a receive call
    ref,                \* the counter value a call has loaded
    where               \* who holds each NBL

context == <<State, OutstandingSends, OutstandingRcvs>>
locals == <<pc, chain, canPend, ref>>
vars == <<context, Lock, pnp, locals, where>>

-----------------------------------------------------------------------------
(* Values.                                                                 *)

\* Initialized, Restarting and Detaching are declared and never assigned.
FILTER_STATE == {"FilterStateUnspecified", "FilterInitialized", "FilterPausing",
                 "FilterPaused", "FilterRunning", "FilterRestarting",
                 "FilterDetaching"}

\* The PnP thread: between entry points, or inside FilterPause.
PnpPoint == {"Detached", "Paused", "Running", "PauseLock", "PauseMark",
             "PauseDone"}

\* The points of a handler at which its next step is under pFilter->Lock.
SendLockPoints == {"SendCount", "CompleteCount"}
RcvLockPoints == {"RcvCount", "RcvUncount", "ReturnUncount"}
LockPoints == {"SendCheck", "RcvCheck"} \cup SendLockPoints \cup RcvLockPoints

HandlerPoint == LockPoints \cup
    {"Idle", "SendReject", "SendForward", "CompleteUp", "RcvReject",
     "RcvIndicate", "RcvLent", "ReturnDown"}

\* "Filter": inside a handler call; "Lent": indicated up with the RESOURCES
\* flag, to come back when the indication returns.
Holder == {"Upper", "Filter", "Lower", "Lent"}

Home(n) == IF n \in SendNBLs THEN "Upper" ELSE "Lower"
Away(n) == IF n \in SendNBLs THEN "Lower" ELSE "Upper"

\* ULONG arithmetic.
ULong(i) == i % Modulus

Init ==
    /\ State = "FilterStateUnspecified"
    /\ OutstandingSends = 0
    /\ OutstandingRcvs = 0
    /\ Lock = NoOwner
    /\ pnp = "Detached"
    /\ pc = [t \in Calls |-> "Idle"]
    /\ chain = [t \in Calls |-> {}]
    /\ canPend = [t \in Calls |-> TRUE]
    /\ ref = [t \in Calls |-> 0]
    /\ where = [n \in NBLs |-> Home(n)]

-----------------------------------------------------------------------------
(* PnP entry points.                                                       *)

\* FilterAttach: a zeroed context in the Paused state.  (Its failure paths
\* free the context again and change nothing; FilterDriver models them.)
FilterAttach ==
    /\ pnp = "Detached"
    /\ pnp' = "Paused"
    /\ State' = "FilterPaused"
    /\ OutstandingSends' = 0
    /\ OutstandingRcvs' = 0
    /\ UNCHANGED <<Lock, locals, where>>

\* FilterRestart: State is assigned without the lock, and whatever
\* NdisOpenConfigurationEx said the restart succeeds.
FilterRestart ==
    /\ pnp = "Paused"
    /\ pnp' = "Running"
    /\ State' = "FilterRunning"
    /\ UNCHANGED <<OutstandingSends, OutstandingRcvs, Lock, locals, where>>

\* NDIS calls FilterPause.
PauseEnter ==
    /\ pnp = "Running"
    /\ pnp' = "PauseLock"
    /\ UNCHANGED <<context, Lock, locals, where>>

PauseAcquire ==
    /\ pnp = "PauseLock"
    /\ Lock = NoOwner
    /\ Lock' = PnP
    /\ pnp' = "PauseMark"
    /\ UNCHANGED <<context, locals, where>>

\* State = FilterPausing and the release of the lock.
PauseMark ==
    /\ pnp = "PauseMark"
    /\ State' = "FilterPausing"
    /\ Lock' = NoOwner
    /\ pnp' = "PauseDone"
    /\ UNCHANGED <<OutstandingSends, OutstandingRcvs, locals, where>>

\* State = FilterPaused, without the lock and without waiting for anything.
PauseDone ==
    /\ pnp = "PauseDone"
    /\ State' = "FilterPaused"
    /\ pnp' = "Paused"
    /\ UNCHANGED <<OutstandingSends, OutstandingRcvs, Lock, locals, where>>

\* NDIS detaches a paused module when the stack around it is drained: both
\* neighbours have their own NBLs back and no handler call is on a stack.
NdisDrained ==
    /\ \A t \in Calls : pc[t] = "Idle"
    /\ \A n \in NBLs : where[n] = Home(n)

\* FilterDetach: the context is unlinked and freed; nothing is waited for.
FilterDetach ==
    /\ pnp = "Paused"
    /\ NdisDrained
    /\ pnp' = "Detached"
    /\ State' = "FilterStateUnspecified"
    /\ UNCHANGED <<OutstandingSends, OutstandingRcvs, Lock, locals, where>>

-----------------------------------------------------------------------------
(* Steps shared by the datapath handlers.                                  *)

\* NDIS starts new sends and receives between the end of FilterRestart and
\* the end of FilterPause.
DatapathOpen == pnp \in {"Running", "PauseLock", "PauseMark", "PauseDone"}

\* NDIS enters a handler in slot t with the NBLs c, which `from' gives up.
Enter(t, c, from, point) ==
    /\ pc[t] = "Idle"
    /\ c # {}
    /\ \A n \in c : where[n] = from
    /\ pc' = [pc EXCEPT ![t] = point]
    /\ chain' = [chain EXCEPT ![t] = c]
    /\ where' = [n \in NBLs |-> IF n \in c THEN "Filter" ELSE where[n]]
    /\ UNCHANGED <<context, Lock, pnp, ref>>

\* The call gives its NBLs to `to' and goes on at `point'.
HandOver(t, to, point) ==
    /\ pc' = [pc EXCEPT ![t] = point]
    /\ where' = [n \in NBLs |-> IF n \in chain[t] THEN to ELSE where[n]]
    /\ UNCHANGED <<context, Lock, pnp, chain, canPend, ref>>

\* FILTER_ACQUIRE_LOCK, and the load of the counter the section updates.
AcquireLock(t) ==
    /\ pc[t] \in LockPoints
    /\ Lock = NoOwner
    /\ Lock' = t
    /\ ref' = [ref EXCEPT ![t] = IF pc[t] \in SendLockPoints
                                 THEN OutstandingSends ELSE OutstandingRcvs]
    /\ UNCHANGED <<context, pnp, pc, chain, canPend, where>>

\* The store of the new counter value, FILTER_RELEASE_LOCK.
StoreSends(t, value, point) ==
    /\ Lock = t
    /\ OutstandingSends' = ULong(value)
    /\ Lock' = NoOwner
    /\ pc' = [pc EXCEPT ![t] = point]
    /\ UNCHANGED <<State, OutstandingRcvs, pnp, chain, canPend, ref>>

\* Mutant: the update without the lock, in a signed counter.
StoreRcvsUnlocked(t, value, point) ==
    /\ OutstandingRcvs' = value
    /\ Lock' = IF Lock = t THEN NoOwner ELSE Lock
    /\ pc' = [pc EXCEPT ![t] = point]
    /\ UNCHANGED <<State, OutstandingSends, pnp, chain, canPend, ref>>

StoreRcvs(t, value, point) ==
    /\ Lock = t
    /\ OutstandingRcvs' = ULong(value)
    /\ Lock' = NoOwner
    /\ pc' = [pc EXCEPT ![t] = point]
    /\ UNCHANGED <<State, OutstandingSends, pnp, chain, canPend, ref>>

\* Mutant: only the Paused state rejects; Pausing counts as running.
CheckNotPaused(t, reject, accept) ==
    /\ Lock = t
    /\ Lock' = NoOwner
    /\ pc' = [pc EXCEPT ![t] = IF State = "FilterPaused" THEN reject ELSE accept]
    /\ UNCHANGED <<context, pnp, chain, canPend, ref, where>>

\* The #if DBG section: read State under the lock, release, and branch.
CheckRunning(t, reject, accept) ==
    /\ Lock = t
    /\ Lock' = NoOwner
    /\ pc' = [pc EXCEPT ![t] = IF State # "FilterRunning" THEN reject ELSE accept]
    /\ UNCHANGED <<context, pnp, chain, canPend, ref, where>>

-----------------------------------------------------------------------------
(* FilterSendNetBufferLists.                                               *)

\* Mutant: the check without its #if DBG.
SendCallChecked(t, c) ==
    /\ DatapathOpen
    /\ c \subseteq SendNBLs
    /\ Enter(t, c, "Upper", "SendCheck")
    /\ UNCHANGED canPend

SendCall(t, c) ==
    /\ DatapathOpen
    /\ c \subseteq SendNBLs
    /\ Enter(t, c, "Upper", IF DBG THEN "SendCheck" ELSE "SendCount")
    /\ UNCHANGED canPend

SendCheck(t) ==
    /\ pc[t] = "SendCheck"
    /\ CheckRunning(t, "SendReject", "SendCount")

\* Mutant: no break after the rejected sends are completed.
SendRejectFallsThrough(t) ==
    /\ pc[t] = "SendReject"
    /\ HandOver(t, "Upper", "SendCount")

\* Mutant: sends are kept and tried again until the module runs.
SendRetry(t) ==
    /\ pc[t] = "SendReject"
    /\ HandOver(t, "Filter", "SendCheck")

\* NDIS_STATUS_PAUSED: complete upward, past our own completion handler.
SendReject(t) ==
    /\ pc[t] = "SendReject"
    /\ HandOver(t, "Upper", "Idle")

SendCount(t) ==
    /\ pc[t] = "SendCount"
    /\ StoreSends(t, ref[t] + Cardinality(chain[t]), "SendForward")
    /\ UNCHANGED where

\* NdisFSendNetBufferLists.
SendForward(t) ==
    /\ pc[t] = "SendForward"
    /\ HandOver(t, "Lower", "Idle")

-----------------------------------------------------------------------------
(* FilterSendNetBufferListsComplete: uncount, then complete upward.        *)

\* The miniport may complete the NBLs in other chains than it was sent.
CompleteCall(t, c) ==
    /\ c \subseteq SendNBLs
    /\ Enter(t, c, "Lower", "CompleteCount")
    /\ UNCHANGED canPend

CompleteCount(t) ==
    /\ pc[t] = "CompleteCount"
    /\ StoreSends(t, ref[t] - Cardinality(chain[t]), "CompleteUp")
    /\ UNCHANGED where

CompleteUp(t) ==
    /\ pc[t] = "CompleteUp"
    /\ HandOver(t, "Upper", "Idle")

-----------------------------------------------------------------------------
(* FilterReceiveNetBufferLists.                                            *)

RcvCall(t, c) ==
    /\ DatapathOpen
    /\ c \subseteq RcvNBLs
    /\ Enter(t, c, "Lower", IF DBG THEN "RcvCheck" ELSE "RcvCount")
    /\ \E p \in BOOLEAN : canPend' = [canPend EXCEPT ![t] = p]

RcvCheck(t) ==
    /\ pc[t] = "RcvCheck"
    /\ CheckRunning(t, "RcvReject", "RcvCount")

\* Both ways the miniport has the NBLs back: NdisFReturnNetBufferLists when
\* the call can pend, the return of the handler when it cannot.
RcvReject(t) ==
    /\ pc[t] = "RcvReject"
    /\ HandOver(t, "Lower", "Idle")

RcvCount(t) ==
    /\ pc[t] = "RcvCount"
    /\ StoreRcvs(t, ref[t] + Cardinality(chain[t]), "RcvIndicate")
    /\ UNCHANGED where

\* Mutant: the uncounting after the indication ignores the RESOURCES flag.
RcvIndicateUncounts(t) ==
    /\ pc[t] = "RcvIndicate"
    /\ IF canPend[t] THEN HandOver(t, "Upper", "RcvUncount")
                     ELSE HandOver(t, "Lent", "RcvLent")

\* NdisFIndicateReceiveNetBufferLists: for good, or as a loan.
RcvIndicate(t) ==
    /\ pc[t] = "RcvIndicate"
    /\ IF canPend[t] THEN HandOver(t, "Upper", "Idle")
                     ELSE HandOver(t, "Lent", "RcvLent")

\* Mutant: a loan is never uncounted.
RcvLentForgets(t) ==
    /\ pc[t] = "RcvLent"
    /\ HandOver(t, "Lower", "Idle")

\* The indication of a loan returns.
RcvLent(t) ==
    /\ pc[t] = "RcvLent"
    /\ HandOver(t, "Filter", "RcvUncount")

\* The loan is uncounted and the handler returns it to the miniport.
RcvUncount(t) ==
    /\ pc[t] = "RcvUncount"
    /\ StoreRcvs(t, ref[t] - Cardinality(chain[t]), "Idle")
    /\ where' = [n \in NBLs |-> IF n \in chain[t] THEN "Lower" ELSE where[n]]

-----------------------------------------------------------------------------
(* FilterReturnNetBufferLists: return downward first, uncount afterwards.  *)

ReturnCall(t, c) ==
    /\ c \subseteq RcvNBLs
    /\ Enter(t, c, "Upper", "ReturnDown")
    /\ UNCHANGED canPend

ReturnDown(t) ==
    /\ pc[t] = "ReturnDown"
    /\ HandOver(t, "Lower", "ReturnUncount")

\* Mutant: one decrement for the whole chain.
ReturnUncountCalls(t) ==
    /\ pc[t] = "ReturnUncount"
    /\ StoreRcvs(t, ref[t] - 1, "Idle")
    /\ UNCHANGED where

\* Mutant: returns are uncounted only while the module runs.
ReturnUncountRunning(t) ==
    /\ pc[t] = "ReturnUncount"
    /\ StoreRcvs(t, IF State = "FilterRunning" THEN ref[t] - Cardinality(chain[t])
                                               ELSE ref[t], "Idle")
    /\ UNCHANGED where

ReturnUncount(t) ==
    /\ pc[t] = "ReturnUncount"
    /\ StoreRcvs(t, ref[t] - Cardinality(chain[t]), "Idle")
    /\ UNCHANGED where

-----------------------------------------------------------------------------
(* The specification.                                                      *)

PauseStep == PauseAcquire \/ PauseMark \/ PauseDone

PnpStep == FilterAttach \/ FilterRestart \/ PauseEnter \/ PauseStep \/ FilterDetach

NewCall(t) ==
    \/ \E c \in SUBSET SendNBLs : SendCall(t, c) \/ CompleteCall(t, c)
    \/ \E c \in SUBSET RcvNBLs : RcvCall(t, c) \/ ReturnCall(t, c)

HandlerStep(t) ==
    \/ SendCheck(t) \/ SendReject(t) \/ SendCount(t) \/ SendForward(t)
    \/ CompleteCount(t) \/ CompleteUp(t)
    \/ RcvCheck(t) \/ RcvReject(t) \/ RcvCount(t) \/ RcvIndicate(t)
    \/ RcvLent(t) \/ RcvUncount(t)
    \/ ReturnDown(t) \/ ReturnUncount(t)

Next ==
    \/ PnpStep
    \/ \E t \in Calls : NewCall(t) \/ AcquireLock(t) \/ HandlerStep(t)

Spec == Init /\ [][Next]_vars

\* A handler that is not waiting for the lock keeps running, an indication
\* returns, and a spin lock that is free again and again is acquired.
Fairness ==
    /\ WF_vars(PauseStep)
    /\ SF_vars(PauseAcquire)
    /\ \A t \in Calls : WF_vars(HandlerStep(t)) /\ SF_vars(AcquireLock(t))

\* The neighbours give back what they hold: the miniport completes sends, the
\* protocol returns receives.
NeighboursFair ==
    /\ \A n \in SendNBLs : WF_vars(\E t \in Calls, c \in SUBSET SendNBLs :
                                       n \in c /\ CompleteCall(t, c))
    /\ \A n \in RcvNBLs : WF_vars(\E t \in Calls, c \in SUBSET RcvNBLs :
                                      n \in c /\ ReturnCall(t, c))

FairSpec == Spec /\ Fairness

DrainSpec == FairSpec /\ NeighboursFair
-----------------------------------------------------------------------------
(* Invariants.                                                             *)

\* Every variable stays in its type; the counters are ULONGs.
TypeOK ==
    /\ State \in FILTER_STATE
    /\ OutstandingSends \in 0 .. Modulus - 1
    /\ OutstandingRcvs \in 0 .. Modulus - 1
    /\ Lock \in Calls \cup {PnP, NoOwner}
    /\ pnp \in PnpPoint
    /\ pc \in [Calls -> HandlerPoint]
    /\ chain \in [Calls -> SUBSET NBLs]
    /\ canPend \in [Calls -> BOOLEAN]
    /\ ref \in [Calls -> 0 .. Modulus - 1]
    /\ where \in [NBLs -> Holder]

SendPoints == {"SendCheck", "SendReject", "SendCount", "SendForward",
               "CompleteCount", "CompleteUp"}
RcvPoints == {"RcvCheck", "RcvReject", "RcvCount", "RcvIndicate", "RcvLent",
              "RcvUncount", "ReturnDown"}

\* The calls that have NBLs to pass on; a FilterReturnNetBufferLists that has
\* returned its NBLs keeps only their number.
Holding(t) == pc[t] \in SendPoints \cup RcvPoints

\* A handler call works on packets of its own direction.
ChainsTyped ==
    \A t \in Calls :
        /\ pc[t] \in SendPoints => chain[t] \subseteq SendNBLs
        /\ pc[t] \in RcvPoints \cup {"ReturnUncount"} => chain[t] \subseteq RcvNBLs
        /\ pc[t] # "Idle" => chain[t] # {}

\* A packet inside the filter is in the hands of exactly one handler call, and
\* a packet outside it is in the hands of none: concurrent sends, completions,
\* receives and returns never lose a chain nor work on the same packet twice.
OneHolder ==
    /\ \A t \in Calls : Holding(t) =>
          \A n \in chain[t] :
              where[n] = IF pc[t] = "RcvLent" THEN "Lent" ELSE "Filter"
    /\ \A t, u \in Calls : t # u /\ Holding(t) /\ Holding(u) =>
          chain[t] \cap chain[u] = {}
    /\ \A n \in NBLs : where[n] \in {"Filter", "Lent"} =>
          \E t \in Calls : Holding(t) /\ n \in chain[t]
    /\ \A n \in SendNBLs : where[n] # "Lent"

\* The packets that are counted in OutstandingSends: forwarded ones, and those
\* of a call between its counting and the hand-over (or the uncounting).
SendsCounted ==
    {n \in SendNBLs :
        \/ where[n] = "Lower"
        \/ \E t \in Calls : /\ pc[t] \in {"SendForward", "CompleteCount"}
                            /\ n \in chain[t]}

RcvsCounted ==
    {n \in RcvNBLs :
        \/ where[n] = "Upper"
        \/ \E t \in Calls :
              /\ pc[t] \in {"RcvIndicate", "RcvLent", "RcvUncount", "ReturnDown"}
              /\ n \in chain[t]}

\* A return that has given its NBLs back and has not uncounted them yet: the
\* miniport may already be indicating the same NBLs again.
ReturnsUncounted ==
    {r \in Calls \X RcvNBLs : pc[r[1]] = "ReturnUncount" /\ r[2] \in chain[r[1]]}

\* "Lock for protection of state and outstanding sends and recvs"
\* (NfdCore.hpp:121).  OutstandingSends is exactly the number of packets sent
\* down and not completed yet, in every interleaving of sends and
\* completions: no lost update, no packet counted twice, no ULONG underflow.
SendsAccounted == OutstandingSends = Cardinality(SendsCounted)

\* OutstandingRcvs is exactly the number of packets indicated up and not
\* returned yet, plus those that FilterReturnNetBufferLists has returned
\* without having uncounted them: the counter runs behind the packets and
\* never ahead of them, so it can be too large and never underflows.
RcvsAccounted ==
    OutstandingRcvs = Cardinality(RcvsCounted) + Cardinality(ReturnsUncounted)

\* Neither counter ever loses an update, counts a packet twice or wraps round,
\* although four handlers and the pause interleave between load and store.
CountersExact == SendsAccounted /\ RcvsAccounted

\* When both neighbours have all their packets back, the only handler calls
\* that can still touch the MS_FILTER context are returns on their way to the
\* counter: FilterReturnNetBufferLists is the one handler that gives its
\* packets away before it is done with the context.
OnlyReturnOutlivesPackets ==
    (\A n \in NBLs : where[n] = Home(n)) =>
        \A t \in Calls : pc[t] \in {"Idle", "ReturnUncount"}

\* The owner of the lock is at a point where the code releases it, and what it
\* has loaded is still the value of the counter.
LockHolder ==
    /\ Lock = PnP <=> pnp = "PauseMark"
    /\ \A t \in Calls : Lock = t =>
          /\ pc[t] \in LockPoints
          /\ pc[t] \in SendLockPoints => ref[t] = OutstandingSends
          /\ pc[t] \in RcvLockPoints => ref[t] = OutstandingRcvs

\* Without #if DBG nothing is checked and nothing is rejected.
ReleaseBuildChecksNothing ==
    ~DBG => \A t \in Calls :
                pc[t] \notin {"SendCheck", "SendReject", "RcvCheck", "RcvReject"}

\* Outside FilterPause the field State is what NDIS believes it to be: the
\* ASSERTs at the head of FilterPause, FilterRestart and FilterDetach.
StateAsNdisKnows ==
    State = CASE pnp = "Detached" -> "FilterStateUnspecified"
              [] pnp = "Paused" -> "FilterPaused"
              [] pnp \in {"Running", "PauseLock", "PauseMark"} -> "FilterRunning"
              [] pnp = "PauseDone" -> "FilterPausing"

\* A detached module has no packets and no calls.
DetachedEmpty == pnp = "Detached" => NdisDrained

\* The inductive invariant of the proofs.
IInv ==
    /\ TypeOK
    /\ ChainsTyped
    /\ OneHolder
    /\ LockHolder
    /\ ReleaseBuildChecksNothing
    /\ StateAsNdisKnows
    /\ DetachedEmpty
    /\ SendsAccounted
    /\ RcvsAccounted

-----------------------------------------------------------------------------
(* Action and temporal properties.                                         *)

\* FilterDetach frees the context without looking at anything: whenever NDIS
\* has drained the stack, nothing is counted any more and the lock is free,
\* whatever pauses and rejected packets came before.
DetachLeavesNothing ==
    [][FilterDetach => /\ OutstandingSends = 0
                       /\ OutstandingRcvs = 0
                       /\ Lock = NoOwner]_vars

\* No handler sits on a packet: every packet that enters the filter leaves it
\* (main.cpp:575-580, "do not queue them for too long").
PacketsMoveOn ==
    \A n \in NBLs : where[n] = "Filter" ~> where[n] # "Filter"

\* FilterPause completes ("pause must succeed, eventually", main.cpp:33)
\* however much traffic contends for the lock, and a module that stays paused
\* drains: both counters reach zero although FilterPause waits for neither.
PauseEnds ==
    /\ pnp = "PauseLock" ~> pnp = "Paused"
    /\ pnp = "Paused" ~>
           (pnp # "Paused" \/ (OutstandingSends = 0 /\ OutstandingRcvs = 0))

\* What FilterPause's header says of the time after it (main.cpp:37-39): "After
\* this function completes, the filter must not attempt to send or receive
\* packets".
NoReceiveAfterPause ==
    [][pnp = "Paused" => \A t \in Calls : ~RcvIndicate(t)]_vars

-----------------------------------------------------------------------------
(* The two directions of the datapath implement PassThrough.               *)

\* The stage of the packets of a call.  In a build without the check,
\* admission is the counting itself.
StageAt(point) ==
    CASE point \in {"SendCheck", "RcvCheck"} -> "Entered"
      [] point \in {"SendCount", "RcvCount"} -> IF DBG THEN "Admitted" ELSE "Entered"
      [] point \in {"SendForward", "RcvIndicate"} -> "Admitted"
      [] point \in {"SendReject", "RcvReject"} -> "Refused"
      [] OTHER -> "Leaving"

HolderOf(n) == CHOOSE t \in Calls : Holding(t) /\ n \in chain[t]

StageOf(n) ==
    IF where[n] = Home(n) THEN "Home"
    ELSE IF where[n] = "Filter" THEN StageAt(pc[HolderOf(n)])
    ELSE "Away"

IsRunning == State = "FilterRunning"

SendPath == INSTANCE PassThrough WITH
    Packets <- SendNBLs, Checked <- DBG,
    at <- [n \in SendNBLs |-> StageOf(n)], running <- IsRunning

ReceivePath == INSTANCE PassThrough WITH
    Packets <- RcvNBLs, Checked <- DBG,
    at <- [n \in RcvNBLs |-> StageOf(n)], running <- IsRunning

\* The send direction is a faithful pass-through.
SendPathImplements == SendPath!Spec

\* Both directions are: what is admitted, refused and handed on in each of them
\* agrees with the state of the module at the check, whatever the other one and
\* the state handlers do meanwhile.
ImplementsPassThrough == SendPath!Spec /\ ReceivePath!Spec
=============================================================================
