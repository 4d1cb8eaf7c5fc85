---------------------------- MODULE FilterDriver ----------------------------
(***************************************************************************)
(* FilterDriver as a whole: DriverEntry and DriverUnload on the loader's   *)
(* thread, FilterAttach and FilterDetach for every adapter on NDIS's       *)
(* threads, and what they share: FilterModuleList, a doubly linked list of *)
(* MS_FILTER contexts, and FilterListLock (main.cpp).                      *)
(*                                                                         *)
(* NDIS may attach the driver to adapters as soon as it is registered,     *)
(* before DriverEntry has returned and while it fails; deregistration      *)
(* detaches every module and waits.  A critical section on the list is two *)
(* steps, one that loads the links it needs and one with all its stores.   *)
(* FilterModule models what happens to one module between attach and       *)
(* detach.                                                                 *)
(***************************************************************************)
EXTENDS FiniteSets

CONSTANTS
    Adapters,   \* the adapters the filter can be attached to
    ListHead,   \* FilterModuleList itself, the list head
    Garbage,    \* the value of a link nobody has initialised
    Loader,     \* the thread that runs DriverEntry and DriverUnload
    NoOwner,    \* the owner of a free spin lock
    DBG         \* is this the checked build (#if DBG)?

ASSUME NamesDistinct ==
    /\ ListHead \notin Adapters
    /\ Garbage \notin Adapters \cup {ListHead}
    /\ Loader \notin Adapters
    /\ NoOwner \notin Adapters \cup {Loader}
ASSUME BuildChosen == DBG \in BOOLEAN

VARIABLES
    lockReady,   \* is FilterListLock initialised and not freed?
    lockOwner,   \* the owner of FilterListLock
    Flink,       \* the forward link of the head and of every context
    Blink,       \* the backward link
    allocated,   \* the adapters whose MS_FILTER is allocated
    apc,         \* where NDIS's thread for each adapter is
    next, prev,  \* the links a critical section has loaded
    loader,      \* where the loader's thread is
    registered,  \* is the driver registered with NDIS?
    device       \* NdisFilterDeviceHandle # NULL

list == <<Flink, Blink>>
lock == <<lockReady, lockOwner>>
adapter == <<allocated, apc, next, prev>>
driver == <<loader, registered, device>>
vars == <<lock, list, adapter, driver>>

Nodes == Adapters \cup {ListHead}

AdapterPoint == {"Unbound", "Allocate", "SetAttributes", "Insert", "Inserting",
                 "Attached", "Remove", "Removing", "Free"}

LoaderPoint == {"Unloaded", "EntryInit", "EntryRegister", "EntryDevice",
                "EntryDeregister", "EntryWait", "EntryFreeLock", "Loaded",
                "UnloadDevice", "UnloadDeregister", "UnloadWait", "UnloadLock",
                "UnloadAssert", "UnloadFreeLock"}

Init ==
    /\ lockReady = FALSE
    /\ lockOwner = NoOwner
    /\ Flink = [n \in Nodes |-> Garbage]
    /\ Blink = [n \in Nodes |-> Garbage]
    /\ allocated = {}
    /\ apc = [a \in Adapters |-> "Unbound"]
    /\ next = [a \in Adapters |-> Garbage]
    /\ prev = [a \in Adapters |-> Garbage]
    /\ loader = "Unloaded"
    /\ registered = FALSE
    /\ device = FALSE

-----------------------------------------------------------------------------
(* FilterAttach, for adapter a.                                            *)

AdapterGoes(a, from, to) ==
    /\ apc[a] = from
    /\ apc' = [apc EXCEPT ![a] = to]

\* NDIS attaches a registered filter to an adapter.
AttachCall(a) ==
    /\ registered
    /\ AdapterGoes(a, "Unbound", "Allocate")
    /\ UNCHANGED <<lock, list, allocated, next, prev, driver>>

\* The checks of context and media type, FILTER_ALLOC_MEM, NdisZeroMemory.
AttachAllocate(a) ==
    /\ \/ /\ AdapterGoes(a, "Allocate", "Unbound")
          /\ UNCHANGED <<list, allocated>>
       \/ /\ AdapterGoes(a, "Allocate", "SetAttributes")
          /\ allocated' = allocated \cup {a}
          /\ Flink' = [Flink EXCEPT ![a] = Garbage]
          /\ Blink' = [Blink EXCEPT ![a] = Garbage]
    /\ UNCHANGED <<lock, next, prev, driver>>

\* NdisFSetAttributes; when it fails the context is freed and attach fails.
AttachSetAttributes(a) ==
    /\ \/ /\ AdapterGoes(a, "SetAttributes", "Insert")
          /\ UNCHANGED allocated
       \/ /\ AdapterGoes(a, "SetAttributes", "Unbound")
          /\ allocated' = allocated \ {a}
    /\ UNCHANGED <<lock, list, next, prev, driver>>

\* Mutant: the insertion without FilterListLock.
InsertUnlocked(a) ==
    /\ AdapterGoes(a, "Insert", "Inserting")
    /\ next' = [next EXCEPT ![a] = Flink[ListHead]]
    /\ UNCHANGED <<lock, list, allocated, prev, driver>>

\* FILTER_ACQUIRE_LOCK, and InsertHeadList's load of ListHead->Flink.
InsertAcquire(a) ==
    /\ lockOwner = NoOwner
    /\ lockOwner' = a
    /\ AdapterGoes(a, "Insert", "Inserting")
    /\ next' = [next EXCEPT ![a] = Flink[ListHead]]
    /\ UNCHANGED <<lockReady, list, allocated, prev, driver>>

\* InsertHeadList's four stores, in one step, and FILTER_RELEASE_LOCK.
InsertStore(a) ==
    /\ AdapterGoes(a, "Inserting", "Attached")
    /\ Flink' = [Flink EXCEPT ![a] = next[a], ![ListHead] = a]
    /\ Blink' = [Blink EXCEPT ![a] = ListHead, ![next[a]] = a]
    /\ lockOwner' = NoOwner
    /\ UNCHANGED <<lockReady, allocated, next, prev, driver>>

-----------------------------------------------------------------------------
(* FilterDetach, for adapter a.                                            *)

\* Mutant: the context is freed while it is still on the list.
DetachWithoutUnlink(a) ==
    /\ AdapterGoes(a, "Attached", "Free")
    /\ UNCHANGED <<lock, list, allocated, next, prev, driver>>

\* NDIS detaches the module, of its own accord or to deregister the driver.
DetachCall(a) ==
    /\ AdapterGoes(a, "Attached", "Remove")
    /\ UNCHANGED <<lock, list, allocated, next, prev, driver>>

\* Mutant: a detach that gives up when it does not get the lock at once.
RemoveOrFail(a) ==
    /\ \/ /\ lockOwner = NoOwner
          /\ lockOwner' = a
          /\ AdapterGoes(a, "Remove", "Removing")
          /\ next' = [next EXCEPT ![a] = Flink[a]]
          /\ prev' = [prev EXCEPT ![a] = Blink[a]]
       \/ /\ AdapterGoes(a, "Remove", "Attached")
          /\ UNCHANGED <<lockOwner, next, prev>>
    /\ UNCHANGED <<lockReady, list, allocated, driver>>

\* FILTER_ACQUIRE_LOCK, and RemoveEntryList's load of both links.
RemoveAcquire(a) ==
    /\ lockOwner = NoOwner
    /\ lockOwner' = a
    /\ AdapterGoes(a, "Remove", "Removing")
    /\ next' = [next EXCEPT ![a] = Flink[a]]
    /\ prev' = [prev EXCEPT ![a] = Blink[a]]
    /\ UNCHANGED <<lockReady, list, allocated, driver>>

\* RemoveEntryList's two stores, in one step, and FILTER_RELEASE_LOCK.
RemoveStore(a) ==
    /\ AdapterGoes(a, "Removing", "Free")
    /\ Flink' = [Flink EXCEPT ![prev[a]] = next[a]]
    /\ Blink' = [Blink EXCEPT ![next[a]] = prev[a]]
    /\ lockOwner' = NoOwner
    /\ UNCHANGED <<lockReady, allocated, next, prev, driver>>

\* FILTER_FREE_MEM.
DetachFree(a) ==
    /\ AdapterGoes(a, "Free", "Unbound")
    /\ allocated' = allocated \ {a}
    /\ UNCHANGED <<lock, list, next, prev, driver>>

-----------------------------------------------------------------------------
(* DriverEntry.                                                            *)

LoaderGoes(from, to) ==
    /\ loader = from
    /\ loader' = to

LoadDriver ==
    /\ LoaderGoes("Unloaded", "EntryInit")
    /\ UNCHANGED <<lock, list, adapter, registered, device>>

\* FILTER_INIT_LOCK and InitializeListHead, before NDIS hears of the driver.
EntryInit ==
    /\ LoaderGoes("EntryInit", "EntryRegister")
    /\ lockReady' = TRUE
    /\ Flink' = [Flink EXCEPT ![ListHead] = ListHead]
    /\ Blink' = [Blink EXCEPT ![ListHead] = ListHead]
    /\ UNCHANGED <<lockOwner, adapter, registered, device>>

\* NdisFRegisterFilterDriver, which calls FilterRegisterOptions.
EntryRegister ==
    /\ \/ LoaderGoes("EntryRegister", "EntryDevice") /\ registered' = TRUE
       \/ LoaderGoes("EntryRegister", "EntryFreeLock") /\ UNCHANGED registered
    /\ UNCHANGED <<lock, list, adapter, device>>

\* Mutant: a failed FilterRegisterDevice forgets to deregister from NDIS.
EntryDeviceNoRollback ==
    /\ \/ LoaderGoes("EntryDevice", "Loaded") /\ device' = TRUE
       \/ LoaderGoes("EntryDevice", "EntryFreeLock") /\ UNCHANGED device
    /\ UNCHANGED <<lock, list, adapter, registered>>

\* FilterRegisterDevice.
EntryDevice ==
    /\ \/ LoaderGoes("EntryDevice", "Loaded") /\ device' = TRUE
       \/ LoaderGoes("EntryDevice", "EntryDeregister") /\ UNCHANGED device
    /\ UNCHANGED <<lock, list, adapter, registered>>

\* NdisFDeregisterFilterDriver starts: no more attaches.
Deregister(from, to) ==
    /\ LoaderGoes(from, to)
    /\ registered' = FALSE
    /\ UNCHANGED <<lock, list, adapter, device>>

\* It returns when no module is attached.
DeregisterReturns(from, to) ==
    /\ \A a \in Adapters : apc[a] = "Unbound"
    /\ LoaderGoes(from, to)
    /\ UNCHANGED <<lock, list, adapter, registered, device>>

EntryRollback ==
    \/ Deregister("EntryDeregister", "EntryWait")
    \/ DeregisterReturns("EntryWait", "EntryFreeLock")

\* FILTER_FREE_LOCK; a driver whose DriverEntry fails is unloaded.
FreeLock(from) ==
    /\ LoaderGoes(from, "Unloaded")
    /\ lockReady' = FALSE
    /\ UNCHANGED <<lockOwner, list, adapter, registered, device>>

-----------------------------------------------------------------------------
(* DriverUnload.                                                           *)

UnloadCall ==
    /\ LoaderGoes("Loaded", "UnloadDevice")
    /\ UNCHANGED <<lock, list, adapter, registered, device>>

\* Mutant: DriverUnload without FilterDeregisterDevice.
UnloadKeepsDevice ==
    /\ LoaderGoes("UnloadDevice", "UnloadDeregister")
    /\ UNCHANGED <<lock, list, adapter, registered, device>>

\* FilterDeregisterDevice.
UnloadDevice ==
    /\ LoaderGoes("UnloadDevice", "UnloadDeregister")
    /\ device' = FALSE
    /\ UNCHANGED <<lock, list, adapter, registered>>

UnloadDeregister ==
    \/ Deregister("UnloadDeregister", "UnloadWait")
    \/ DeregisterReturns("UnloadWait", IF DBG THEN "UnloadLock" ELSE "UnloadFreeLock")

UnloadAcquire ==
    /\ LoaderGoes("UnloadLock", "UnloadAssert")
    /\ lockOwner = NoOwner
    /\ lockOwner' = Loader
    /\ UNCHANGED <<lockReady, list, adapter, registered, device>>

\* ASSERT(IsListEmpty(&FilterModuleList)) and FILTER_RELEASE_LOCK; what the
\* ASSERT says is the property UnloadListEmpty.
UnloadAssert ==
    /\ LoaderGoes("UnloadAssert", "UnloadFreeLock")
    /\ lockOwner' = NoOwner
    /\ UNCHANGED <<lockReady, list, adapter, registered, device>>

-----------------------------------------------------------------------------
(* The specification.                                                      *)

AttachStep(a) == AttachAllocate(a) \/ AttachSetAttributes(a) \/ InsertStore(a)

DetachStep(a) == RemoveStore(a) \/ DetachFree(a)

EntryStep ==
    \/ EntryInit \/ EntryRegister \/ EntryDevice \/ EntryRollback
    \/ FreeLock("EntryFreeLock")

UnloadStep ==
    \/ UnloadDevice \/ UnloadDeregister \/ UnloadAcquire \/ UnloadAssert
    \/ FreeLock("UnloadFreeLock")

Next ==
    \/ LoadDriver \/ EntryStep \/ UnloadCall \/ UnloadStep
    \/ \E a \in Adapters :
          \/ AttachCall(a) \/ AttachStep(a) \/ InsertAcquire(a)
          \/ DetachCall(a) \/ DetachStep(a) \/ RemoveAcquire(a)

Spec == Init /\ [][Next]_vars

\* Code that is not waiting keeps running, a spin lock that is free again and
\* again is acquired, and NDIS detaches every module of a driver that
\* deregisters.
Fairness ==
    /\ WF_vars(EntryStep) /\ WF_vars(UnloadStep)
    /\ \A a \in Adapters :
          /\ WF_vars(AttachStep(a)) /\ WF_vars(DetachStep(a))
          /\ SF_vars(InsertAcquire(a)) /\ SF_vars(RemoveAcquire(a))
          /\ WF_vars(~registered /\ DetachCall(a))

FairSpec == Spec /\ Fairness

-----------------------------------------------------------------------------
(* Properties.                                                             *)

\* Types; an initialised list head and a linked context hold no garbage.
TypeOK ==
    /\ lockReady \in BOOLEAN
    /\ lockOwner \in Adapters \cup {Loader, NoOwner}
    /\ Flink \in [Nodes -> Nodes \cup {Garbage}]
    /\ Blink \in [Nodes -> Nodes \cup {Garbage}]
    /\ lockReady => Flink[ListHead] # Garbage /\ Blink[ListHead] # Garbage
    /\ allocated \subseteq Adapters
    /\ apc \in [Adapters -> AdapterPoint]
    /\ next \in [Adapters -> Nodes \cup {Garbage}]
    /\ prev \in [Adapters -> Nodes \cup {Garbage}]
    /\ loader \in LoaderPoint
    /\ registered \in BOOLEAN
    /\ device \in BOOLEAN

\* The contexts that are on the list.
Linked == {a \in Adapters : apc[a] \in {"Attached", "Remove", "Removing"}}
Ring == Linked \cup {ListHead}

\* While the list exists it is one ring through the head and exactly the
\* attached contexts, all of them allocated, with Blink the inverse of Flink:
\* attaches and detaches of several adapters at once neither lose a module,
\* nor leave a freed one on the list, nor tear it in two.
ListIntact ==
    lockReady =>
        /\ Linked \subseteq allocated
        /\ \A n \in Ring : /\ Flink[n] \in Ring /\ Blink[Flink[n]] = n
                           /\ Blink[n] \in Ring /\ Flink[Blink[n]] = n
        /\ \A S \in SUBSET Ring :
              (ListHead \in S /\ \A n \in S : Flink[n] \in S) => S = Ring

\* FilterListLock is used between FILTER_INIT_LOCK and FILTER_FREE_LOCK only,
\* although attaches begin before DriverEntry returns and it may still fail.
LockUsedWhileReady ==
    ~lockReady => /\ lockOwner = NoOwner
                  /\ \A a \in Adapters : apc[a] = "Unbound"

\* The ASSERT of DriverUnload (main.cpp:809) and of the list itself: at that
\* point no module is left on FilterModuleList.
UnloadListEmpty ==
    loader \in {"UnloadAssert", "UnloadFreeLock", "EntryFreeLock"} =>
        Flink[ListHead] = ListHead /\ Blink[ListHead] = ListHead

\* A driver that is not loaded, because it was unloaded or because DriverEntry
\* failed at any point, has left nothing behind: no registration, no device,
\* no lock, no context (README.md: "cleans up all resources before exiting").
UnloadedCleanly ==
    loader = "Unloaded" =>
        ~registered /\ ~device /\ ~lockReady /\ allocated = {}

\* A context exists exactly from its allocation to its release, whichever way
\* FilterAttach ends.
ContextsOwned ==
    allocated = {a \in Adapters : apc[a] \notin {"Unbound", "Allocate"}}

\* Who owns the lock, and that what it has loaded is still in the links.
ListLockHeld ==
    /\ lockOwner = Loader <=> loader = "UnloadAssert"
    /\ \A a \in Adapters :
          /\ lockOwner = a <=> apc[a] \in {"Inserting", "Removing"}
          /\ apc[a] = "Inserting" => next[a] = Flink[ListHead]
          /\ apc[a] = "Removing" => next[a] = Flink[a] /\ prev[a] = Blink[a]

\* What exists in which phase of the driver's life.
RegisteredPoint == {"EntryDevice", "EntryDeregister", "Loaded", "UnloadDevice",
                    "UnloadDeregister"}

DriverPhases ==
    /\ lockReady <=> loader \notin {"Unloaded", "EntryInit"}
    /\ registered <=> loader \in RegisteredPoint
    /\ device <=> loader \in {"Loaded", "UnloadDevice"}
    /\ \A a \in Adapters : apc[a] # "Unbound" =>
          loader \in RegisteredPoint \cup {"EntryWait", "UnloadWait"}

\* The inductive invariant of the proofs.
IInv == TypeOK /\ ContextsOwned /\ ListLockHeld /\ DriverPhases /\ ListIntact

\* DriverEntry returns and DriverUnload completes, whatever attaches and
\* detaches contend for the lock ("Detach must not fail", main.cpp:279).
LoaderEnds ==
    /\ loader = "EntryInit" ~> loader \in {"Loaded", "Unloaded"}
    /\ loader = "UnloadDevice" ~> loader = "Unloaded"
=============================================================================
