-------------------------- MODULE PriorityBooster ---------------------------
(***************************************************************************)
(* PriorityBooster and its client: DriverEntry and DriverUnload, the       *)
(* device control request that sets the priority of a thread, and the      *)
(* programs that send it.                                                  *)
(*                                                                         *)
(* The request is METHOD_NEITHER: the driver reads the ThreadData of the   *)
(* client in place, at every mention of data-> again, and other threads of *)
(* the client can write it meanwhile.  The kernel is external: threads     *)
(* exit when they like, PsLookupThreadByThreadId takes a reference to the  *)
(* object of a thread that is still running, a device name can be created  *)
(* once, and DriverUnload is called when no handle is open.                *)
(***************************************************************************)
EXTENDS Integers, FiniteSets

CONSTANTS
    Clients,      \* the programs that use the driver
    Threads,      \* the threads of the system
    Priorities,   \* the values of ThreadData::Priority
    NoThread      \* no thread

ASSUME PrioritiesAreIntegers == Priorities \subseteq Int
ASSUME NoThreadIsNone == NoThread \notin Threads
ASSUME ClientsFinite == IsFiniteSet(Clients)

VARIABLES
    loader,       \* where DriverEntry or DriverUnload is
    device,       \* does \Device\PriorityBooster exist?
    link,         \* does \??\PriorityBooster exist?
    stopping,     \* has the I/O manager been asked to unload the driver?
    handle,       \* what CreateFileW has returned to each client
    at,           \* where PriorityBoosterDeviceControl is, for each client
    thread,       \* its local thread
    buffer,       \* the ThreadData of each client
    rewritten,    \* has the client written to it during the request?
    running,      \* the threads that have not exited
    references,   \* the references the driver has taken to each thread object
    priority      \* the priority of each thread

driver == <<loader, device, link, stopping>>
request == <<at, thread, rewritten>>
threads == <<running, references, priority>>
vars == <<driver, handle, request, buffer, threads>>

ValidPriorities == {p \in Priorities : ~(p < 1 \/ p > 31)}
ThreadData == [ThreadId : Threads, Priority : Priorities]

LoaderPoint == {"Unloaded", "CreateDevice", "CreateLink", "Loaded", "DeleteLink",
                "DeleteDevice", "Failed"}
RequestPoint == {"Idle", "Switch", "CheckLow", "CheckHigh", "Lookup", "Set",
                 "Dereference", "Complete", "Done"}

Init ==
    /\ loader = "Unloaded"
    /\ device = FALSE
    /\ link = FALSE
    /\ stopping = FALSE
    /\ handle = [c \in Clients |-> "None"]
    /\ at = [c \in Clients |-> "Idle"]
    /\ thread = [c \in Clients |-> NoThread]
    /\ buffer \in [Clients -> ThreadData]
    /\ rewritten = [c \in Clients |-> FALSE]
    /\ running = Threads
    /\ references = [t \in Threads |-> 0]
    /\ priority \in [Threads -> ValidPriorities]

-----------------------------------------------------------------------------
(* DriverEntry and DriverUnload.                                           *)

LoaderGoes(from, to) ==
    /\ loader = from
    /\ loader' = to

Load ==
    /\ loader \in {"Unloaded", "Failed"}
    /\ loader' = "CreateDevice"
    /\ UNCHANGED <<device, link, stopping, handle, request, buffer, threads>>

\* IoCreateDevice; the name of a device that is still there is taken.
CreateDevice ==
    /\ \/ ~device /\ device' = TRUE /\ LoaderGoes("CreateDevice", "CreateLink")
       \/ LoaderGoes("CreateDevice", "Failed") /\ UNCHANGED device
    /\ UNCHANGED <<link, stopping, handle, request, buffer, threads>>

\* IoCreateSymbolicLink; when it fails DriverEntry just returns.
CreateLink ==
    /\ \/ LoaderGoes("CreateLink", "Loaded") /\ link' = TRUE
       \/ LoaderGoes("CreateLink", "Failed") /\ UNCHANGED link
    /\ UNCHANGED <<device, stopping, handle, request, buffer, threads>>

Stop ==
    /\ loader = "Loaded" /\ ~stopping
    /\ stopping' = TRUE
    /\ UNCHANGED <<loader, device, link, handle, request, buffer, threads>>

\* DriverUnload is called ...
Unload ==
    /\ stopping
    /\ \A c \in Clients : handle[c] # "Open"
    /\ LoaderGoes("Loaded", "DeleteLink")
    /\ UNCHANGED <<device, link, stopping, handle, request, buffer, threads>>

\* ... and calls IoDeleteSymbolicLink ...
DeleteLink ==
    /\ LoaderGoes("DeleteLink", "DeleteDevice")
    /\ link' = FALSE
    /\ UNCHANGED <<device, stopping, handle, request, buffer, threads>>

\* ... and IoDeleteDevice.
DeleteDevice ==
    /\ LoaderGoes("DeleteDevice", "Unloaded")
    /\ device' = FALSE
    /\ stopping' = FALSE
    /\ UNCHANGED <<link, handle, request, buffer, threads>>

-----------------------------------------------------------------------------
(* The programs, PriorityBoosterClient among them.                         *)

\* CreateFileW and IRP_MJ_CREATE, which always succeeds.
OpenDevice(c) ==
    /\ handle[c] = "None"
    /\ handle' = [handle EXCEPT ![c] =
                     IF link /\ device /\ ~stopping /\ loader = "Loaded"
                     THEN "Open" ELSE "INVALID_HANDLE_VALUE"]
    /\ UNCHANGED <<driver, request, buffer, threads>>

\* DeviceIoControl; INVALID_HANDLE_VALUE is not nullptr, so it is called, and
\* fails, when the device could not be opened.
DeviceControl(c) ==
    /\ handle[c] # "None"
    /\ at[c] = "Idle"
    /\ at' = [at EXCEPT ![c] = IF handle[c] = "Open" THEN "Switch" ELSE "Done"]
    /\ rewritten' = [rewritten EXCEPT ![c] = FALSE]
    /\ UNCHANGED <<driver, handle, thread, buffer, threads>>

\* The program ends, and its handle is closed: IRP_MJ_CLOSE always succeeds.
Exit(c) ==
    /\ handle[c] # "None"
    /\ at[c] \in {"Idle", "Done"}
    /\ handle' = [handle EXCEPT ![c] = "None"]
    /\ at' = [at EXCEPT ![c] = "Idle"]
    /\ UNCHANGED <<driver, thread, rewritten, buffer, threads>>

\* Some thread of the program writes to the ThreadData.
WriteBuffer(c) ==
    /\ \E data \in ThreadData : buffer' = [buffer EXCEPT ![c] = data]
    /\ rewritten' = [rewritten EXCEPT ![c] = TRUE]
    /\ UNCHANGED <<driver, handle, at, thread, threads>>

\* A thread exits, and a new one may get its id once nobody refers to it.
ThreadExits(t) ==
    /\ t \in running
    /\ running' = running \ {t}
    /\ UNCHANGED <<driver, handle, request, buffer, references, priority>>

ThreadStarts(t) ==
    /\ t \notin running /\ references[t] = 0
    /\ running' = running \cup {t}
    /\ \E p \in ValidPriorities : priority' = [priority EXCEPT ![t] = p]
    /\ UNCHANGED <<driver, handle, request, buffer, references>>

-----------------------------------------------------------------------------
(* PriorityBoosterDeviceControl.                                           *)

Goes(c, from, to) ==
    /\ at[c] = from
    /\ at' = [at EXCEPT ![c] = to]

\* The control code, the length of the buffer, and its address.
Switch(c) ==
    /\ Goes(c, "Switch", "CheckLow") \/ Goes(c, "Switch", "Complete")
    /\ UNCHANGED <<driver, handle, thread, rewritten, buffer, threads>>

\* Mutant: only the lower bound is checked.
CheckOneBound(c) ==
    /\ Goes(c, "CheckLow", IF buffer[c].Priority < 1 THEN "Complete" ELSE "Lookup")
    /\ UNCHANGED <<driver, handle, thread, rewritten, buffer, threads>>

\* data->Priority < 1 || ...
CheckLow(c) ==
    /\ Goes(c, "CheckLow", IF buffer[c].Priority < 1 THEN "Complete" ELSE "CheckHigh")
    /\ UNCHANGED <<driver, handle, thread, rewritten, buffer, threads>>

\* ... data->Priority > 31.
CheckHigh(c) ==
    /\ Goes(c, "CheckHigh", IF buffer[c].Priority > 31 THEN "Complete" ELSE "Lookup")
    /\ UNCHANGED <<driver, handle, thread, rewritten, buffer, threads>>

\* Mutant: the status of PsLookupThreadByThreadId is not looked at.
LookupUnchecked(c) ==
    /\ Goes(c, "Lookup", "Set")
    /\ LET t == buffer[c].ThreadId IN
          IF t \in running
          THEN /\ thread' = [thread EXCEPT ![c] = t]
               /\ references' = [references EXCEPT ![t] = @ + 1]
          ELSE UNCHANGED <<thread, references>>
    /\ UNCHANGED <<driver, handle, rewritten, buffer, running, priority>>

\* PsLookupThreadByThreadId.
Lookup(c) ==
    /\ LET t == buffer[c].ThreadId IN
          \/ /\ t \in running
             /\ Goes(c, "Lookup", "Set")
             /\ thread' = [thread EXCEPT ![c] = t]
             /\ references' = [references EXCEPT ![t] = @ + 1]
          \/ /\ t \notin running
             /\ Goes(c, "Lookup", "Complete")
             /\ UNCHANGED <<thread, references>>
    /\ UNCHANGED <<driver, handle, rewritten, buffer, running, priority>>

\* KeSetPriorityThread.
SetPriority(c) ==
    /\ Goes(c, "Set", "Dereference")
    /\ priority' = [priority EXCEPT ![thread[c]] = buffer[c].Priority]
    /\ UNCHANGED <<driver, handle, thread, rewritten, buffer, running, references>>

\* ObDereferenceObject.
Dereference(c) ==
    /\ Goes(c, "Dereference", "Complete")
    /\ references' = [references EXCEPT ![thread[c]] = @ - 1]
    /\ thread' = [thread EXCEPT ![c] = NoThread]
    /\ UNCHANGED <<driver, handle, rewritten, buffer, running, priority>>

\* IoCompleteRequest.
Complete(c) ==
    /\ Goes(c, "Complete", "Done")
    /\ UNCHANGED <<driver, handle, thread, rewritten, buffer, threads>>

-----------------------------------------------------------------------------
(* The specification.                                                      *)

LoaderStep == CreateDevice \/ CreateLink \/ Unload \/ DeleteLink \/ DeleteDevice

RequestStep(c) ==
    \/ Switch(c) \/ CheckLow(c) \/ CheckHigh(c) \/ Lookup(c) \/ SetPriority(c)
    \/ Dereference(c) \/ Complete(c)

Next ==
    \/ Load \/ Stop \/ LoaderStep
    \/ \E t \in Threads : ThreadExits(t) \/ ThreadStarts(t)
    \/ \E c \in Clients :
          \/ OpenDevice(c) \/ DeviceControl(c) \/ Exit(c) \/ WriteBuffer(c)
          \/ RequestStep(c)

Spec == Init /\ [][Next]_vars

-----------------------------------------------------------------------------
(* Properties.                                                             *)

TypeOK ==
    /\ loader \in LoaderPoint
    /\ device \in BOOLEAN /\ link \in BOOLEAN /\ stopping \in BOOLEAN
    /\ handle \in [Clients -> {"None", "Open", "INVALID_HANDLE_VALUE"}]
    /\ at \in [Clients -> RequestPoint]
    /\ thread \in [Clients -> Threads \cup {NoThread}]
    /\ buffer \in [Clients -> ThreadData]
    /\ rewritten \in [Clients -> BOOLEAN]
    /\ running \subseteq Threads
    /\ references \in [Threads -> Nat]
    /\ priority \in [Threads -> Priorities]

\* Every reference that has been taken to a thread object belongs to a request
\* that is going to give it back, however the thread and the request end.
ReferencesBalanced ==
    \A t \in Threads : references[t] = Cardinality({c \in Clients : thread[c] = t})

\* The object of a thread is there when its priority is set, even if the
\* thread has exited since it was looked up.
SetsExistingThread ==
    \A c \in Clients : at[c] \in {"Set", "Dereference"} =>
        thread[c] \in Threads /\ references[thread[c]] > 0

\* The object of the thread a request works on stays for it, even if the thread
\* exits, and no reference is left behind when the request is done.
ThreadsReferenced == ReferencesBalanced /\ SetsExistingThread

\* The priority is checked, and read again when it is set.  A client that
\* leaves its ThreadData alone meanwhile, as PriorityBoosterClient does, never
\* gives a thread a priority outside 1..31 or changes another thread than it
\* says.
SetsCheckedPriority ==
    [][\A c \in Clients : at[c] = "Set" /\ at'[c] = "Dereference" /\ ~rewritten[c] =>
          /\ priority'[buffer[c].ThreadId] = buffer[c].Priority
          /\ buffer[c].Priority \in 1..31]_vars

\* The symbolic link never leads to a device that is gone.
LinkLeadsToDevice == link => device

\* DriverUnload takes away what DriverEntry has made, and no request is left.
UnloadLeavesNothing ==
    loader = "Unloaded" =>
        /\ ~device /\ ~link
        /\ \A c \in Clients : handle[c] # "Open" /\ thread[c] = NoThread

\* What exists when; a device that DriverEntry has left behind stays.
DevicePhases ==
    /\ link <=> loader \in {"Loaded", "DeleteLink"}
    /\ loader \in {"CreateLink", "Loaded", "DeleteLink", "DeleteDevice"} => device
    /\ loader = "Unloaded" => ~device
    /\ stopping => loader \in {"Loaded", "DeleteLink", "DeleteDevice"}

\* What a request knows at each point, if the client leaves its ThreadData alone.
RequestPhases ==
    \A c \in Clients :
        /\ handle[c] = "Open" => loader = "Loaded"
        /\ at[c] \notin {"Idle", "Done"} => handle[c] = "Open"
        /\ thread[c] # NoThread <=> at[c] \in {"Set", "Dereference"}
        /\ ~rewritten[c] =>
              /\ at[c] = "CheckHigh" => buffer[c].Priority >= 1
              /\ at[c] \in {"Lookup", "Set"} => buffer[c].Priority \in 1..31
              /\ at[c] = "Set" => thread[c] = buffer[c].ThreadId

\* The inductive invariant of the proofs.
IInv == TypeOK /\ DevicePhases /\ RequestPhases /\ ReferencesBalanced

\* A program waits for its DeviceIoControl.
Waiting(c) == at[c] \notin {"Idle", "Done"}
=============================================================================
