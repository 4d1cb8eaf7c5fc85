------------------------------ MODULE Socket --------------------------------
(***************************************************************************)
(* The class Socket of WFPController: the handle each object holds, how    *)
(* Connect goes from address to address until one accepts, and what is     *)
(* left when any of its calls fails and the method throws.                 *)
(*                                                                         *)
(* The program is single-threaded, so one method runs at a time.  WinSock  *)
(* is external: it gives the value of a closed handle to a later socket,   *)
(* any of its functions may fail, and GetAddrInfoW returns at least one    *)
(* address.  Of what the class offers two things are left out: Connect of  *)
(* an object that has a socket, and the construction from another Socket.  *)
(* The move assignment is there, although main.cpp does without it.        *)
(***************************************************************************)
EXTENDS Integers

CONSTANTS
    Objects,      \* the Socket objects
    Handles,      \* the values of SOCKET
    InvalidSocket,
    TTLs,         \* the values of a TTL
    MaxAddresses  \* bound on the addresses of a host

ASSUME InvalidSocketIsNone == InvalidSocket \notin Handles
ASSUME TTLsArePositive == TTLs \subseteq Nat \ {0}
ASSUME MaxAddressesIsPositive == MaxAddresses \in Nat \ {0}

VARIABLES
    alive,             \* the objects that have been constructed
    m_socket,          \* their members
    m_addressFamily,
    m_preconnectTTL,
    at,                \* where Connect is, or how it has ended
    object,            \* the object it was called for
    addresses,         \* how many addresses it has left
    open,              \* the handles of open sockets
    family,            \* the address family of each socket
    ttl,               \* its TTL, 0 for the default
    connected,         \* the sockets that are connected
    unclosed           \* the handles Close has failed to close

members == <<m_socket, m_addressFamily, m_preconnectTTL>>
control == <<at, object, addresses>>
sockets == <<open, family, ttl, connected, unclosed>>
vars == <<alive, members, control, sockets>>

Families == {"AF_INET", "AF_INET6", "Other"}
Point == {"None", "Returned", "Threw", "Socket", "SetTTL", "Connect", "CloseSocket"}

\* No method is running.
Idle == at \in {"None", "Returned", "Threw"}

Init ==
    /\ alive = {}
    /\ m_socket = [o \in Objects |-> InvalidSocket]
    /\ m_addressFamily = [o \in Objects |-> "0"]
    /\ m_preconnectTTL = [o \in Objects |-> 0]
    /\ at = "None" /\ object \in Objects /\ addresses = 0
    /\ open = {} /\ connected = {} /\ unclosed = {}
    /\ family = [s \in Handles |-> "0"]
    /\ ttl = [s \in Handles |-> 0]

-----------------------------------------------------------------------------
(* Construction, destruction, Close and Move.                              *)

\* closesocket, when it succeeds.
CloseSocket(s) ==
    /\ open' = open \ {s}
    /\ connected' = connected \ {s}
    /\ family' = [family EXCEPT ![s] = "0"]
    /\ ttl' = [ttl EXCEPT ![s] = 0]

\* Close of a handle: nothing, or a closesocket whose failure is ignored.
Close(s) ==
    \/ s = InvalidSocket /\ UNCHANGED sockets
    \/ s \in Handles /\ CloseSocket(s) /\ UNCHANGED unclosed
    \/ s \in open /\ unclosed' = unclosed \cup {s} /\ UNCHANGED <<open, family, ttl, connected>>

\* Socket::Socket().
Construct(o) ==
    /\ Idle /\ o \notin alive
    /\ alive' = alive \cup {o}
    /\ m_socket' = [m_socket EXCEPT ![o] = InvalidSocket]
    /\ m_addressFamily' = [m_addressFamily EXCEPT ![o] = "0"]
    /\ m_preconnectTTL' = [m_preconnectTTL EXCEPT ![o] = 0]
    /\ UNCHANGED <<control, sockets>>

\* Socket::Close(), and Socket::~Socket() which calls it.
CloseObject(o) ==
    /\ Idle /\ o \in alive
    /\ Close(m_socket[o])
    /\ m_socket' = [m_socket EXCEPT ![o] = InvalidSocket]
    /\ alive' \in {alive, alive \ {o}}
    /\ at' = "None"
    /\ UNCHANGED <<m_addressFamily, m_preconnectTTL, object, addresses>>

\* The assignments of Move, after Close; a Socket that is moved to itself has
\* been closed by then.
Take(o, p) ==
    /\ m_socket' = [m_socket EXCEPT ![p] = InvalidSocket,
                                    ![o] = IF o = p THEN InvalidSocket ELSE m_socket[p]]
    /\ m_addressFamily' = [m_addressFamily EXCEPT ![o] = m_addressFamily[p]]
    /\ m_preconnectTTL' = [m_preconnectTTL EXCEPT ![o] = m_preconnectTTL[p]]

\* operator=(Socket&&).
Move(o, p) ==
    /\ Idle /\ o \in alive /\ p \in alive
    /\ Close(m_socket[o])
    /\ Take(o, p)
    /\ at' = "None"
    /\ UNCHANGED <<alive, object, addresses>>

-----------------------------------------------------------------------------
(* SetPreconnectTTL and SetSocketTTL.                                      *)

SetPreconnectTTL(o, t) ==
    /\ Idle /\ o \in alive
    /\ m_preconnectTTL' = [m_preconnectTTL EXCEPT ![o] = t]
    /\ at' = "None"
    /\ UNCHANGED <<alive, m_socket, m_addressFamily, object, addresses, sockets>>

\* setsockopt at the layer of the address family; WinSock refuses the layer of
\* another family, and a handle that is not open.
SetOption(o, t) ==
    /\ m_addressFamily[o] \in {"AF_INET", "AF_INET6"}
    /\ m_socket[o] \in open
    /\ m_addressFamily[o] = family[m_socket[o]]
    /\ ttl' = [ttl EXCEPT ![m_socket[o]] = t]
    /\ UNCHANGED <<open, family, connected, unclosed>>

SetSocketTTL(o, t) ==
    /\ Idle /\ o \in alive
    /\ \/ SetOption(o, t) /\ at' = "None"
       \/ UNCHANGED sockets /\ at' = "Threw"
    /\ UNCHANGED <<alive, members, object, addresses>>

-----------------------------------------------------------------------------
(* Connect.                                                                *)

Goes(from, to) ==
    /\ at = from
    /\ at' = to

\* GetAddrInfoW.
Connect(o) ==
    /\ Idle /\ o \in alive
    /\ m_socket[o] = InvalidSocket
    /\ object' = o
    /\ \/ at' = "Threw" /\ UNCHANGED addresses
       \/ at' = "Socket" /\ addresses' \in 1..MaxAddresses
    /\ UNCHANGED <<alive, members, sockets>>

\* socket() for the next address; the handle may have been used before.
CreateSocket ==
    /\ \/ /\ Goes("Socket", IF m_preconnectTTL[object] = 0 THEN "Connect" ELSE "SetTTL")
          /\ \E s \in Handles \ open, f \in Families :
                /\ m_socket' = [m_socket EXCEPT ![object] = s]
                /\ open' = open \cup {s}
                /\ family' = [family EXCEPT ![s] = f]
                /\ m_addressFamily' = [m_addressFamily EXCEPT ![object] = f]
       \/ Goes("Socket", "Threw") /\ UNCHANGED <<m_socket, m_addressFamily, open, family>>
    /\ UNCHANGED <<alive, m_preconnectTTL, object, addresses, ttl, connected, unclosed>>

\* Mutant: what SetSocketTTL throws is caught, and the connection made without.
SetTTLOrNot ==
    /\ Goes("SetTTL", "Connect")
    /\ \/ SetOption(object, m_preconnectTTL[object])
       \/ UNCHANGED sockets
    /\ UNCHANGED <<alive, members, object, addresses>>

\* SetSocketTTL(m_preconnectTTL): the exception ends Connect with the socket open.
SetTTL ==
    /\ \/ SetOption(object, m_preconnectTTL[object]) /\ Goes("SetTTL", "Connect")
       \/ UNCHANGED sockets /\ Goes("SetTTL", "Threw")
    /\ UNCHANGED <<alive, members, object, addresses>>

\* connect().
TryAddress ==
    /\ \/ Goes("Connect", "Returned") /\ connected' = connected \cup {m_socket[object]}
       \/ Goes("Connect", "CloseSocket") /\ UNCHANGED connected
    /\ UNCHANGED <<alive, members, object, addresses, open, family, ttl, unclosed>>

\* Mutant: the next address is tried without closing the socket of this one.
NextAddressUnclosed ==
    /\ Goes("CloseSocket", IF addresses > 1 THEN "Socket" ELSE "Threw")
    /\ m_socket' = [m_socket EXCEPT ![object] = InvalidSocket]
    /\ addresses' = addresses - 1
    /\ UNCHANGED <<alive, m_addressFamily, m_preconnectTTL, object, sockets>>

\* closesocket(), and the next address if there is one.
NextAddress ==
    /\ \/ /\ Goes("CloseSocket", IF addresses > 1 THEN "Socket" ELSE "Threw")
          /\ CloseSocket(m_socket[object])
          /\ m_socket' = [m_socket EXCEPT ![object] = InvalidSocket]
          /\ addresses' = addresses - 1
       \/ /\ Goes("CloseSocket", "Threw")
          /\ UNCHANGED <<open, connected, family, ttl, m_socket, addresses>>
    /\ UNCHANGED <<alive, m_addressFamily, m_preconnectTTL, object, unclosed>>

-----------------------------------------------------------------------------
(* The specification.                                                      *)

ConnectStep == CreateSocket \/ SetTTL \/ TryAddress \/ NextAddress

Next ==
    \/ \E o \in Objects :
          \/ Construct(o) \/ CloseObject(o) \/ Connect(o)
          \/ \E p \in Objects : Move(o, p)
          \/ \E t \in TTLs : SetPreconnectTTL(o, t) \/ SetSocketTTL(o, t)
    \/ ConnectStep

Spec == Init /\ [][Next]_vars

-----------------------------------------------------------------------------
(* Properties.                                                             *)

TypeOK ==
    /\ alive \subseteq Objects
    /\ m_socket \in [Objects -> Handles \cup {InvalidSocket}]
    /\ m_addressFamily \in [Objects -> Families \cup {"0"}]
    /\ m_preconnectTTL \in [Objects -> TTLs \cup {0}]
    /\ at \in Point /\ object \in Objects
    /\ addresses \in 0..MaxAddresses
    /\ open \subseteq Handles /\ connected \subseteq open /\ unclosed \subseteq Handles
    /\ family \in [Handles -> Families \cup {"0"}]
    /\ ttl \in [Handles -> TTLs \cup {0}]

\* Two objects never hold the same handle, also when its value is used again, and
\* the handle an object holds is open: no method closes another object's socket.
OneHolder ==
    \A o \in Objects : m_socket[o] # InvalidSocket =>
        /\ m_socket[o] \in open
        /\ o \in alive
        /\ \A p \in Objects \ {o} : m_socket[p] # m_socket[o]

\* A socket that is open is held by an object, which will close it, unless Close
\* has tried: wherever Connect throws, the socket it was at is not lost.
OpenSocketsHeld ==
    \A s \in open : s \in unclosed \/ \E o \in alive : m_socket[o] = s

\* SetSocketTTL chooses the layer of the socket the object holds, after a Move
\* and after several addresses too.
FamilyOfSocket ==
    \A o \in Objects : m_socket[o] # InvalidSocket => m_addressFamily[o] = family[m_socket[o]]

\* "Attempt to connect to an address until one succeeds"
\* (wfpcontroller.winsock.socket.cpp:148): when Connect returns, it has.
ReturnsConnected == at = "Returned" => m_socket[object] \in connected

\* Every socket has the one owner that will close it and knows its family, and
\* a Connect that returns leaves its object with a connected one.
SocketsOwned == OneHolder /\ OpenSocketsHeld /\ FamilyOfSocket /\ ReturnsConnected

\* A connection is only made with the TTL that was asked for before.
ConnectsWithTTL ==
    [][\A s \in connected' \ connected :
          m_preconnectTTL[object] \in {0, ttl[s]} /\ m_socket[object] = s]_vars

\* Where Connect is, and what it has done by then.
ConnectPhases ==
    /\ at \in {"Returned", "Socket", "SetTTL", "Connect", "CloseSocket"} => object \in alive
    /\ at = "Socket" => m_socket[object] = InvalidSocket
    /\ at \in {"SetTTL", "Connect", "CloseSocket"} => m_socket[object] # InvalidSocket
    /\ at \in {"Socket", "SetTTL", "Connect", "CloseSocket"} => addresses >= 1
    /\ at = "Connect" => m_preconnectTTL[object] \in {0, ttl[m_socket[object]]}

\* The inductive invariant of the proofs.
IInv == /\ TypeOK /\ OneHolder /\ OpenSocketsHeld /\ FamilyOfSocket
        /\ ConnectPhases /\ ReturnsConnected
=============================================================================
