--------------------------- MODULE Library_proofs ----------------------------
(***************************************************************************)
(* Proofs about the library of WFPController.  First Socket, for any       *)
(* number of objects, handles, TTLs and addresses: that an open socket has *)
(* exactly one holder is inductive together with what Connect knows of the *)
(* socket it has come to.  Then the library as a whole, with what          *)
(* Strings_proofs says of the string functions.                            *)
(***************************************************************************)
EXTENDS Library, TLAPS

LEMMA InitIInv == Init => IInv
  BY MaxAddressesIsPositive
  DEF Init, IInv, TypeOK, Point, Families, OneHolder, OpenSocketsHeld, FamilyOfSocket,
      ConnectPhases, ReturnsConnected

-----------------------------------------------------------------------------
(* The methods that run to their end in one step.                          *)

\* No method is running: what is known of Connect does not depend on members.
LEMMA IdlePhases ==
  ASSUME at' \in {"None", "Threw"}
  PROVE  ConnectPhases' /\ ReturnsConnected'
  BY DEF ConnectPhases, ReturnsConnected

\* Close of the socket of object o, which holds it no longer: the types of the
\* sockets, and that nobody else is concerned.
LEMMA CloseEffect ==
  ASSUME IInv, NEW o \in Objects, o \in alive, Close(m_socket[o])
  PROVE  /\ open' \subseteq Handles /\ connected' \subseteq open' /\ unclosed' \subseteq Handles
         /\ family' \in [Handles -> Families \cup {"0"}]
         /\ ttl' \in [Handles -> TTLs \cup {0}]
         /\ open' \subseteq open
         /\ \A s \in open : s # m_socket[o] => s \in open' /\ family'[s] = family[s]
         /\ m_socket[o] \in open' => m_socket[o] \in unclosed'
         /\ unclosed \subseteq unclosed'
  <1> USE DEF IInv, TypeOK
  <1>1. CASE m_socket[o] = InvalidSocket /\ UNCHANGED sockets
    BY <1>1, InvalidSocketIsNone DEF sockets
  <1>2. CASE m_socket[o] \in Handles /\ CloseSocket(m_socket[o]) /\ UNCHANGED unclosed
    BY <1>2 DEF CloseSocket
  <1>3. CASE m_socket[o] \in open /\ unclosed' = unclosed \cup {m_socket[o]}
             /\ UNCHANGED <<open, family, ttl, connected>>
    BY <1>3
  <1> QED
    BY <1>1, <1>2, <1>3 DEF Close

LEMMA ConstructKeepsIInv ==
  ASSUME IInv, NEW o \in Objects, Construct(o)
  PROVE  IInv'
  <1> USE DEF IInv, TypeOK
  <1>1. m_socket[o] = InvalidSocket /\ UNCHANGED m_socket
    <2>1. m_socket[o] = InvalidSocket
      BY DEF Construct, OneHolder
    <2> QED
      BY <2>1 DEF Construct
  <1>2. TypeOK'
    BY DEF Construct, control, sockets
  <1>3. OneHolder' /\ OpenSocketsHeld' /\ FamilyOfSocket'
    BY <1>1 DEF Construct, OneHolder, OpenSocketsHeld, FamilyOfSocket, sockets
  <1>4. ConnectPhases' /\ ReturnsConnected'
    BY <1>1 DEF Construct, Idle, ConnectPhases, ReturnsConnected, control, sockets
  <1> QED
    BY <1>2, <1>3, <1>4

LEMMA CloseObjectKeepsIInv ==
  ASSUME IInv, NEW o \in Objects, CloseObject(o)
  PROVE  IInv'
  <1> USE DEF IInv, TypeOK
  <1>1. /\ o \in alive /\ Close(m_socket[o])
        /\ m_socket' = [m_socket EXCEPT ![o] = InvalidSocket]
        /\ alive' \in {alive, alive \ {o}} /\ at' = "None"
        /\ UNCHANGED <<m_addressFamily, m_preconnectTTL, object, addresses>>
    BY DEF CloseObject
  <1>2. TypeOK'
    BY <1>1, CloseEffect DEF Point
  <1>3. OneHolder'
    BY <1>1, CloseEffect DEF OneHolder
  <1>4. OpenSocketsHeld'
    BY <1>1, CloseEffect, InvalidSocketIsNone DEF OpenSocketsHeld, OneHolder
  <1>5. FamilyOfSocket'
    BY <1>1, CloseEffect DEF FamilyOfSocket, OneHolder
  <1> QED
    BY <1>1, <1>2, <1>3, <1>4, <1>5, IdlePhases

LEMMA MoveKeepsIInv ==
  ASSUME IInv, NEW o \in Objects, NEW p \in Objects, Move(o, p)
  PROVE  IInv'
  <1> USE DEF IInv, TypeOK
  <1>1. /\ o \in alive /\ p \in alive /\ Close(m_socket[o]) /\ Take(o, p)
        /\ at' = "None" /\ UNCHANGED <<alive, object, addresses>>
    BY DEF Move
  <1>2. TypeOK'
    BY <1>1, CloseEffect DEF Take, Point
  <1>3. /\ m_socket'[p] = InvalidSocket \/ o = p
        /\ m_socket'[o] = IF o = p THEN InvalidSocket ELSE m_socket[p]
        /\ \A q \in Objects \ {o, p} : m_socket'[q] = m_socket[q]
        /\ \A q \in Objects \ {o} : m_addressFamily'[q] = m_addressFamily[q]
        /\ m_addressFamily'[o] = m_addressFamily[p]
    BY <1>1 DEF Take
  <1>4. OneHolder'
    BY <1>1, <1>3, CloseEffect DEF OneHolder
  <1>5. OpenSocketsHeld'
    <2> SUFFICES ASSUME NEW s \in open', s \notin unclosed'
                 PROVE  \E q \in alive : m_socket'[q] = s
      BY <1>1 DEF OpenSocketsHeld
    <2>1. s \in open /\ s \notin unclosed /\ s # m_socket[o] /\ s # InvalidSocket
      BY <1>1, CloseEffect, InvalidSocketIsNone
    <2>2. PICK q \in alive : m_socket[q] = s
      BY <2>1 DEF OpenSocketsHeld
    <2>3. CASE q = p
      BY <1>1, <1>3, <2>1, <2>2, <2>3
    <2>4. CASE q # p
      BY <1>1, <1>3, <2>1, <2>2, <2>4
    <2> QED
      BY <2>3, <2>4
  <1>6. FamilyOfSocket'
    BY <1>1, <1>3, CloseEffect DEF FamilyOfSocket, OneHolder
  <1> QED
    BY <1>1, <1>2, <1>4, <1>5, <1>6, IdlePhases

LEMMA TTLKeepsIInv ==
  ASSUME IInv, NEW o \in Objects, NEW t \in TTLs,
         SetPreconnectTTL(o, t) \/ SetSocketTTL(o, t)
  PROVE  IInv'
  <1> USE DEF IInv, TypeOK
  <1>1. /\ UNCHANGED <<alive, m_socket, m_addressFamily, object, addresses>>
        /\ UNCHANGED <<open, family, connected, unclosed>>
        /\ at' \in {"None", "Threw"}
    BY DEF SetPreconnectTTL, SetSocketTTL, SetOption, members, sockets
  <1>2. /\ m_preconnectTTL' \in [Objects -> TTLs \cup {0}]
        /\ ttl' \in [Handles -> TTLs \cup {0}]
    BY DEF SetPreconnectTTL, SetSocketTTL, SetOption, members, sockets
  <1>3. OneHolder' /\ OpenSocketsHeld' /\ FamilyOfSocket'
    BY <1>1 DEF OneHolder, OpenSocketsHeld, FamilyOfSocket
  <1> QED
    BY <1>1, <1>2, <1>3, IdlePhases DEF Point

-----------------------------------------------------------------------------
(* Connect.                                                                *)

LEMMA ConnectKeepsIInv ==
  ASSUME IInv, NEW o \in Objects, Connect(o)
  PROVE  IInv'
  <1> USE DEF IInv, TypeOK
  <1>1. /\ o \in alive /\ m_socket[o] = InvalidSocket /\ object' = o
        /\ UNCHANGED <<alive, m_socket, m_addressFamily, m_preconnectTTL, sockets>>
        /\ \/ at' = "Threw" /\ UNCHANGED addresses
           \/ at' = "Socket" /\ addresses' \in 1..MaxAddresses
    BY DEF Connect, members
  <1>2. OneHolder' /\ OpenSocketsHeld' /\ FamilyOfSocket'
    BY <1>1 DEF OneHolder, OpenSocketsHeld, FamilyOfSocket, sockets
  <1>3. TypeOK'
    BY <1>1, MaxAddressesIsPositive DEF Point, sockets
  <1>4. ConnectPhases' /\ ReturnsConnected'
    BY <1>1, MaxAddressesIsPositive DEF ConnectPhases, ReturnsConnected
  <1> QED
    BY <1>2, <1>3, <1>4

LEMMA CreateSocketKeepsIInv ==
  ASSUME IInv, CreateSocket
  PROVE  IInv'
  <1> USE DEF IInv, TypeOK
  <1>1. /\ UNCHANGED <<alive, m_preconnectTTL, object, addresses, ttl, connected, unclosed>>
        /\ at = "Socket" /\ object \in alive /\ m_socket[object] = InvalidSocket
        /\ addresses >= 1
    BY DEF CreateSocket, Goes, ConnectPhases
  <1>2. CASE at' = "Threw" /\ UNCHANGED <<m_socket, m_addressFamily, open, family>>
    BY <1>1, <1>2, IdlePhases DEF OneHolder, OpenSocketsHeld, FamilyOfSocket, Point
  <1>3. ASSUME NEW s \in Handles \ open, NEW f \in Families,
               at' = IF m_preconnectTTL[object] = 0 THEN "Connect" ELSE "SetTTL",
               m_socket' = [m_socket EXCEPT ![object] = s],
               open' = open \cup {s},
               family' = [family EXCEPT ![s] = f],
               m_addressFamily' = [m_addressFamily EXCEPT ![object] = f]
        PROVE  IInv'
    <2>1. TypeOK'
      BY <1>1, <1>3 DEF Point
    <2>2. OneHolder'
      BY <1>1, <1>3 DEF OneHolder
    <2>3. OpenSocketsHeld'
      BY <1>1, <1>3, InvalidSocketIsNone DEF OpenSocketsHeld
    <2>4. FamilyOfSocket'
      BY <1>1, <1>3 DEF FamilyOfSocket, OneHolder
    <2>5. ConnectPhases' /\ ReturnsConnected'
      BY <1>1, <1>3, InvalidSocketIsNone DEF ConnectPhases, ReturnsConnected
    <2> QED
      BY <2>1, <2>2, <2>3, <2>4, <2>5
  <1> QED
    BY <1>2, <1>3 DEF CreateSocket, Goes

LEMMA SetTTLKeepsIInv ==
  ASSUME IInv, SetTTL
  PROVE  IInv'
  <1> USE DEF IInv, TypeOK
  <1>1. /\ UNCHANGED <<alive, members, object, addresses, open, family, connected, unclosed>>
        /\ at = "SetTTL" /\ object \in alive /\ m_socket[object] \in open /\ addresses >= 1
    BY DEF SetTTL, SetOption, sockets, Goes, ConnectPhases, OneHolder
  <1>2. ttl' \in [Handles -> TTLs \cup {0}]
    BY DEF SetTTL, SetOption, sockets
  <1>3. TypeOK' /\ OneHolder' /\ OpenSocketsHeld' /\ FamilyOfSocket'
    BY <1>1, <1>2
    DEF SetTTL, Goes, Point, members, OneHolder, OpenSocketsHeld, FamilyOfSocket
  <1>4. CASE at' = "Threw"
    BY <1>3, <1>4, IdlePhases
  <1>5. CASE at' = "Connect" /\ SetOption(object, m_preconnectTTL[object])
    <2>1. ttl'[m_socket[object]] = m_preconnectTTL[object]
      BY <1>1, <1>5 DEF SetOption
    <2> QED
      BY <1>1, <1>3, <1>5, <2>1, InvalidSocketIsNone DEF ConnectPhases, ReturnsConnected, members
  <1> QED
    BY <1>4, <1>5 DEF SetTTL, Goes

LEMMA TryAddressKeepsIInv ==
  ASSUME IInv, TryAddress
  PROVE  IInv'
  <1> USE DEF IInv, TypeOK
  <1>1. /\ UNCHANGED <<alive, members, object, addresses, open, family, ttl, unclosed>>
        /\ at = "Connect" /\ object \in alive /\ m_socket[object] \in open /\ addresses >= 1
        /\ \/ at' = "Returned" /\ connected' = connected \cup {m_socket[object]}
           \/ at' = "CloseSocket" /\ UNCHANGED connected
    BY DEF TryAddress, Goes, ConnectPhases, OneHolder
  <1>2. TypeOK' /\ OneHolder' /\ OpenSocketsHeld' /\ FamilyOfSocket'
    BY <1>1 DEF Point, members, OneHolder, OpenSocketsHeld, FamilyOfSocket
  <1>3. ConnectPhases' /\ ReturnsConnected'
    BY <1>1, InvalidSocketIsNone DEF ConnectPhases, ReturnsConnected, members
  <1> QED
    BY <1>2, <1>3

LEMMA NextAddressKeepsIInv ==
  ASSUME IInv, NextAddress
  PROVE  IInv'
  <1> USE DEF IInv, TypeOK
  <1>1. /\ UNCHANGED <<alive, m_addressFamily, m_preconnectTTL, object, unclosed>>
        /\ at = "CloseSocket" /\ object \in alive /\ m_socket[object] \in open /\ addresses >= 1
    BY DEF NextAddress, Goes, ConnectPhases, OneHolder
  <1>2. CASE at' = "Threw" /\ UNCHANGED <<open, connected, family, ttl, m_socket, addresses>>
    BY <1>1, <1>2, IdlePhases DEF Point, OneHolder, OpenSocketsHeld, FamilyOfSocket
  <1>3. CASE /\ at' = IF addresses > 1 THEN "Socket" ELSE "Threw"
             /\ CloseSocket(m_socket[object])
             /\ m_socket' = [m_socket EXCEPT ![object] = InvalidSocket]
             /\ addresses' = addresses - 1
    <2>1. TypeOK'
      BY <1>1, <1>3, MaxAddressesIsPositive DEF CloseSocket, Point
    <2>2. OneHolder' /\ FamilyOfSocket'
      BY <1>1, <1>3 DEF CloseSocket, OneHolder, FamilyOfSocket
    <2>3. OpenSocketsHeld'
      BY <1>1, <1>3 DEF CloseSocket, OpenSocketsHeld
    <2>4. ConnectPhases' /\ ReturnsConnected'
      BY <1>1, <1>3 DEF ConnectPhases, ReturnsConnected
    <2> QED
      BY <2>1, <2>2, <2>3, <2>4
  <1> QED
    BY <1>2, <1>3 DEF NextAddress, Goes

\* What the objects hold and what Connect has come to, at every moment.
THEOREM Invariance == Spec => []IInv
  <1>1. IInv /\ [Next]_vars => IInv'
    <2> SUFFICES ASSUME IInv, [Next]_vars PROVE IInv'
      OBVIOUS
    <2>1. CASE UNCHANGED vars
      BY <2>1
      DEF vars, members, control, sockets, IInv, TypeOK, OneHolder, OpenSocketsHeld,
          FamilyOfSocket, ConnectPhases, ReturnsConnected
    <2>2. ASSUME NEW o \in Objects,
                 \/ Construct(o) \/ CloseObject(o) \/ Connect(o)
                 \/ \E p \in Objects : Move(o, p)
                 \/ \E t \in TTLs : SetPreconnectTTL(o, t) \/ SetSocketTTL(o, t)
          PROVE  IInv'
      BY <2>2, ConstructKeepsIInv, CloseObjectKeepsIInv, ConnectKeepsIInv,
         MoveKeepsIInv, TTLKeepsIInv
    <2>3. CASE ConnectStep
      BY <2>3, CreateSocketKeepsIInv, SetTTLKeepsIInv, TryAddressKeepsIInv,
         NextAddressKeepsIInv DEF ConnectStep
    <2> QED
      BY <2>1, <2>2, <2>3 DEF Next
  <1> QED
    BY InitIInv, <1>1, PTL DEF Spec

-----------------------------------------------------------------------------
(* The results.                                                            *)

\* Every variable has its type; above all, Connect never goes past the last
\* address.
THEOREM TypesHold == Spec => []TypeOK
  BY Invariance, PTL DEF IInv

\* No object ever holds the socket of another, or a handle that is closed.
THEOREM HeldByOne == Spec => []OneHolder
  BY Invariance, PTL DEF IInv

\* Wherever a method throws, the open socket it was at has an object that will
\* close it.
THEOREM NoneLost == Spec => []OpenSocketsHeld
  BY Invariance, PTL DEF IInv

\* m_addressFamily is that of the socket, so SetSocketTTL chooses its layer.
THEOREM FamilyKept == Spec => []FamilyOfSocket
  BY Invariance, PTL DEF IInv

\* When Connect returns, the socket is connected.
THEOREM ReturnedIsConnected == Spec => []ReturnsConnected
  BY Invariance, PTL DEF IInv

\* All four at once: who owns a socket, and what a Connect that returns leaves.
THEOREM SocketsHaveOwners == Spec => []SocketsOwned
  BY HeldByOne, NoneLost, FamilyKept, ReturnedIsConnected, PTL DEF SocketsOwned

\* Every connection is made with the TTL of SetPreconnectTTL, and for the object
\* Connect was called for.
THEOREM TTLBeforeConnection == Spec => ConnectsWithTTL
  <1>1. Spec => []IInv
    BY Invariance
  <1>2. ASSUME IInv, [Next]_vars, NEW s \in connected' \ connected
        PROVE  m_preconnectTTL[object] \in {0, ttl[s]} /\ m_socket[object] = s
    <2>1. TryAddress /\ s = m_socket[object] /\ at = "Connect"
      <3>1. ASSUME NEW h \in Handles \cup {InvalidSocket}, Close(h)
            PROVE  connected' \subseteq connected
        BY <3>1 DEF Close, CloseSocket, sockets
      <3>2. ASSUME NEW o \in Objects,
                   CloseObject(o) \/ \E p \in Objects : Move(o, p)
            PROVE  FALSE
        BY <1>2, <3>1, <3>2 DEF CloseObject, Move, IInv, TypeOK
      <3>3. ASSUME NEW o \in Objects, NEW t \in TTLs,
                   SetPreconnectTTL(o, t) \/ SetSocketTTL(o, t)
            PROVE  FALSE
        BY <1>2, <3>3 DEF SetPreconnectTTL, SetSocketTTL, SetOption, sockets
      <3>4. ASSUME CreateSocket \/ SetTTL \/ NextAddress PROVE FALSE
        BY <1>2, <3>4 DEF CreateSocket, SetTTL, SetOption, NextAddress, CloseSocket, sockets
      <3>5. ASSUME NEW o \in Objects, Construct(o) \/ Connect(o) PROVE FALSE
        BY <1>2, <3>5 DEF Construct, Connect, sockets
      <3>6. TryAddress
        BY <1>2, <3>2, <3>3, <3>4, <3>5 DEF Next, ConnectStep, vars, sockets
      <3> QED
        BY <1>2, <3>6 DEF TryAddress, Goes
    <2> QED
      BY <1>2, <2>1 DEF IInv, ConnectPhases
  <1>3. IInv /\ [Next]_vars =>
           [\A s \in connected' \ connected :
               m_preconnectTTL[object] \in {0, ttl[s]} /\ m_socket[object] = s]_vars
    BY <1>2
  <1> QED
    BY <1>1, <1>3, PTL DEF Spec, ConnectsWithTTL

-----------------------------------------------------------------------------
(* The library.                                                            *)

\* What is proved of the string functions.
StringsProofs == INSTANCE Strings_proofs

LEMMA StringsInit == Strings!Init => StringsProofs!Init
  BY DEF Strings!Init, StringsProofs!Init, Strings!BoundedSeq, StringsProofs!BoundedSeq,
     Strings!SeqOf, StringsProofs!SeqOf

LEMMA StringsNext ==
  [Strings!Next]_(Strings!vars) => [StringsProofs!Next]_(StringsProofs!vars)
  <1>1. Strings!vars = StringsProofs!vars
    BY DEF Strings!vars, StringsProofs!vars, Strings!arguments, StringsProofs!arguments,
       Strings!tokens, StringsProofs!tokens, Strings!replaced, StringsProofs!replaced
  <1>2. Strings!Next => StringsProofs!Next
    BY DEF Strings!Next, StringsProofs!Next,
       Strings!TokeniseString, StringsProofs!TokeniseString,
       Strings!WholeString, StringsProofs!WholeString, Strings!Split, StringsProofs!Split,
       Strings!Replace, StringsProofs!Replace,
       Strings!ReplaceNext, StringsProofs!ReplaceNext,
       Strings!ReplaceEnd, StringsProofs!ReplaceEnd,
       Strings!find, StringsProofs!find, Strings!substr, StringsProofs!substr,
       Strings!npos, StringsProofs!npos,
       Strings!arguments, StringsProofs!arguments,
       Strings!tokens, StringsProofs!tokens, Strings!replaced, StringsProofs!replaced
  <1>3. Strings!vars' = StringsProofs!vars'
    BY DEF Strings!vars, StringsProofs!vars, Strings!arguments, StringsProofs!arguments,
       Strings!tokens, StringsProofs!tokens, Strings!replaced, StringsProofs!replaced
  <1> QED
    BY <1>1, <1>2, <1>3

LEMMA StringsProperties ==
    /\ StringsProofs!TokensOfSource => Strings!TokensOfSource
    /\ StringsProofs!ReplaceAgrees => Strings!ReplaceAgrees
  <1>1. StringsProofs!TokensOfSource => Strings!TokensOfSource
    BY DEF Strings!TokensOfSource, StringsProofs!TokensOfSource,
       Strings!TokensJoin, StringsProofs!TokensJoin,
       Strings!TokensLeftmost, StringsProofs!TokensLeftmost,
       Strings!Join, StringsProofs!Join, Strings!find, StringsProofs!find,
       Strings!npos, StringsProofs!npos
  <1>2. StringsProofs!ReplaceAgrees => Strings!ReplaceAgrees
    BY DEF Strings!ReplaceAgrees, StringsProofs!ReplaceAgrees,
       Strings!ReplacesBetweenTokens, StringsProofs!ReplacesBetweenTokens,
       Strings!ErasesLikeReplace, StringsProofs!ErasesLikeReplace,
       Strings!Join, StringsProofs!Join, Strings!Erase, StringsProofs!Erase
  <1> QED
    BY <1>1, <1>2

\* Each part of the library behaves as it does alone.
LEMMA PartsImplemented == SpecAll => Spec /\ StringsProofs!Spec
  <1>1. InitAll => Init /\ StringsProofs!Init
    BY StringsInit DEF InitAll
  <1>2. [NextAll]_library => [Next]_vars
    BY DEF NextAll, library, UsingSocket, UsingStrings
  <1>3. [NextAll]_library => [Strings!Next]_(Strings!vars)
    BY DEF NextAll, library, UsingSocket, UsingStrings, strings,
       Strings!vars, Strings!arguments, Strings!tokens, Strings!replaced
  <1> QED
    BY <1>1, <1>2, <1>3, StringsNext, PTL DEF SpecAll, Spec, StringsProofs!Spec

\* Sockets have one owner, and none is lost.
THEOREM LibrarySockets == SpecAll => []SocketsOwned /\ ConnectsWithTTL
  BY PartsImplemented, SocketsHaveOwners, TTLBeforeConnection, PTL

\* For strings, delimiters and replacements of any length the tokens are the
\* maximal pieces of the source between its delimiters, none of them lost,
THEOREM LibraryTokens == SpecAll => []TokensOfSource
  <1>1. StringsProofs!Spec => []StringsProofs!TokensOfSource
    BY StringsProofs!StringsTokens
  <1>2. StringsProofs!TokensOfSource => TokensOfSource
    BY StringsProperties DEF TokensOfSource
  <1> QED
    BY <1>1, <1>2, PartsImplemented, PTL

\* and Replace and Erase, which are written without TokeniseString, agree with it.
THEOREM LibraryReplace == SpecAll => []ReplaceAgrees
  <1>1. StringsProofs!Spec => []StringsProofs!ReplaceAgrees
    BY StringsProofs!StringsReplace
  <1>2. StringsProofs!ReplaceAgrees => ReplaceAgrees
    BY StringsProperties DEF ReplaceAgrees
  <1> QED
    BY <1>1, <1>2, PartsImplemented, PTL
=============================================================================
