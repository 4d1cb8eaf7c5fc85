------------------------ MODULE WFPController_proofs ------------------------
(***************************************************************************)
(* Proofs about WFPController, for any number of controllers and sessions. *)
(* The inductive invariant is IInv.  A step changes the state of one       *)
(* process only; what it does to the engine's objects is to add one for    *)
(* its own session, to delete one it has added itself, or to close         *)
(* sessions nobody holds any more.  The second half is the refinement of   *)
(* FilterEngine: the owner of a session is the one process that holds it,  *)
(* every step of a process is an Open, an Add or a Remove of its own or a  *)
(* stutter, and so all objects are those of one session.                   *)
(***************************************************************************)
EXTENDS WFPController, TLAPS

LEMMA Orders ==
  /\ \A i \in 1..4 : /\ AddOrder[i] \in Callouts
                     /\ FilterOrder[i] \in Callouts
                     /\ DestroyOrder[i] \in Callouts
  /\ \A i, j \in 1..4 : AddOrder[i] = AddOrder[j] => i = j
  /\ \A k \in Callouts : \E i \in 1..4 : AddOrder[i] = k
  /\ \A k \in Callouts : \E i \in 1..4 : FilterOrder[i] = k
  /\ \A k \in Callouts : \E i \in 1..4 : DestroyOrder[i] = k
  <1>1. /\ AddOrder[1] = "OutboundTCP" /\ AddOrder[2] = "OutboundIPv4"
        /\ AddOrder[3] = "InboundICMPError" /\ AddOrder[4] = "OutboundICMPError"
    BY DEF AddOrder
  <1>2. /\ FilterOrder[1] = "OutboundIPv4" /\ FilterOrder[2] = "InboundICMPError"
        /\ FilterOrder[3] = "OutboundICMPError" /\ FilterOrder[4] = "OutboundTCP"
    BY DEF FilterOrder
  <1>3. /\ DestroyOrder[1] = "OutboundTCP" /\ DestroyOrder[2] = "OutboundICMPError"
        /\ DestroyOrder[3] = "InboundICMPError" /\ DestroyOrder[4] = "OutboundIPv4"
    BY DEF DestroyOrder
  <1>4. \A i \in 1..4 : i = 1 \/ i = 2 \/ i = 3 \/ i = 4
    OBVIOUS
  <1> QED
    BY <1>1, <1>2, <1>3, <1>4 DEF Callouts

LEMMA AfterStepTypes ==
  \A p \in {"Open", "Provider", "Context", "Sublayer", "Add", "Filters"} :
      AfterStep[p] \in {"Provider", "Context", "Sublayer", "Replace", "Filters", "Prompt"}
                       \ {p}
  BY DEF AfterStep

\* The kinds of objects do not overlap.
LEMMA ObjectKinds ==
  /\ \A k \in Callouts : CalloutObject(k) \in Objects /\ FilterObject(k) \in Objects
  /\ \A k, l \in Callouts : /\ CalloutObject(k) # FilterObject(l)
                            /\ CalloutObject(k) = CalloutObject(l) => k = l
  /\ {Provider, Context, Sublayer} \subseteq Objects
  /\ \A k \in Callouts : CalloutObject(k) \notin {Provider, Context, Sublayer}
  BY DEF Objects, CalloutObject, FilterObject, Provider, Context, Sublayer

LEMMA InitIInv == Init => IInv
  <1> SUFFICES ASSUME Init PROVE IInv
    OBVIOUS
  <1>1. TypeOK
    BY DEF Init, TypeOK, Point
  <1>2. ASSUME NEW c \in Controllers
        PROVE  ProcessInv(c) /\ Held(c) = {} /\ added[c] = {}
    BY DEF Init, ProcessInv, Empty, Held
  <1> QED
    BY <1>1, <1>2 DEF Init, IInv, SessionsNotShared, KeysUnique, CalloutsTracked,
       NothingOutlivesItsSession

-----------------------------------------------------------------------------
(* What a step can do.                                                     *)

ProcessStep(c) == Start(c) \/ Type(c) \/ Step(c) \/ Kill(c)

OneCall(c) == RegisterProvider(c) \/ AddContext(c) \/ AddSublayer(c)

\* The state of the other processes.
OthersKept(c) ==
    \A d \in Controllers \ {c} :
        /\ pc'[d] = pc[d] /\ at'[d] = at[d] /\ command'[d] = command[d]
        /\ engine'[d] = engine[d] /\ handle'[d] = handle[d] /\ added'[d] = added[d]

LEMMA StepKeepsOthers ==
  ASSUME TypeOK, NEW c \in Controllers, ProcessStep(c)
  PROVE  OthersKept(c)
  <1> USE DEF TypeOK, OthersKept, handles
  <1> DEFINE Moved == \A d \in Controllers \ {c} :
                        pc'[d] = pc[d] /\ at'[d] = at[d] /\ command'[d] = command[d]
             Shared == \A d \in Controllers \ {c} :
                        engine'[d] = engine[d] /\ handle'[d] = handle[d] /\ added'[d] = added[d]
  <1>1. Moved
    <2> USE DEF Goto, Done, Throw
    <2>1. CASE Start(c) \/ Type(c) \/ Kill(c)
      BY <2>1 DEF Start, Type, Kill
    <2>2. CASE OpenFilterEngine(c) \/ OneCall(c)
      BY <2>2 DEF OpenFilterEngine, OneCall, RegisterProvider, AddContext, AddSublayer, AddOne
    <2>3. CASE ReplaceCallout(c) \/ AddCallout(c) \/ AddFilter(c)
      BY <2>3 DEF ReplaceCallout, AddCallout, AddFilter
    <2>4. CASE CloseNothing(c) \/ CloseCallouts(c) \/ CloseEngine(c) \/ DestroyCallout(c)
      BY <2>4 DEF CloseNothing, CloseCallouts, CloseEngine, DestroyCallout, CloseReturns
    <2> QED
      BY <2>1, <2>2, <2>3, <2>4 DEF ProcessStep, Step, OneCall
  <1>2. Shared
    <2>1. CASE Start(c) \/ Type(c) \/ Kill(c)
      BY <2>1 DEF Start, Type, Kill
    <2>2. CASE OpenFilterEngine(c) \/ OneCall(c)
      BY <2>2 DEF OpenFilterEngine, OneCall, RegisterProvider, AddContext, AddSublayer, AddOne
    <2>3. CASE ReplaceCallout(c) \/ AddCallout(c) \/ AddFilter(c)
      BY <2>3 DEF ReplaceCallout, AddCallout, AddFilter, RemoveThen
    <2>4. CASE CloseNothing(c) \/ CloseCallouts(c) \/ CloseEngine(c) \/ DestroyCallout(c)
      BY <2>4 DEF CloseNothing, CloseCallouts, CloseEngine, DestroyCallout, Remove, RemoveThen
    <2> QED
      BY <2>1, <2>2, <2>3, <2>4 DEF ProcessStep, Step, OneCall
  <1> QED
    BY <1>1, <1>2

\* The handles of the process itself: it opens a session nobody else has open.
LEMMA HandlesEffect ==
  ASSUME IInv, NEW c \in Controllers, ProcessStep(c)
  PROVE  Held(c)' \subseteq Held(c) \cup (Sessions \ Open)
  <1> USE DEF IInv, TypeOK, Held
  <1>1. CASE UNCHANGED handles
    BY <1>1 DEF handles
  <1>2. CASE Kill(c)
    BY <1>2 DEF Kill
  <1>3. CASE OpenFilterEngine(c)
    BY <1>3 DEF OpenFilterEngine, handles
  <1>4. CASE ReplaceCallout(c)
    BY <1>4, Orders DEF ReplaceCallout, RemoveThen, handles
  <1>5. CASE CloseCallouts(c) \/ DestroyCallout(c)
    BY <1>5, Orders DEF CloseCallouts, DestroyCallout, Remove, RemoveThen
  <1>6. CASE CloseEngine(c)
    BY <1>6 DEF CloseEngine
  <1> QED
    BY <1>1, <1>2, <1>3, <1>4, <1>5, <1>6
    DEF ProcessStep, Step, Start, Type, RegisterProvider, AddContext, AddSublayer, AddOne,
        AddCallout, AddFilter, CloseNothing

\* The objects: some of the process's own callouts are deleted and sessions
\* close, or one object is added.
Deletes(c) ==
    \E objs \in SUBSET objects :
        /\ objects' = Keep(objs, Open')
        /\ \A x \in objects \ objs :
              \E k \in added[c] \ added'[c] : x[1] = CalloutObject(k)

Adds(c) ==
    \E o \in Objects :
        /\ UNCHANGED handles
        /\ engine[c] # None
        /\ o \in {FilterObject(k) : k \in Callouts} \/ ~Exists(o)
        /\ objects' = objects \cup {<<o, engine[c]>>}

LEMMA RemoveDeletes ==
  ASSUME TypeOK, NEW c \in Controllers, NEW k \in Callouts, NEW h, RemoveThen(c, k, h)
  PROVE  Deletes(c)
  <1>1. PICK objs \in IF Removes(c, k) THEN Deleted(k) ELSE {objects} :
           objects' = Keep(objs, Open')
    BY DEF RemoveThen
  <1>2. objs \in SUBSET objects
    BY <1>1 DEF Deleted
  <1>3. \A x \in objects \ objs : Removes(c, k) /\ x[1] = CalloutObject(k)
    BY <1>1 DEF Deleted
  <1>4. Removes(c, k) => k \in added[c] \ added'[c]
    BY DEF Removes, RemoveThen, TypeOK
  <1> QED
    BY <1>1, <1>2, <1>3, <1>4 DEF Deletes

LEMMA ObjectsEffect ==
  ASSUME IInv, NEW c \in Controllers, ProcessStep(c)
  PROVE  Deletes(c) \/ Adds(c) \/ UNCHANGED <<handles, objects>>
  <1> USE DEF IInv, TypeOK
  <1>1. CASE \E objs \in {objects} : objects' = Keep(objs, Open')
    BY <1>1 DEF Deletes
  <1>2. CASE OneCall(c)
    BY <1>2, ObjectKinds DEF OneCall, RegisterProvider, AddContext, AddSublayer, AddOne,
       BfeAdds, Adds
  <1>3. CASE AddCallout(c) \/ AddFilter(c)
    BY <1>3, Orders, ObjectKinds DEF AddCallout, AddFilter, BfeAdds, Adds
  <1>4. CASE ReplaceCallout(c) \/ CloseCallouts(c) \/ DestroyCallout(c)
    BY <1>4, Orders, RemoveDeletes DEF ReplaceCallout, CloseCallouts, DestroyCallout, Remove
  <1> QED
    BY <1>1, <1>2, <1>3, <1>4
    DEF ProcessStep, Step, Start, Type, Kill, OneCall, OpenFilterEngine, CloseNothing, CloseEngine

-----------------------------------------------------------------------------
(* Sessions and objects.                                                   *)

LEMMA HeldByOthers ==
  ASSUME NEW c \in Controllers, OthersKept(c)
  PROVE  \A d \in Controllers \ {c} : Held(d)' = Held(d)
  BY DEF OthersKept, Held

LEMMA SessionsNotSharedStep ==
  ASSUME IInv, NEW c \in Controllers, ProcessStep(c)
  PROVE  SessionsNotShared'
  <1>1. \A d \in Controllers \ {c} : Held(d)' = Held(d)
    BY StepKeepsOthers, HeldByOthers DEF IInv
  <1>2. Held(c)' \subseteq Held(c) \cup (Sessions \ Open)
    BY HandlesEffect
  <1>3. \A d \in Controllers : Held(d) \subseteq Open
    BY DEF Open
  <1> QED
    BY <1>1, <1>2, <1>3 DEF IInv, SessionsNotShared

LEMMA ObjectsStep ==
  ASSUME IInv, NEW c \in Controllers, ProcessStep(c)
  PROVE  /\ objects' \subseteq Objects \X Sessions
         /\ NothingOutlivesItsSession'
         /\ KeysUnique'
  <1> USE DEF IInv, TypeOK, NothingOutlivesItsSession, KeysUnique
  <1>1. CASE Deletes(c)
    BY <1>1 DEF Deletes, Keep
  <1>2. CASE Adds(c)
    <2>1. PICK o \in Objects :
             /\ UNCHANGED handles
             /\ engine[c] # None
             /\ o \in {FilterObject(k) : k \in Callouts} \/ ~Exists(o)
             /\ objects' = objects \cup {<<o, engine[c]>>}
      BY <1>2 DEF Adds
    <2>2. Open' = Open /\ engine[c] \in Open /\ engine[c] \in Sessions
      BY <2>1 DEF Open, Held, handles
    <2>3. NothingOutlivesItsSession' /\ objects' \subseteq Objects \X Sessions
      BY <2>1, <2>2
    <2>4. KeysUnique'
      <3>1. \A y \in objects : y = <<y[1], y[2]>> /\ y[2] \in Sessions
        OBVIOUS
      <3>2. o \notin {FilterObject(k) : k \in Callouts} => \A y \in objects : y[1] # o
        BY <2>1, <3>1 DEF Exists
      <3>3. \A y \in objects' : y \in objects \/ y = <<o, engine[c]>>
        BY <2>1
      <3>4. SUFFICES ASSUME NEW x \in objects', NEW y \in objects', x[1] = y[1],
                            x[1] \notin {FilterObject(k) : k \in Callouts}
                     PROVE  x = y
        OBVIOUS
      <3>5. CASE x \in objects /\ y \in objects
        BY <3>4, <3>5
      <3>6. CASE x = <<o, engine[c]>> \/ y = <<o, engine[c]>>
        BY <3>2, <3>3, <3>4, <3>6
      <3> QED
        BY <3>3, <3>5, <3>6
    <2> QED
      BY <2>3, <2>4
  <1>3. CASE UNCHANGED <<handles, objects>>
    BY <1>3 DEF handles, Open, Held
  <1> QED
    BY <1>1, <1>2, <1>3, ObjectsEffect

-----------------------------------------------------------------------------
(* The callouts.                                                           *)

\* A callout that stays tracked keeps its session, or has just been added.
LEMMA AddedEffect ==
  ASSUME IInv, NEW c \in Controllers, ProcessStep(c), NEW k \in added'[c]
  PROVE  \/ k \in added[c] /\ handle'[c][k] = handle[c][k]
         \/ <<CalloutObject(k), handle'[c][k]>> \in objects'
  <1> USE DEF IInv, TypeOK
  <1>1. CASE UNCHANGED <<handles, added>>
    BY <1>1 DEF handles
  <1>2. CASE Kill(c)
    BY <1>2 DEF Kill
  <1>3. CASE ReplaceCallout(c) \/ CloseCallouts(c) \/ DestroyCallout(c)
    BY <1>3, Orders DEF ReplaceCallout, CloseCallouts, DestroyCallout, Remove, RemoveThen, handles
  <1>4. CASE AddCallout(c)
    BY <1>4, Orders DEF AddCallout, BfeAdds, ProcessInv, handles
  <1>5. CASE OpenFilterEngine(c) \/ CloseEngine(c)
    BY <1>5 DEF OpenFilterEngine, CloseEngine, handles
  <1> QED
    BY <1>1, <1>2, <1>3, <1>4, <1>5
    DEF ProcessStep, Step, Start, Type, RegisterProvider, AddContext, AddSublayer, AddOne,
        AddFilter, CloseNothing

\* An object of a session that stays open is deleted only by the process that
\* tracks it.
LEMMA ObjectKept ==
  ASSUME IInv, NEW c \in Controllers, ProcessStep(c),
         NEW x \in objects, x[2] \in Open',
         \A k \in added[c] \ added'[c] : x # <<CalloutObject(k), handle[c][k]>>
  PROVE  x \in objects'
  <1>1. CASE Deletes(c)
    <2>1. PICK objs \in SUBSET objects :
             /\ objects' = Keep(objs, Open')
             /\ \A y \in objects \ objs :
                   \E k \in added[c] \ added'[c] : y[1] = CalloutObject(k)
      BY <1>1 DEF Deletes
    <2>2. \A k \in added[c] : x[1] = CalloutObject(k) => x = <<CalloutObject(k), handle[c][k]>>
      <3> SUFFICES ASSUME NEW k \in added[c], x[1] = CalloutObject(k)
                   PROVE  x = <<CalloutObject(k), handle[c][k]>>
        OBVIOUS
      <3> DEFINE z == <<CalloutObject(k), handle[c][k]>>
      <3>1. z \in objects /\ k \in Callouts
        BY DEF IInv, TypeOK, CalloutsTracked
      <3>2. z[1] = x[1] /\ x[1] \notin {FilterObject(l) : l \in Callouts}
        BY <3>1, ObjectKinds
      <3> QED
        BY <3>1, <3>2 DEF IInv, KeysUnique
    <2> QED
      BY <2>1, <2>2 DEF Keep
  <1>2. CASE Adds(c) \/ UNCHANGED <<handles, objects>>
    BY <1>2 DEF Adds
  <1> QED
    BY <1>1, <1>2, ObjectsEffect

LEMMA TrackedIsHeld ==
  ASSUME IInv
  PROVE  \A d \in Controllers : \A k \in added[d] :
           /\ k \in Callouts /\ <<CalloutObject(k), handle[d][k]>> \in objects
           /\ handle[d][k] \in Held(d)
  BY NoneIsNoSession DEF IInv, TypeOK, CalloutsTracked, Held

LEMMA CalloutsTrackedStep ==
  ASSUME IInv, NEW c \in Controllers, ProcessStep(c)
  PROVE  CalloutsTracked'
  <1>0. OthersKept(c) /\ \A d \in Controllers \ {c} : Held(d)' = Held(d)
    BY StepKeepsOthers, HeldByOthers DEF IInv
  <1>1. \A d \in Controllers : \A k \in added[d] :
           /\ k \in Callouts /\ <<CalloutObject(k), handle[d][k]>> \in objects
           /\ handle[d][k] \in Held(d)
    BY TrackedIsHeld
  <1>2. ASSUME NEW d \in Controllers \ {c}, NEW k \in added'[d]
        PROVE  <<CalloutObject(k), handle'[d][k]>> \in objects'
    <2> DEFINE x == <<CalloutObject(k), handle[d][k]>>
    <2>1. x \in objects /\ handle'[d][k] = handle[d][k] /\ x[2] \in Held(d) /\ x[2] \in Open'
      BY <1>0, <1>1, <1>2 DEF OthersKept, Open
    <2>2. \A l \in added[c] : x # <<CalloutObject(l), handle[c][l]>>
      BY <1>1, <2>1 DEF IInv, SessionsNotShared
    <2> QED
      BY <2>1, <2>2, ObjectKept
  <1>3. ASSUME NEW k \in added'[c]
        PROVE  <<CalloutObject(k), handle'[c][k]>> \in objects'
    <2>1. CASE k \in added[c] /\ handle'[c][k] = handle[c][k]
      <3> DEFINE x == <<CalloutObject(k), handle[c][k]>>
      <3>1. x \in objects /\ handle[c][k] # None /\ k \in Callouts
        BY <1>1, <2>1 DEF Held
      <3>2. x[2] \in Open'
        BY <2>1, <3>1 DEF Open, Held
      <3>3. \A l \in added[c] \ added'[c] : x # <<CalloutObject(l), handle[c][l]>>
        BY <1>1, <1>3, <3>1, ObjectKinds
      <3> QED
        BY <2>1, <3>1, <3>2, <3>3, ObjectKept
    <2> QED
      BY <1>3, <2>1, AddedEffect
  <1> QED
    BY <1>2, <1>3 DEF CalloutsTracked

-----------------------------------------------------------------------------
(* Control.                                                                *)

LEMMA GotoTypes ==
  ASSUME TypeOK, NEW c \in Controllers, NEW p \in Point, NEW i \in 1..4, Goto(c, p, i)
  PROVE  pc' \in [Controllers -> Point] /\ at' \in [Controllers -> 1..4]
  BY DEF TypeOK, Goto

Moves(c) == \E p \in Point : \E i \in 1..4 : Goto(c, p, i)

LEMMA PointTypes ==
  ASSUME IInv, NEW c \in Controllers, ProcessStep(c)
  PROVE  pc' \in [Controllers -> Point] /\ at' \in [Controllers -> 1..4]
  <1>0. TypeOK /\ at[c] \in 1..4
    BY DEF IInv, TypeOK
  <1> SUFFICES Moves(c)
    BY <1>0, GotoTypes DEF Moves
  <1>1. \A p \in Point : \A i \in 1..4 : Goto(c, p, i) => Moves(c)
    BY DEF Moves
  <1>2. Throw(c) => Moves(c)
    BY <1>1 DEF Throw, Point
  <1>3. ASSUME Done(c), pc[c] \in {"Open", "Provider", "Context", "Sublayer", "Add", "Filters"}
        PROVE  Moves(c)
    <2>1. AfterStep[pc[c]] \in Point /\ "Prompt" \in Point
      BY <1>3, AfterStepTypes DEF Point
    <2> QED
      BY <1>1, <1>3, <2>1 DEF Done
  <1>4. CASE Start(c) \/ Type(c) \/ Kill(c)
    BY <1>1, <1>4 DEF Start, Type, Kill, Point
  <1>5. CASE OpenFilterEngine(c)
    BY <1>2, <1>3, <1>5 DEF OpenFilterEngine
  <1>6. CASE OneCall(c)
    BY <1>2, <1>3, <1>6
    DEF OneCall, RegisterProvider, AddContext, AddSublayer, AddOne
  <1>7. CASE ReplaceCallout(c)
    BY <1>0, <1>1, <1>2, <1>7 DEF ReplaceCallout, Point
  <1>8. CASE AddCallout(c) \/ AddFilter(c)
    BY <1>0, <1>1, <1>2, <1>3, <1>8 DEF AddCallout, AddFilter, Point
  <1>9. CASE CloseNothing(c) \/ CloseCallouts(c) \/ CloseEngine(c) \/ DestroyCallout(c)
    BY <1>0, <1>1, <1>9
    DEF CloseNothing, CloseCallouts, CloseEngine, DestroyCallout, CloseReturns, Point
  <1> QED
    BY <1>4, <1>5, <1>6, <1>7, <1>8, <1>9 DEF ProcessStep, Step, OneCall

LEMMA CommandTypes ==
  ASSUME IInv, NEW c \in Controllers, ProcessStep(c)
  PROVE  command' \in [Controllers -> {"one", "all", "exit"}]
  <1>1. \/ command' = command
        \/ \E w \in {"one", "all", "exit"} : command' = [command EXCEPT ![c] = w]
    <2> USE DEF Done, Throw
    <2>1. CASE Start(c) \/ Type(c) \/ Kill(c)
      BY <2>1 DEF Start, Type, Kill
    <2>2. CASE OpenFilterEngine(c) \/ OneCall(c)
      BY <2>2 DEF OpenFilterEngine, OneCall, RegisterProvider, AddContext, AddSublayer, AddOne
    <2>3. CASE ReplaceCallout(c) \/ AddCallout(c) \/ AddFilter(c)
      BY <2>3 DEF ReplaceCallout, AddCallout, AddFilter
    <2>4. CASE CloseNothing(c) \/ CloseCallouts(c) \/ CloseEngine(c) \/ DestroyCallout(c)
      BY <2>4 DEF CloseNothing, CloseCallouts, CloseEngine, DestroyCallout, CloseReturns
    <2> QED
      BY <2>1, <2>2, <2>3, <2>4 DEF ProcessStep, Step, OneCall
  <1> QED
    BY <1>1 DEF IInv, TypeOK

LEMMA HandleTypes ==
  ASSUME IInv, NEW c \in Controllers, ProcessStep(c)
  PROVE  /\ engine' \in [Controllers -> Sessions \cup {None}]
         /\ handle' \in [Controllers -> [Callouts -> Sessions \cup {None}]]
         /\ added' \in [Controllers -> SUBSET Callouts]
  <1> USE DEF IInv, TypeOK, handles
  <1>1. CASE Start(c) \/ Type(c) \/ Kill(c)
    BY <1>1 DEF Start, Type, Kill
  <1>2. CASE OpenFilterEngine(c) \/ OneCall(c)
    BY <1>2 DEF OpenFilterEngine, OneCall, RegisterProvider, AddContext, AddSublayer, AddOne
  <1>3. ASSUME NEW k \in Callouts, NEW h \in Sessions \cup {None}, RemoveThen(c, k, h)
        PROVE  /\ engine' = engine
               /\ handle' \in [Controllers -> [Callouts -> Sessions \cup {None}]]
               /\ added' \in [Controllers -> SUBSET Callouts]
    BY <1>3 DEF RemoveThen
  <1>4. CASE ReplaceCallout(c) \/ CloseCallouts(c) \/ DestroyCallout(c)
    BY <1>3, <1>4, Orders DEF ReplaceCallout, CloseCallouts, DestroyCallout, Remove
  <1>5. CASE AddCallout(c) \/ AddFilter(c)
    <2>1. UNCHANGED handles
      BY <1>5 DEF AddCallout, AddFilter
    <2>2. AddOrder[at[c]] \in Callouts
      BY Orders
    <2>3. added' = added \/ added' = [added EXCEPT ![c] = @ \cup {AddOrder[at[c]]}]
      BY <1>5 DEF AddCallout, AddFilter
    <2> QED
      BY <2>1, <2>2, <2>3
  <1>6. CASE CloseNothing(c) \/ CloseEngine(c)
    BY <1>6 DEF CloseNothing, CloseEngine
  <1> QED
    BY <1>1, <1>2, <1>3, <1>4, <1>5, <1>6 DEF ProcessStep, Step, OneCall

\* The steps up to Close.
LEMMA CommandProcessInv ==
  ASSUME IInv, NEW c \in Controllers,
         Start(c) \/ Type(c) \/ Kill(c) \/ OpenFilterEngine(c) \/ OneCall(c)
  PROVE  ProcessInv(c)'
  <1> USE DEF IInv, TypeOK, ProcessInv, Empty, Goto, handles
  <1>1. CASE Start(c)
    BY <1>1 DEF Start
  <1>2. CASE Type(c)
    BY <1>2 DEF Type
  <1>3. CASE Kill(c)
    BY <1>3 DEF Kill
  <1>4. CASE OpenFilterEngine(c)
    BY <1>4, AfterStepTypes, NoneIsNoSession DEF OpenFilterEngine, Done, Throw
  <1>5. CASE OneCall(c)
    BY <1>5, AfterStepTypes
    DEF OneCall, RegisterProvider, AddContext, AddSublayer, AddOne, BfeAdds, Done, Throw
  <1> QED
    BY <1>1, <1>2, <1>3, <1>4, <1>5

LEMMA RemoveEffect ==
  ASSUME TypeOK, NEW c \in Controllers, NEW k \in Callouts, NEW h, RemoveThen(c, k, h)
  PROVE  /\ engine'[c] = engine[c]
         /\ handle'[c][k] = h
         /\ \A l \in Callouts \ {k} : handle'[c][l] = handle[c][l]
         /\ added'[c] = added[c] \ {k}
  BY DEF RemoveThen, TypeOK

LEMMA GotoEffect ==
  ASSUME TypeOK, NEW c \in Controllers, NEW p, NEW i, Goto(c, p, i)
  PROVE  pc'[c] = p /\ at'[c] = i
  BY DEF Goto, TypeOK

LEMMA CalloutProcessInv ==
  ASSUME IInv, NEW c \in Controllers, ReplaceCallout(c) \/ AddCallout(c) \/ AddFilter(c)
  PROVE  ProcessInv(c)'
  <1>0. TypeOK /\ ProcessInv(c) /\ at[c] \in 1..4
    BY DEF IInv, TypeOK
  <1>1. CASE pc[c] = "Replace" /\ engine[c] # None /\ ReplaceCallout(c)
    <2> DEFINE k == AddOrder[at[c]]
    <2>1. k \in Callouts
      BY <1>0, Orders
    <2>2. Goto(c, "Add", at[c]) /\ RemoveThen(c, k, engine[c]) /\ command' = command
      BY <1>1 DEF ReplaceCallout
    <2>3. pc'[c] = "Add" /\ at'[c] = at[c]
      BY <1>0, <2>2, GotoEffect
    <2>4. /\ engine'[c] = engine[c]
          /\ handle'[c][k] = engine[c]
          /\ \A l \in Callouts \ {k} : handle'[c][l] = handle[c][l]
          /\ added'[c] = added[c] \ {k}
      BY <1>0, <2>1, <2>2, RemoveEffect
    <2>5. command[c] # "exit"
      BY <1>0, <1>1 DEF ProcessInv
    <2>6. \A l \in Callouts : handle'[c][l] # None /\ l \notin added'[c] => l = k
      BY <1>0, <1>1, <2>4, <2>5 DEF ProcessInv
    <2> QED
      BY <1>1, <2>2, <2>3, <2>4, <2>5, <2>6 DEF ProcessInv
  <1>2. CASE Throw(c) /\ UNCHANGED <<handles, added>> /\ pc[c] \in {"Replace", "Add", "Filters"}
    <2>1. pc'[c] = "Close" /\ at'[c] = 1 /\ command'[c] = "exit"
      BY <1>0, <1>2 DEF Throw, Goto, TypeOK
    <2> QED
      BY <1>2, <2>1 DEF ProcessInv, handles
  <1> DEFINE Succeeds ==
         /\ pc[c] \in {"Add", "Filters"} /\ engine[c] # None
         /\ UNCHANGED <<handles, command>>
         /\ pc[c] = "Filters" => added' = added
         /\ pc[c] = "Add" => added' = [added EXCEPT ![c] = @ \cup {AddOrder[at[c]]}]
         /\ \/ Goto(c, "Replace", at[c] + 1) \/ Goto(c, "Filters", at[c] + 1)
            \/ Done(c)
  <1>3. ASSUME Succeeds
        PROVE  ProcessInv(c)'
    <2>1. Succeeds
      BY <1>3
    <2>2. pc'[c] \in {"Replace", "Filters", "Prompt"}
      <3>1. CASE Done(c)
        BY <1>0, <2>1, <3>1 DEF Done, Goto, TypeOK, AfterStep
      <3> QED
        BY <1>0, <2>1, <3>1, GotoEffect
    <2>3. command[c] # "exit" /\ command'[c] # "exit" /\ handle' = handle /\ engine' = engine
      BY <1>0, <2>1 DEF ProcessInv, handles
    <2>4. \A k \in Callouts : handle[c][k] # None => k \in added'[c]
      BY <1>0, <2>1, <2>3 DEF ProcessInv, TypeOK
    <2> QED
      BY <2>1, <2>2, <2>3, <2>4 DEF ProcessInv
  <1>4. CASE ReplaceCallout(c)
    BY <1>1, <1>2, <1>4 DEF ReplaceCallout
  <1>5. CASE AddCallout(c)
    <2>1. Succeeds \/ (Throw(c) /\ UNCHANGED <<handles, added>> /\ pc[c] = "Add")
      BY <1>5 DEF AddCallout, BfeAdds, Done
    <2> QED
      BY <1>2, <1>3, <2>1
  <1>6. CASE AddFilter(c)
    <2>1. Succeeds \/ (Throw(c) /\ UNCHANGED <<handles, added>> /\ pc[c] = "Filters")
      BY <1>6 DEF AddFilter, BfeAdds, Done
    <2> QED
      BY <1>2, <1>3, <2>1
  <1> QED
    BY <1>4, <1>5, <1>6

LEMMA CloseProcessInv ==
  ASSUME IInv, NEW c \in Controllers,
         CloseNothing(c) \/ CloseCallouts(c) \/ CloseEngine(c) \/ DestroyCallout(c)
  PROVE  ProcessInv(c)'
  <1> USE DEF Empty
  <1>0. TypeOK /\ ProcessInv(c) /\ at[c] \in 1..4
    BY DEF IInv, TypeOK
  <1>1. CASE CloseNothing(c)
    <2>1. pc[c] = "Close" /\ engine[c] = None /\ UNCHANGED <<handles, added, command>>
      BY <1>1 DEF CloseNothing, CloseReturns
    <2>2. /\ pc'[c] = (IF command[c] = "exit" THEN "Destroy" ELSE "Prompt") /\ at'[c] = 1
      BY <1>0, <1>1, GotoEffect DEF CloseNothing, CloseReturns
    <2> QED
      BY <1>0, <2>1, <2>2 DEF ProcessInv, handles
  <1>2. CASE CloseCallouts(c)
    <2> DEFINE k == FilterOrder[at[c]]
               h == IF Removes(c, k) THEN None ELSE handle[c][k]
    <2>1. pc[c] = "Close" /\ engine[c] # None /\ RemoveThen(c, k, h) /\ command' = command
      BY <1>2 DEF CloseCallouts, Remove
    <2>2. k \in Callouts
      BY <1>0, Orders
    <2>3. /\ at[c] < 4 => pc'[c] = "Close" /\ at'[c] = at[c] + 1
          /\ ~(at[c] < 4) => pc'[c] = "CloseEngine" /\ at'[c] = 1
      BY <1>0, <1>2, GotoEffect DEF CloseCallouts
    <2>4. /\ engine'[c] = engine[c]
          /\ handle'[c][k] = h
          /\ \A l \in Callouts \ {k} : handle'[c][l] = handle[c][l]
          /\ added'[c] = added[c] \ {k}
      <3> HIDE DEF k, h
      <3> QED BY <1>0, <2>1, <2>2, RemoveEffect
    <2>5. ASSUME command[c] # "exit"
          PROVE  /\ handle'[c][k] = None
                 /\ \A l \in Callouts : handle'[c][l] # None => l \in added'[c]
      <3>1. \A l \in Callouts : handle[c][l] # None => l \in added[c]
        BY <1>0, <2>1, <2>5 DEF ProcessInv
      <3>2. handle'[c][k] = None
        BY <2>2, <2>4, <3>1 DEF Removes
      <3> HIDE DEF k, h
      <3> QED
        BY <2>4, <3>1, <3>2
    <2>6. ASSUME command[c] # "exit"
          PROVE  \A i \in 1..4 : i <= at[c] => handle'[c][FilterOrder[i]] = None
      <3>1. \A i \in 1..4 : i < at[c] => handle[c][FilterOrder[i]] = None
        BY <1>0, <2>1, <2>6 DEF ProcessInv
      <3> QED
        BY <1>0, <2>4, <2>5, <2>6, <3>1, Orders
    <2>7. ASSUME command[c] # "exit", ~(at[c] < 4)
          PROVE  \A l \in Callouts : handle'[c][l] = None
      BY <1>0, <2>6, <2>7, Orders
    <2>8. command[c] # "exit" /\ at[c] < 4 =>
             \A i \in 1..4 : i < at'[c] => handle'[c][FilterOrder[i]] = None
      BY <1>0, <2>3, <2>6
    <2> HIDE DEF k, h
    <2> QED
      BY <1>0, <2>1, <2>3, <2>4, <2>5, <2>7, <2>8 DEF ProcessInv
  <1>3. CASE CloseEngine(c)
    <2>1. pc[c] = "CloseEngine" /\ UNCHANGED <<handle, added, command>> /\ engine'[c] = None
      BY <1>0, <1>3 DEF CloseEngine, CloseReturns, TypeOK
    <2>2. /\ pc'[c] = (IF command[c] = "exit" THEN "Destroy" ELSE "Prompt") /\ at'[c] = 1
      BY <1>0, <1>3, GotoEffect DEF CloseEngine, CloseReturns
    <2> QED
      BY <1>0, <2>1, <2>2 DEF ProcessInv
  <1>4. CASE DestroyCallout(c)
    <2> DEFINE k == DestroyOrder[at[c]]
    <2>1. pc[c] = "Destroy" /\ RemoveThen(c, k, None) /\ command' = command /\ k \in Callouts
      BY <1>0, <1>4, Orders DEF DestroyCallout
    <2>2. /\ at[c] < 4 => pc'[c] = "Destroy" /\ at'[c] = at[c] + 1
          /\ ~(at[c] < 4) => pc'[c] = "Gone" /\ at'[c] = 1
      BY <1>0, <1>4, GotoEffect DEF DestroyCallout
    <2>3. /\ engine'[c] = engine[c]
          /\ handle'[c][k] = None
          /\ \A l \in Callouts \ {k} : handle'[c][l] = handle[c][l]
      BY <1>0, <2>1, RemoveEffect
    <2>4. \A i \in 1..4 : i <= at[c] => handle'[c][DestroyOrder[i]] = None
      BY <1>0, <2>1, <2>3, Orders DEF ProcessInv
    <2>5. ~(at[c] < 4) => \A l \in Callouts : handle'[c][l] = None
      BY <1>0, <2>4, Orders
    <2>6. at[c] < 4 => \A i \in 1..4 : i < at'[c] => handle'[c][DestroyOrder[i]] = None
      BY <1>0, <2>2, <2>4
    <2>7. command[c] = "exit" /\ engine[c] = None
      BY <1>0, <2>1 DEF ProcessInv
    <2> HIDE DEF k
    <2> QED
      BY <2>1, <2>2, <2>3, <2>5, <2>6, <2>7 DEF ProcessInv
  <1> QED
    BY <1>1, <1>2, <1>3, <1>4

LEMMA IInvStep ==
  ASSUME IInv, [Next]_vars
  PROVE  IInv'
  <1>1. ASSUME NEW c \in Controllers, ProcessStep(c)
        PROVE  IInv'
    <2>1. ProcessInv(c)'
      BY <1>1, CommandProcessInv, CalloutProcessInv, CloseProcessInv
      DEF ProcessStep, Step, OneCall
    <2>2. \A d \in Controllers \ {c} : ProcessInv(d)'
      BY <1>1, StepKeepsOthers DEF OthersKept, IInv, ProcessInv, Empty
    <2> QED
      BY <1>1, <2>1, <2>2, PointTypes, CommandTypes, HandleTypes, ObjectsStep, SessionsNotSharedStep,
         CalloutsTrackedStep DEF IInv, TypeOK
  <1>2. CASE UNCHANGED vars
    <2>1. /\ pc' = pc /\ at' = at /\ command' = command /\ engine' = engine
          /\ handle' = handle /\ added' = added /\ objects' = objects
      BY <1>2 DEF vars, process, handles
    <2>2. TypeOK' /\ \A c \in Controllers : ProcessInv(c)'
      BY <2>1 DEF IInv, TypeOK, ProcessInv, Empty
    <2>3. KeysUnique' /\ CalloutsTracked'
      BY <2>1 DEF IInv, KeysUnique, CalloutsTracked
    <2>4. Open' = Open /\ \A c \in Controllers : Held(c)' = Held(c)
      BY <2>1 DEF Open, Held
    <2>5. SessionsNotShared' /\ NothingOutlivesItsSession'
      BY <2>1, <2>4 DEF IInv, SessionsNotShared, NothingOutlivesItsSession
    <2> QED
      BY <2>2, <2>3, <2>5 DEF IInv
  <1> QED
    BY <1>1, <1>2 DEF Next, ProcessStep

LEMMA Invariance == Spec => []IInv
  BY InitIInv, IInvStep, PTL DEF Spec

\* Every variable keeps its type.
THEOREM TypesHold == Spec => []TypeOK
  <1>1. IInv => TypeOK
    BY DEF IInv
  <1> QED
    BY <1>1, Invariance, PTL

\* Close and exit end filtering: without a session of its own engine, a process
\* at the prompt or gone holds none by a Callout either.
THEOREM CloseEnds == Spec => []CloseEndsFiltering
  <1>1. IInv => CloseEndsFiltering
    BY DEF IInv, ProcessInv, Empty, Held, CloseEndsFiltering
  <1> QED
    BY <1>1, Invariance, PTL

\* BFE keeps no object of a session that nobody holds.
THEOREM NothingOutlives == Spec => []NothingOutlivesItsSession
  <1>1. IInv => NothingOutlivesItsSession
    BY DEF IInv
  <1> QED
    BY <1>1, Invariance, PTL

\* A Callout with an id is an object that was added through its own session.
THEOREM CalloutsAreTracked == Spec => []CalloutsTracked
  <1>1. IInv => CalloutsTracked
    BY DEF IInv
  <1> QED
    BY <1>1, Invariance, PTL

-----------------------------------------------------------------------------
(* One process and another.                                                *)

\* A process that acts moves.
LEMMA ActsMove ==
  ASSUME IInv, NEW c \in Controllers, ProcessStep(c)
  PROVE  ~(pc'[c] = pc[c] /\ at'[c] = at[c] /\ command'[c] = command[c])
  <1>0. TypeOK /\ at[c] \in 1..4
    BY DEF IInv, TypeOK
  <1>1. \A p, i : Goto(c, p, i) => pc'[c] = p /\ at'[c] = i
    BY <1>0, GotoEffect
  <1>2. Throw(c) => pc'[c] = "Close"
    BY <1>1 DEF Throw
  <1>3. ASSUME Done(c), pc[c] \in {"Open", "Provider", "Context", "Sublayer", "Add", "Filters"}
        PROVE  pc'[c] # pc[c]
    BY <1>1, <1>3, AfterStepTypes DEF Done
  <1>4. CASE Start(c) \/ Type(c) \/ Kill(c)
    BY <1>1, <1>4 DEF Start, Type, Kill
  <1>5. CASE OpenFilterEngine(c)
    BY <1>2, <1>3, <1>5 DEF OpenFilterEngine
  <1>6. CASE OneCall(c)
    BY <1>2, <1>3, <1>6 DEF OneCall, RegisterProvider, AddContext, AddSublayer, AddOne
  <1>7. CASE ReplaceCallout(c)
    BY <1>1, <1>2, <1>7 DEF ReplaceCallout
  <1>8. CASE AddCallout(c) \/ AddFilter(c)
    BY <1>0, <1>1, <1>2, <1>3, <1>8 DEF AddCallout, AddFilter
  <1>9. CASE CloseNothing(c) \/ CloseCallouts(c) \/ CloseEngine(c) \/ DestroyCallout(c)
    BY <1>0, <1>1, <1>9 DEF CloseNothing, CloseCallouts, CloseEngine, DestroyCallout, CloseReturns
  <1> QED
    BY <1>4, <1>5, <1>6, <1>7, <1>8, <1>9 DEF ProcessStep, Step, OneCall

\* What one process does leaves the objects of another alone.
LEMMA ObjectsOfOthers ==
  ASSUME IInv, NEW c \in Controllers, ProcessStep(c), NEW d \in Controllers \ {c},
         NEW x \in objects, x[2] \in Held(d)
  PROVE  x \in objects'
  <1>1. Held(d)' = Held(d)
    BY StepKeepsOthers, HeldByOthers DEF IInv
  <1>2. x[2] \in Open'
    BY <1>1 DEF Open
  <1>3. \A k \in added[c] : handle[c][k] \in Held(c) /\ k \in Callouts
    BY TrackedIsHeld
  <1>4. \A k \in added[c] : x # <<CalloutObject(k), handle[c][k]>>
    BY <1>3 DEF IInv, SessionsNotShared
  <1> QED
    BY <1>2, <1>4, ObjectKept

\* Whatever one process does, what is added for the sessions another holds stays.
THEOREM OthersAreUntouched == Spec => OthersUntouched
  <1> DEFINE Untouched ==
         \A c \in Controllers :
            (UNCHANGED <<pc[c], at[c], command[c]>>) =>
                \A x \in objects : x[2] \in Held(c) => x \in objects'
  <1>1. ASSUME IInv, [Next]_vars
        PROVE  [Untouched]_vars
    <2>1. ASSUME NEW c \in Controllers, ProcessStep(c)
          PROVE  Untouched
      <3>1. ~(UNCHANGED <<pc[c], at[c], command[c]>>)
        BY <1>1, <2>1, ActsMove
      <3>2. \A d \in Controllers \ {c} :
               \A x \in objects : x[2] \in Held(d) => x \in objects'
        BY <1>1, <2>1, ObjectsOfOthers
      <3> QED
        BY <3>1, <3>2
    <2>2. Next => Untouched
      <3> HIDE DEF Untouched
      <3> QED
        BY <2>1 DEF Next, ProcessStep
    <2> QED
      BY <1>1, <2>2
  <1> QED
    BY <1>1, Invariance, PTL DEF Spec, OthersUntouched

-----------------------------------------------------------------------------
(* "all".                                                                  *)

\* A successful step of "all" installs what the next point asks for.
LEMMA InstalledNext ==
  ASSUME IInv, AllInv, NEW c \in Controllers, ProcessStep(c), command'[c] = "all",
         NEW o \in Objects, Installed(c, o)'
  PROVE  engine'[c] = engine[c] /\ (Installed(c, o) \/ <<o, engine[c]>> \in objects')
  <1>0. TypeOK /\ ProcessInv(c) /\ at[c] \in 1..4
    BY DEF IInv, TypeOK
  <1>1. \A p, i : Goto(c, p, i) => pc'[c] = p /\ at'[c] = i
    BY <1>0, GotoEffect
  <1>2. ~Throw(c)
    BY <1>0 DEF Throw, TypeOK
  <1>3. pc'[c] \notin {"Open", "Provider", "Gone", "Close", "CloseEngine", "Destroy"}
    BY DEF Installed
  <1>4. Done(c) => command[c] = "all" /\ pc'[c] = AfterStep[pc[c]]
    BY <1>1 DEF Done
  <1>5. CASE OneCall(c)
    <2> DEFINE Call(p, x) == pc[c] = p /\ objects' = objects \cup {<<x, engine[c]>>}
    <2>1. UNCHANGED handles /\ Done(c)
      BY <1>2, <1>5 DEF OneCall, RegisterProvider, AddContext, AddSublayer, AddOne
    <2>2. Call("Provider", Provider) \/ Call("Context", Context) \/ Call("Sublayer", Sublayer)
      BY <1>2, <1>5
      DEF OneCall, RegisterProvider, AddContext, AddSublayer, AddOne, BfeAdds
    <2>3. /\ pc[c] = "Provider" => pc'[c] = "Context"
          /\ pc[c] = "Context" => pc'[c] = "Sublayer"
          /\ pc[c] = "Sublayer" => pc'[c] = "Replace" /\ at'[c] = 1
      BY <1>1, <1>4, <2>1 DEF Done, AfterStep
    <2> QED
      BY <2>1, <2>2, <2>3 DEF Installed, handles
  <1>6. CASE ReplaceCallout(c)
    <2>1. pc[c] = "Replace" /\ engine'[c] = engine[c] /\ pc'[c] = "Add" /\ at'[c] = at[c]
      BY <1>1, <1>2, <1>6 DEF ReplaceCallout, RemoveThen
    <2> QED
      BY <2>1 DEF Installed
  <1>7. CASE AddCallout(c)
    <2>1. /\ pc[c] = "Add" /\ UNCHANGED handles
          /\ <<CalloutObject(AddOrder[at[c]]), engine[c]>> \in objects'
          /\ at[c] < 4 => pc'[c] = "Replace" /\ at'[c] = at[c] + 1
          /\ ~(at[c] < 4) => Done(c)
      BY <1>1, <1>2, <1>7 DEF AddCallout, BfeAdds
    <2>2. Done(c) => pc'[c] = "Filters" /\ at'[c] = 1
      BY <1>1, <1>4, <2>1 DEF AfterStep, Done
    <2>3. \A i \in 1..4 : (i < at[c] + 1 \/ ~(at[c] < 4)) => i < at[c] \/ i = at[c]
      BY <1>0
    <2> QED
      BY <1>0, <2>1, <2>2, <2>3 DEF Installed, handles
  <1>8. CASE AddFilter(c)
    <2>1. /\ pc[c] = "Filters" /\ UNCHANGED handles
          /\ <<FilterObject(FilterOrder[at[c]]), engine[c]>> \in objects'
          /\ at[c] < 4 => pc'[c] = "Filters" /\ at'[c] = at[c] + 1
          /\ ~(at[c] < 4) => Done(c)
      BY <1>1, <1>2, <1>8 DEF AddFilter, BfeAdds
    <2>2. Done(c) => pc'[c] = "Prompt"
      BY <1>4, <2>1 DEF AfterStep
    <2>3. \A i \in 1..4 : (i < at[c] + 1 \/ ~(at[c] < 4)) => i < at[c] \/ i = at[c]
      BY <1>0
    <2> QED
      BY <1>0, <2>1, <2>2, <2>3 DEF Installed, handles
  <1>9. ASSUME Start(c) \/ Type(c) \/ Kill(c) \/ OpenFilterEngine(c)
        PROVE  FALSE
    <2>1. CASE Start(c) \/ Type(c)
      BY <1>0, <1>1, <1>3, <2>1 DEF Start, Type, TypeOK
    <2>2. CASE Kill(c)
      BY <1>1, <1>3, <2>2 DEF Kill
    <2>3. CASE OpenFilterEngine(c)
      BY <1>2, <1>3, <1>4, <2>3 DEF OpenFilterEngine, AfterStep
    <2> QED
      BY <1>9, <2>1, <2>2, <2>3
  <1>10. ASSUME CloseNothing(c) \/ CloseCallouts(c) \/ CloseEngine(c) \/ DestroyCallout(c)
         PROVE  FALSE
    BY <1>10
    DEF CloseNothing, CloseCallouts, CloseEngine, DestroyCallout, CloseReturns, AllInv
  <1> QED
    BY <1>5, <1>6, <1>7, <1>8, <1>9, <1>10 DEF ProcessStep, Step, OneCall

\* "all" goes on from point to point with a session.
LEMMA AllMoves ==
  ASSUME IInv, AllInv, NEW c \in Controllers, ProcessStep(c), command'[c] = "all"
  PROVE  /\ pc'[c] \notin {"Close", "CloseEngine", "Destroy"}
         /\ pc'[c] \notin {"Open", "Gone"} => engine'[c] # None
         /\ pc'[c] \notin {"Open", "Gone"} => command[c] = "all"
  <1>0. TypeOK /\ ProcessInv(c) /\ at[c] \in 1..4
    BY DEF IInv, TypeOK
  <1>1. \A p, i : Goto(c, p, i) => pc'[c] = p /\ at'[c] = i
    BY <1>0, GotoEffect
  <1>2. ~Throw(c)
    BY <1>0 DEF Throw, TypeOK
  <1>3. Done(c) => command[c] = "all" /\ pc'[c] = AfterStep[pc[c]]
    BY <1>1 DEF Done
  <1>4. CASE Start(c)
    BY <1>0, <1>4 DEF Start, TypeOK
  <1>5. CASE Type(c)
    <2>1. pc[c] = "Prompt" /\ \/ command' = [command EXCEPT ![c] = "one"]
                              \/ Goto(c, "Open", 1)
                              \/ command' = [command EXCEPT ![c] = "exit"]
      BY <1>5 DEF Type
    <2> QED
      BY <1>0, <1>1, <2>1 DEF TypeOK
  <1>6. CASE Kill(c)
    BY <1>1, <1>6 DEF Kill
  <1>7. CASE OpenFilterEngine(c)
    BY <1>0, <1>2, <1>3, <1>7, NoneIsNoSession, AfterStepTypes DEF OpenFilterEngine, TypeOK
  <1>8. CASE OneCall(c)
    BY <1>2, <1>3, <1>8, AfterStepTypes
    DEF OneCall, RegisterProvider, AddContext, AddSublayer, AddOne, BfeAdds, handles
  <1>9. CASE ReplaceCallout(c)
    BY <1>1, <1>2, <1>9 DEF ReplaceCallout, RemoveThen
  <1>10. CASE AddCallout(c) \/ AddFilter(c)
    <2>1. /\ engine[c] # None /\ UNCHANGED handles
          /\ \/ command' = command /\ pc'[c] \in {"Replace", "Filters"}
             \/ Done(c) /\ pc[c] \in {"Add", "Filters"}
      BY <1>1, <1>2, <1>10 DEF AddCallout, AddFilter, BfeAdds
    <2> QED
      BY <1>3, <2>1, AfterStepTypes DEF handles
  <1>11. ASSUME CloseNothing(c) \/ CloseCallouts(c) \/ CloseEngine(c) \/ DestroyCallout(c)
         PROVE  FALSE
    BY <1>11
    DEF CloseNothing, CloseCallouts, CloseEngine, DestroyCallout, CloseReturns, AllInv
  <1> QED
    BY <1>4, <1>5, <1>6, <1>7, <1>8, <1>9, <1>10, <1>11 DEF ProcessStep, Step, OneCall

\* What "all" has installed stays; only a Callout it comes to is replaced.
LEMMA InstalledStays ==
  ASSUME IInv, AllInv, NEW c \in Controllers, ProcessStep(c), command'[c] = "all",
         NEW o \in Objects, Installed(c, o)', Installed(c, o), command[c] = "all"
  PROVE  <<o, engine[c]>> \in objects'
  <1>0. TypeOK /\ at[c] \in 1..4
    BY DEF IInv, TypeOK
  <1>1. /\ <<o, engine[c]>> \in objects /\ engine'[c] = engine[c] /\ engine[c] # None
        /\ pc[c] \in {"Context", "Sublayer", "Replace", "Add", "Filters", "Prompt"}
    BY InstalledNext DEF AllInv, Installed
  <1>2. engine[c] \in Open'
    BY <1>1 DEF Open, Held
  <1>3. \A k \in added[c] \ added'[c] : k \in Callouts /\ o # CalloutObject(k)
    <2>1. CASE ReplaceCallout(c)
      <3>1. \A k \in added[c] \ added'[c] : k = AddOrder[at[c]]
        BY <1>0, <2>1 DEF ReplaceCallout, RemoveThen, TypeOK
      <3>2. pc[c] = "Replace" /\ o # CalloutObject(AddOrder[at[c]])
        <4>1. pc[c] = "Replace"
          BY <2>1 DEF ReplaceCallout
        <4>2. /\ \A i \in 1..4 : CalloutObject(AddOrder[i]) # Provider
              /\ \A i \in 1..4 : CalloutObject(AddOrder[i]) \notin {Context, Sublayer}
              /\ \A i \in 1..4 : CalloutObject(AddOrder[i]) = CalloutObject(AddOrder[at[c]])
                                    => i = at[c]
          BY <1>0, Orders, ObjectKinds
        <4> QED
          BY <1>0, <4>1, <4>2 DEF Installed
      <3> QED
        BY <1>0, <3>1, <3>2, Orders
    <2>2. CASE Kill(c)
      BY <1>0, <2>2 DEF Kill, Goto, TypeOK, Installed
    <2>3. CASE AddCallout(c)
      BY <1>0, <2>3 DEF AddCallout, TypeOK
    <2>4. CASE UNCHANGED added
      BY <2>4
    <2> QED
      BY <1>1, <2>1, <2>2, <2>3, <2>4
      DEF ProcessStep, Step, Start, Type, OpenFilterEngine, RegisterProvider, AddContext,
          AddSublayer, AddOne, AddFilter, CloseNothing, CloseCallouts, CloseEngine,
          DestroyCallout
  <1> QED
    <2> DEFINE x == <<o, engine[c]>>
    <2>1. x \in objects /\ x[2] \in Open'
      BY <1>1, <1>2
    <2>2. \A k \in added[c] \ added'[c] : x # <<CalloutObject(k), handle[c][k]>>
      BY <1>3
    <2> QED
      BY <2>1, <2>2, ObjectKept

LEMMA AllInvStep ==
  ASSUME IInv, AllInv, [Next]_vars
  PROVE  AllInv'
  <1>1. ASSUME NEW c \in Controllers, ProcessStep(c)
        PROVE  AllInv'
    <2>1. ASSUME NEW d \in Controllers \ {c}, command'[d] = "all"
          PROVE  /\ pc'[d] \notin {"Close", "CloseEngine", "Destroy"}
                 /\ pc'[d] \notin {"Open", "Gone"} => engine'[d] # None
                 /\ \A o \in Objects : Installed(d, o)' => <<o, engine'[d]>> \in objects'
      <3>1. OthersKept(c)
        BY <1>1, StepKeepsOthers DEF IInv
      <3>2. /\ pc'[d] = pc[d] /\ at'[d] = at[d] /\ command'[d] = command[d]
            /\ engine'[d] = engine[d]
        BY <3>1 DEF OthersKept
      <3>3. \A o \in Objects : Installed(d, o)' = Installed(d, o)
        BY <3>2 DEF Installed
      <3>4. ASSUME NEW o \in Objects, Installed(d, o)'
            PROVE  <<o, engine[d]>> \in objects'
        <4> DEFINE x == <<o, engine[d]>>
        <4>1. Installed(d, o)
          BY <3>3, <3>4
        <4>2. x \in objects /\ engine[d] # None
          BY <2>1, <3>2, <4>1 DEF AllInv, Installed
        <4>3. x[2] \in Held(d)
          BY <4>2 DEF Held
        <4> QED
          BY <1>1, <4>2, <4>3, ObjectsOfOthers
      <3> QED
        BY <2>1, <3>2, <3>4 DEF AllInv
    <2>2. ASSUME command'[c] = "all"
          PROVE  /\ pc'[c] \notin {"Close", "CloseEngine", "Destroy"}
                 /\ pc'[c] \notin {"Open", "Gone"} => engine'[c] # None
      BY <1>1, <2>2, AllMoves
    <2>3. ASSUME command'[c] = "all", NEW o \in Objects, Installed(c, o)'
          PROVE  <<o, engine'[c]>> \in objects'
      <3>1. engine'[c] = engine[c] /\ (Installed(c, o) \/ <<o, engine[c]>> \in objects')
        BY <1>1, <2>3, InstalledNext
      <3>2. command[c] = "all"
        BY <1>1, <2>3, AllMoves DEF Installed
      <3> QED
        BY <1>1, <2>3, <3>1, <3>2, InstalledStays
    <2> QED
      BY <2>1, <2>2, <2>3 DEF AllInv
  <1>2. CASE UNCHANGED vars
    BY <1>2 DEF vars, process, handles, AllInv, Installed
  <1> QED
    BY <1>1, <1>2 DEF Next, ProcessStep

\* "all" never comes back to the prompt with a part of what it installs.
THEOREM AllOrNothing == Spec => []AllOrExit
  <1>1. Init => AllInv
    BY DEF Init, AllInv
  <1>2. IInv /\ AllInv => AllOrExit
    <2> SUFFICES ASSUME IInv, AllInv, NEW c \in Controllers, pc[c] = "Prompt",
                        command[c] = "all", NEW o \in Objects
                 PROVE  Installed(c, o)
      BY DEF AllOrExit, AllInv
    <2>1. CASE o \in {Provider, Context, Sublayer}
      BY <2>1 DEF Installed
    <2>2. CASE \E k \in Callouts : o = CalloutObject(k) \/ o = FilterObject(k)
      BY <2>2, Orders DEF Installed
    <2> QED
      BY <2>1, <2>2 DEF Objects
  <1> QED
    BY <1>1, <1>2, Invariance, AllInvStep, PTL DEF Spec

-----------------------------------------------------------------------------
(* WFPController implements FilterEngine: the refinement mapping.          *)

\* The process that holds a session is its owner, and a session nobody holds
\* has none.
OwnerIsHolder ==
    \A s \in Sessions :
        /\ \A c \in Controllers : SessionOwner[s] = c <=> s \in Held(c)
        /\ SessionOwner[s] = None <=> s \notin Open

LEMMA OwnerHolds == TypeOK /\ SessionsNotShared => OwnerIsHolder
  <1> SUFFICES ASSUME TypeOK, SessionsNotShared, NEW s \in Sessions
               PROVE  /\ \A c \in Controllers : SessionOwner[s] = c <=> s \in Held(c)
                      /\ SessionOwner[s] = None <=> s \notin Open
    BY DEF OwnerIsHolder
  <1>1. CASE s \in Open
    <2> DEFINE holder == CHOOSE c \in Controllers : s \in Held(c)
    <2>1. holder \in Controllers /\ s \in Held(holder)
      BY <1>1 DEF Open
    <2>2. SessionOwner[s] = holder
      BY <1>1 DEF SessionOwner
    <2>3. \A c \in Controllers : s \in Held(c) => c = holder
      BY <2>1 DEF SessionsNotShared
    <2> QED
      BY <1>1, <2>1, <2>2, <2>3, NoneIsNoSession
  <1>2. CASE s \notin Open
    BY <1>2, NoneIsNoSession DEF SessionOwner, Open
  <1> QED
    BY <1>1, <1>2

LEMMA OwnerHoldsNext == (TypeOK /\ SessionsNotShared)' => OwnerIsHolder'
  BY OwnerHolds, PTL

-----------------------------------------------------------------------------
(* What a step does to the owners.                                         *)

Opened(c) == Held(c)' \ Held(c)
Closed(c) == Held(c) \ Held(c)'

LEMMA OwnersStep ==
  ASSUME IInv, IInv', NEW c \in Controllers, ProcessStep(c)
  PROVE  Engine!OpenAndClose(c, Opened(c), Closed(c))
  <1>1. \A d \in Controllers \ {c} : Held(d)' = Held(d)
    BY StepKeepsOthers, HeldByOthers DEF IInv
  <1>2. Opened(c) \subseteq Sessions \ Open
    BY HandlesEffect DEF Opened
  <1>3. OwnerIsHolder /\ OwnerIsHolder'
    BY OwnerHolds, OwnerHoldsNext DEF IInv
  <1>4. Closed(c) \subseteq Sessions
    BY DEF Closed, Held, IInv, TypeOK
  <1>5. \A s \in Opened(c) : SessionOwner[s] = None
    BY <1>2, <1>3 DEF OwnerIsHolder
  <1>6. \A s \in Closed(c) : SessionOwner[s] = c
    BY <1>3, <1>4 DEF OwnerIsHolder, Closed
  <1>7. ASSUME NEW s \in Sessions
        PROVE  SessionOwner'[s] = IF s \in Opened(c) THEN c
                                  ELSE IF s \in Closed(c) THEN None ELSE SessionOwner[s]
    <2>1. CASE s \in Held(c)'
      <3>1. SessionOwner'[s] = c
        BY <1>3, <2>1 DEF OwnerIsHolder
      <3>2. s \notin Opened(c) => SessionOwner[s] = c
        BY <1>3, <2>1 DEF OwnerIsHolder, Opened
      <3> QED
        BY <3>1, <3>2, <2>1 DEF Closed
    <2>2. CASE s \notin Held(c)' /\ s \in Held(c)
      <3>1. s \notin Open'
        <4>1. \A d \in Controllers \ {c} : s \notin Held(d)
          BY <2>2 DEF IInv, SessionsNotShared
        <4> QED
          BY <4>1, <1>1, <2>2 DEF Open
      <3> QED
        BY <3>1, <2>2, <1>3 DEF OwnerIsHolder, Opened, Closed
    <2>3. CASE s \notin Held(c)' /\ s \notin Held(c)
      <3>1. CASE s \in Open
        <4>1. PICK d \in Controllers : s \in Held(d)
          BY <3>1 DEF Open
        <4>2. s \in Held(d)'
          BY <4>1, <1>1, <2>3
        <4> QED
          BY <4>1, <4>2, <2>3, <1>3 DEF OwnerIsHolder, Opened, Closed
      <3>2. CASE s \notin Open
        <4>1. s \notin Open'
          BY <3>2, <1>1, <2>3 DEF Open
        <4> QED
          BY <4>1, <3>2, <2>3, <1>3 DEF OwnerIsHolder, Opened, Closed
      <3> QED
        BY <3>1, <3>2
    <2> QED
      BY <2>1, <2>2, <2>3
  <1> QED
    BY <1>5, <1>6, <1>7 DEF Engine!OpenAndClose, SessionOwner

\* BFE drops the objects of the sessions that are closed.
LEMMA KeepDrops ==
  ASSUME IInv, NEW c \in Controllers, ProcessStep(c), NEW objs \in SUBSET objects
  PROVE  Keep(objs, Open') = {x \in objs : x[2] \notin Closed(c)}
  <1>1. \A d \in Controllers \ {c} : Held(d)' = Held(d)
    BY StepKeepsOthers, HeldByOthers DEF IInv
  <1>2. ASSUME NEW x \in objs PROVE x[2] \in Open' <=> x[2] \notin Closed(c)
    <2>1. x[2] \in Open
      BY DEF IInv, NothingOutlivesItsSession
    <2>2. x[2] \in Open' <=> \E d \in Controllers : x[2] \in Held(d)'
      BY DEF Open
    <2>3. PICK d \in Controllers : x[2] \in Held(d)
      BY <2>1 DEF Open
    <2>4. \A e \in Controllers : x[2] \in Held(e) => e = d
      BY <2>3 DEF IInv, SessionsNotShared
    <2> QED
      BY <1>1, <2>2, <2>3, <2>4 DEF Closed
  <1> QED
    BY <1>2 DEF Keep

-----------------------------------------------------------------------------
(* What a step does to the objects.                                        *)

\* Each object of BFE is one of Objects with a session, and so exists.
LEMMA ObjectsArePairs ==
  ASSUME TypeOK, NEW x \in objects
  PROVE  /\ x[1] \in Objects /\ x[2] \in Sessions /\ x = <<x[1], x[2]>>
         /\ \A o : x[1] = o => Exists(o)
  <1>1. /\ x[1] \in Objects /\ x[2] \in Sessions /\ x = <<x[1], x[2]>>
    BY DEF TypeOK
  <1>2. ASSUME NEW o, x[1] = o PROVE Exists(o)
    <2>1. <<o, x[2]>> \in objects
      BY <1>1, <1>2
    <2> QED
      BY <1>1, <2>1 DEF Exists
  <1> QED
    BY <1>1, <1>2

\* The same names on both sides.
LEMMA SameObjects ==
  /\ Objects = Engine!EngineObjects
  /\ {FilterObject(k) : k \in Callouts} = Engine!Filters
  BY DEF Objects, Engine!EngineObjects, Callouts, Engine!CalloutNames, Engine!Filters,
     FilterObject, CalloutObject, Engine!FilterOf, Engine!CalloutOf, Provider, Context,
     Sublayer, Engine!ProviderObject, Engine!ContextObject, Engine!SublayerObject

LEMMA Referring ==
  /\ Engine!Refers(Provider) = {}
  /\ Engine!Refers(Context) = {Provider}
  /\ Engine!Refers(Sublayer) = {Provider}
  /\ \A k \in Callouts :
        /\ Engine!Refers(CalloutObject(k)) = {Provider}
        /\ Engine!Refers(FilterObject(k)) = {Provider, Context, Sublayer, CalloutObject(k)}
  <1>1. \A k \in Callouts :
            CalloutObject(k) \notin Engine!Filters /\ FilterObject(k) \in Engine!Filters
    BY DEF Engine!Filters, Callouts, Engine!CalloutNames, Engine!FilterOf, FilterObject,
           CalloutObject
  <1>2. {Provider, Context, Sublayer} \cap Engine!Filters = {}
    BY DEF Engine!Filters, Engine!FilterOf, Provider, Context, Sublayer
  <1>3. /\ Context # Provider /\ Sublayer # Provider
        /\ \A k \in Callouts : CalloutObject(k) # Provider /\ FilterObject(k) # Provider
    BY DEF Provider, Context, Sublayer, CalloutObject, FilterObject
  <1>4. /\ Provider = Engine!ProviderObject /\ Context = Engine!ContextObject
        /\ Sublayer = Engine!SublayerObject
        /\ \A k \in Callouts : Engine!CalloutOf(FilterObject(k)[2]) = CalloutObject(k)
    BY DEF Provider, Context, Sublayer, Engine!ProviderObject, Engine!ContextObject,
       Engine!SublayerObject, CalloutObject, FilterObject, Engine!CalloutOf
  <1> QED
    BY <1>1, <1>2, <1>3, <1>4 DEF Engine!Refers

\* An object is added, and what it refers to is there.
AddsReferring(c) ==
    \E o \in Objects :
        /\ UNCHANGED handles
        /\ engine[c] # None
        /\ o \in {FilterObject(k) : k \in Callouts} \/ ~Exists(o)
        /\ \A r \in Engine!Refers(o) : <<r, engine[c]>> \in objects
        /\ objects' = objects \cup {<<o, engine[c]>>}

LEMMA BfeAddsReferring ==
  ASSUME NEW c \in Controllers, NEW o \in Objects, NEW refs, BfeAdds(c, o, refs),
         refs = Engine!Refers(o), UNCHANGED handles
  PROVE  AddsReferring(c)
  BY DEF BfeAdds, AddsReferring

\* Callouts of the process that no filter refers to are deleted, and sessions are
\* closed.
DeletesOwn(c) ==
    \E objs \in SUBSET objects :
        /\ objects' = Keep(objs, Open')
        /\ \A x \in objects \ objs :
              /\ x[2] \in Held(c)
              /\ \E k \in Callouts : x[1] = CalloutObject(k) /\ ~Exists(FilterObject(k))
    
LEMMA RemoveDeletesOwn ==
  ASSUME IInv, NEW c \in Controllers, NEW k \in Callouts, NEW h, RemoveThen(c, k, h)
  PROVE  DeletesOwn(c)
  <1>1. PICK objs \in IF Removes(c, k) THEN Deleted(k) ELSE {objects} :
           objects' = Keep(objs, Open')
    BY DEF RemoveThen
  <1>2. CASE objs = objects
    BY <1>1, <1>2 DEF DeletesOwn
  <1>3. CASE objs # objects
    <2>1. /\ Removes(c, k) /\ ~Exists(FilterObject(k))
          /\ objs = {x \in objects : x[1] # CalloutObject(k)}
      BY <1>1, <1>3 DEF Deleted
    <2>2. <<CalloutObject(k), handle[c][k]>> \in objects /\ handle[c][k] \in Held(c)
      BY <2>1 DEF Removes, IInv, CalloutsTracked, Held
    <2>3. CalloutObject(k) \notin {FilterObject(l) : l \in Callouts}
      BY ObjectKinds
    <2>4. \A x \in objects \ objs : x = <<CalloutObject(k), handle[c][k]>>
      BY <2>1, <2>2, <2>3 DEF IInv, KeysUnique
    <2> QED
      BY <1>1, <2>1, <2>2, <2>4 DEF DeletesOwn
  <1> QED
    BY <1>2, <1>3

LEMMA EngineEffect ==
  ASSUME IInv, NEW c \in Controllers, ProcessStep(c)
  PROVE  \/ DeletesOwn(c) /\ Opened(c) = {}
         \/ objects' = Keep(objects, Open') /\ \E s \in Sessions : Opened(c) = {s}
         \/ AddsReferring(c)
         \/ UNCHANGED <<handles, objects>>
  <1> USE DEF IInv, TypeOK
  <1>1. CASE OneCall(c)
    <2>1. ASSUME NEW p, NEW o \in Objects, NEW refs, AddOne(c, p, o, refs),
                 refs = Engine!Refers(o)
          PROVE  AddsReferring(c) \/ UNCHANGED <<handles, objects>>
      BY <2>1, BfeAddsReferring DEF AddOne
    <2>2. CASE RegisterProvider(c)
      BY <2>1, <2>2, Referring, ObjectKinds DEF RegisterProvider
    <2>3. CASE AddContext(c)
      BY <2>1, <2>3, Referring, ObjectKinds DEF AddContext
    <2>4. CASE AddSublayer(c)
      BY <2>1, <2>4, Referring, ObjectKinds DEF AddSublayer
    <2> QED
      BY <1>1, <2>2, <2>3, <2>4 DEF OneCall
  <1>2. CASE AddCallout(c) \/ AddFilter(c)
    <2>1. AddOrder[at[c]] \in Callouts /\ FilterOrder[at[c]] \in Callouts
      BY Orders
    <2>2. ASSUME NEW k \in Callouts, BfeAdds(c, CalloutObject(k), {Provider}),
                 UNCHANGED handles
          PROVE  AddsReferring(c)
      BY <2>2, Referring, ObjectKinds, BfeAddsReferring
    <2>3. ASSUME NEW k \in Callouts, UNCHANGED handles,
                 BfeAdds(c, FilterObject(k), {Provider, Context, Sublayer, CalloutObject(k)})
          PROVE  AddsReferring(c)
      BY <2>3, Referring, ObjectKinds, BfeAddsReferring
    <2>4. CASE AddCallout(c)
      BY <2>1, <2>2, <2>4 DEF AddCallout
    <2>5. CASE AddFilter(c)
      BY <2>1, <2>3, <2>5 DEF AddFilter
    <2> QED
      BY <1>2, <2>4, <2>5
  <1>3. CASE CloseCallouts(c) \/ DestroyCallout(c)
    <2>1. DeletesOwn(c)
      BY <1>3, Orders, RemoveDeletesOwn DEF CloseCallouts, DestroyCallout, Remove
    <2>2. Opened(c) = {}
      BY <1>3, Orders DEF CloseCallouts, DestroyCallout, Remove, RemoveThen, Opened, Held
    <2> QED
      BY <2>1, <2>2
  <1>4. CASE ReplaceCallout(c)
    <2>1. CASE engine[c] # None
      <3>1. DeletesOwn(c)
        BY <1>4, <2>1, Orders, RemoveDeletesOwn DEF ReplaceCallout
      <3>2. Opened(c) = {}
        BY <1>4, <2>1, Orders DEF ReplaceCallout, RemoveThen, Opened, Held
      <3> QED
        BY <3>1, <3>2
    <2>2. CASE engine[c] = None
      BY <1>4, <2>2 DEF ReplaceCallout
    <2> QED
      BY <2>1, <2>2
  <1>5. CASE CloseEngine(c) \/ Kill(c)
    <2>1. DeletesOwn(c)
      BY <1>5 DEF CloseEngine, Kill, DeletesOwn
    <2>2. Opened(c) = {}
      BY <1>5 DEF CloseEngine, Kill, Opened, Held
    <2> QED
      BY <2>1, <2>2
  <1>6. CASE OpenFilterEngine(c)
    <2>1. ASSUME NEW s \in Sessions \ Open, engine' = [engine EXCEPT ![c] = s],
                 UNCHANGED handle
          PROVE  Opened(c) = {s}
      <3>1. engine'[c] = s /\ s # None /\ s \notin Held(c)
        BY <2>1, NoneIsNoSession DEF Open
      <3> QED
        BY <2>1, <3>1 DEF Opened, Held
    <2> QED
      BY <1>6, <2>1 DEF OpenFilterEngine
  <1> QED
    BY <1>1, <1>2, <1>3, <1>4, <1>5, <1>6
    DEF ProcessStep, Step, Start, Type, OneCall, CloseNothing

-----------------------------------------------------------------------------
(* Every step of a process is a step of the engine.                        *)

LEMMA StepImplements ==
  ASSUME IInv, IInv', NEW c \in Controllers, ProcessStep(c)
  PROVE  Engine!Next \/ UNCHANGED <<SessionOwner, objects>>
  <1>1. Engine!OpenAndClose(c, Opened(c), Closed(c))
    BY OwnersStep
  <1>2. OwnerIsHolder
    BY OwnerHolds DEF IInv
  <1>3. Held(c) \subseteq Sessions /\ Closed(c) \subseteq Sessions
    BY DEF Held, Closed, IInv, TypeOK
  <1>4. Engine!Owned(c) = Held(c)
    BY <1>2, <1>3 DEF Engine!Owned, OwnerIsHolder
  <1>5. CASE DeletesOwn(c) /\ Opened(c) = {}
    <2>1. PICK objs \in SUBSET objects :
             /\ objects' = Keep(objs, Open')
             /\ \A x \in objects \ objs :
                   /\ x[2] \in Held(c)
                   /\ \E k \in Callouts : x[1] = CalloutObject(k) /\ ~Exists(FilterObject(k))
      BY <1>5 DEF DeletesOwn
    <2> DEFINE gone == objects \ objs
    <2>2. objects' = {x \in objects \ gone : x[2] \notin Closed(c)}
      BY <2>1, KeepDrops
    <2>3. ASSUME NEW k \in Callouts, ~Exists(FilterObject(k)), NEW y \in objects
          PROVE  y[1] # Engine!FilterOf(k)
      <3>1. y[1] # FilterObject(k)
        BY <2>3, ObjectsArePairs DEF IInv
      <3> QED
        BY <3>1 DEF FilterObject, Engine!FilterOf
    <2>4. \A x \in gone :
             /\ x[2] \in Engine!Owned(c)
             /\ \E k \in Engine!CalloutNames :
                   x[1] = Engine!CalloutOf(k) /\ \A y \in objects : y[1] # Engine!FilterOf(k)
      BY <2>1, <2>3, <1>4 DEF Engine!CalloutNames, Callouts, Engine!CalloutOf, CalloutObject
    <2>5. gone \in SUBSET Engine!Deletable(c)
      BY <2>4 DEF Engine!Deletable
    <2>6. Engine!Remove(c)
      BY <1>1, <1>3, <1>5, <2>2, <2>5 DEF Engine!Remove
    <2> QED
      BY <2>6 DEF Engine!Next
  <1>6. CASE objects' = Keep(objects, Open') /\ \E s \in Sessions : Opened(c) = {s}
    <2>1. objects' = {x \in objects : x[2] \notin Closed(c)}
      BY <1>6, KeepDrops
    <2>2. Engine!Open(c)
      BY <1>1, <1>3, <1>6, <2>1 DEF Engine!Open
    <2> QED
      BY <2>2 DEF Engine!Next
  <1>7. ASSUME UNCHANGED handles
        PROVE  UNCHANGED SessionOwner
    <2>1. \A d \in Controllers : Held(d)' = Held(d)
      BY <1>7 DEF handles, Held
    <2>2. Open' = Open
      BY <2>1 DEF Open
    <2> QED
      BY <2>1, <2>2, <1>7 DEF SessionOwner, handles, Held
  <1>8. CASE AddsReferring(c)
    <2>1. PICK o \in Objects :
             /\ UNCHANGED handles
             /\ engine[c] # None
             /\ o \in {FilterObject(k) : k \in Callouts} \/ ~Exists(o)
             /\ \A r \in Engine!Refers(o) : <<r, engine[c]>> \in objects
             /\ objects' = objects \cup {<<o, engine[c]>>}
      BY <1>8 DEF AddsReferring
    <2>2. engine[c] \in Engine!Owned(c)
      BY <1>4, <2>1 DEF Held
    <2>3. o \in Engine!Filters \/ \A x \in objects : x[1] # o
      BY <2>1, SameObjects, ObjectsArePairs DEF IInv
    <2>4. Engine!Add(c)
      BY <1>7, <2>1, <2>2, <2>3, SameObjects DEF Engine!Add
    <2> QED
      BY <2>4 DEF Engine!Next
  <1>9. CASE UNCHANGED <<handles, objects>>
    BY <1>7, <1>9
  <1> QED
    BY <1>5, <1>6, <1>8, <1>9, EngineEffect

\* What any number of controllers do to the Base Filtering Engine, exceptions and
\* crashes included, is what FilterEngine allows.
THEOREM EngineImplemented == Spec => ImplementsFilterEngine
  <1>1. Init => Engine!Init
    <2> SUFFICES ASSUME Init PROVE Engine!Init
      OBVIOUS
    <2>1. \A c \in Controllers : Held(c) = {}
      BY DEF Init, Held
    <2>2. Open = {}
      BY <2>1 DEF Open
    <2> QED
      BY <2>2 DEF Init, Engine!Init, SessionOwner
  <1>2. IInv /\ IInv' /\ [Next]_vars => [Engine!Next]_<<SessionOwner, objects>>
    <2> SUFFICES ASSUME IInv, IInv', [Next]_vars
                 PROVE  Engine!Next \/ UNCHANGED <<SessionOwner, objects>>
      OBVIOUS
    <2>1. ASSUME NEW c \in Controllers, ProcessStep(c)
          PROVE  Engine!Next \/ UNCHANGED <<SessionOwner, objects>>
      BY <2>1, StepImplements
    <2>2. CASE UNCHANGED vars
      BY <2>2 DEF vars, handles, SessionOwner, Open, Held
    <2> QED
      BY <2>1, <2>2 DEF Next, ProcessStep
  <1> QED
    BY <1>1, <1>2, Invariance, PTL
    DEF Spec, ImplementsFilterEngine, Engine!Spec, Engine!engineVars

-----------------------------------------------------------------------------
(* One controller at a time.                                               *)

\* Everything that is added refers to the provider, which exists once.
ProviderThere == \A x \in objects : <<Provider, x[2]>> \in objects

LEMMA ProviderStep ==
  ASSUME IInv, ProviderThere, NEW c \in Controllers, ProcessStep(c)
  PROVE  ProviderThere'
  <1> USE DEF IInv, TypeOK, ProviderThere
  <1>1. ASSUME NEW objs \in SUBSET objects, objects' = Keep(objs, Open'),
               \A x \in objects \ objs : \E k \in Callouts : x[1] = CalloutObject(k)
        PROVE  ProviderThere'
    <2>1. ASSUME NEW x \in objects PROVE <<Provider, x[2]>> \in objs
      <3>1. \A y \in objects \ objs : y[1] # Provider
        BY <1>1, ObjectKinds
      <3>2. <<Provider, x[2]>> \in objects /\ <<Provider, x[2]>>[1] = Provider
        OBVIOUS
      <3> QED
        BY <3>1, <3>2
    <2> QED
      BY <1>1, <2>1 DEF Keep
  <1>2. CASE DeletesOwn(c)
    BY <1>1, <1>2 DEF DeletesOwn
  <1>3. CASE objects' = Keep(objects, Open')
    BY <1>1, <1>3
  <1>4. CASE AddsReferring(c)
    <2>1. PICK o \in Objects :
             /\ \A r \in Engine!Refers(o) : <<r, engine[c]>> \in objects
             /\ objects' = objects \cup {<<o, engine[c]>>}
      BY <1>4 DEF AddsReferring
    <2>2. o = Provider \/ Provider \in Engine!Refers(o)
      BY Referring DEF Objects
    <2> QED
      BY <2>1, <2>2
  <1>5. CASE UNCHANGED <<handles, objects>>
    BY <1>5
  <1> QED
    BY <1>2, <1>3, <1>4, <1>5, EngineEffect

\* However many controllers run, the filtering is that of one of them.
THEOREM OneFilters == Spec => []OneControllerFilters
  <1>1. Init => ProviderThere
    BY DEF Init, ProviderThere
  <1>2. IInv /\ ProviderThere /\ [Next]_vars => ProviderThere'
    <2>1. CASE UNCHANGED vars
      BY <2>1 DEF vars, ProviderThere
    <2> QED
      BY <2>1, ProviderStep DEF Next, ProcessStep
  <1>3. IInv /\ ProviderThere => OneControllerFilters
    <2> SUFFICES ASSUME IInv, ProviderThere, NEW x \in objects, NEW y \in objects
                 PROVE  x[2] = y[2]
      BY DEF OneControllerFilters
    <2>1. <<Provider, x[2]>> \in objects /\ <<Provider, y[2]>> \in objects
      BY DEF ProviderThere
    <2>2. Provider \notin {FilterObject(k) : k \in Callouts}
      BY DEF Provider, FilterObject
    <2>3. <<Provider, x[2]>> = <<Provider, y[2]>>
      BY <2>1, <2>2 DEF IInv, KeysUnique
    <2> QED
      BY <2>3
  <1> QED
    BY <1>1, <1>2, <1>3, Invariance, PTL DEF Spec
=============================================================================
