---------------------------- MODULE PassThrough -----------------------------
(***************************************************************************)
(* What a filter module promises about one direction of its datapath: a    *)
(* packet that enters is admitted or refused, once; an admitted packet     *)
(* goes to the far neighbour and comes back through the filter, a refused  *)
(* one goes straight home; nothing is lost, duplicated or handed to the    *)
(* wrong side.  When admission is checked, a packet is admitted only while *)
(* the module runs and refused only while it does not; otherwise nothing   *)
(* is ever refused.                                                        *)
(***************************************************************************)
CONSTANTS
    Packets,    \* the packets of this direction
    Checked     \* is the state of the module looked at on admission?

VARIABLES
    at,         \* at[p]: where packet p is
    running     \* is the module in the running state?

vars == <<at, running>>

Stage == {"Home", "Entered", "Admitted", "Refused", "Away", "Leaving"}

TypeOK ==
    /\ at \in [Packets -> Stage]
    /\ running \in BOOLEAN

Init ==
    /\ at = [p \in Packets |-> "Home"]
    /\ running = FALSE

\* The packets c go from one stage to the next, together.
Move(c, from, to) ==
    /\ \A p \in c : at[p] = from
    /\ at' = [p \in Packets |-> IF p \in c THEN to ELSE at[p]]
    /\ UNCHANGED running

Receive(c) == Move(c, "Home", "Entered")

Admit(c) ==
    /\ Checked => running
    /\ Move(c, "Entered", "Admitted")

Refuse(c) ==
    /\ Checked /\ ~running
    /\ Move(c, "Entered", "Refused")

Forward(c) == Move(c, "Admitted", "Away")

Bounce(c) == Move(c, "Refused", "Home")

TakeBack(c) == Move(c, "Away", "Leaving")

Deliver(c) == Move(c, "Leaving", "Home")

StartOrStop ==
    /\ running' \in BOOLEAN
    /\ UNCHANGED at

Next ==
    \/ StartOrStop
    \/ \E c \in SUBSET Packets :
          \/ Receive(c) \/ Admit(c) \/ Refuse(c) \/ Forward(c)
          \/ Bounce(c) \/ TakeBack(c) \/ Deliver(c)

Spec == Init /\ [][Next]_vars
=============================================================================
