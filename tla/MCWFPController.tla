-------------------------- MODULE MCWFPController --------------------------
(* Instances of WFPController for TLC.                                     *)
EXTENDS WFPController, TLC

\* Processes are interchangeable, and so are sessions.
Symmetry == Permutations(Controllers) \cup Permutations(Sessions)
=============================================================================
