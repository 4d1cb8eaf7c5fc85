-------------------------- MODULE MCCalloutDriver --------------------------
(* Instances of CalloutDriver for TLC.                                     *)
EXTENDS CalloutDriver, TLC

\* Calls, ports and processes are interchangeable.
Symmetry == Permutations(Calls) \cup Permutations(Ports) \cup Permutations(Processes)
=============================================================================
