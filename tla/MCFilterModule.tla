--------------------------- MODULE MCFilterModule ---------------------------
(* Instances of FilterModule for TLC.                                      *)
EXTENDS FilterModule, TLC

\* Packets of one direction and call slots are interchangeable.
Symmetry == Permutations(Calls) \cup Permutations(SendNBLs) \cup Permutations(RcvNBLs)
=============================================================================
