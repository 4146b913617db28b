-------------------------------- MODULE MCGov --------------------------------
(***************************************************************************)
(* Instances of Gov for TLC.  Officers and workers are interchangeable;    *)
(* applications are not, their services differ.                            *)
(***************************************************************************)
EXTENDS Gov, TLC

Symmetry == Permutations(Officers) \cup Permutations(Workers)
==============================================================================
