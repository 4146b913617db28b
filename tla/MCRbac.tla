-------------------------------- MODULE MCRbac --------------------------------
(***************************************************************************)
(* Instances of Rbac for TLC.                                              *)
(***************************************************************************)
EXTENDS Rbac, TLC

Symmetry == Permutations(Instances) \cup Permutations(Keys) \cup Permutations(Calls)
===============================================================================
