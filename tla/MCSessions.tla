------------------------------ MODULE MCSessions ------------------------------
(***************************************************************************)
(* Instances of Sessions for TLC: all of its sets are interchangeable.      *)
(***************************************************************************)
EXTENDS Sessions, TLC

Symmetry == Permutations(Users) \cup Permutations(Sessions) \cup Permutations(Calls)
===============================================================================
