------------------------------ MODULE MCRegistry ------------------------------
(***************************************************************************)
(* Instances of Registry for TLC.                                          *)
(***************************************************************************)
EXTENDS Registry, TLC

CONSTANT TheCode

\* The passports are successive ones of a single service.
OneCode == [s \in Services |-> TheCode]

Symmetry == Permutations(Services) \cup Permutations(Evidences) \cup Permutations(Calls)
===============================================================================
