------------------------------- MODULE MCRelay -------------------------------
(***************************************************************************)
(* Instances of Relay for TLC.  Platforms, clients and workers are         *)
(* interchangeable, so runs without liveness use them as symmetry sets.    *)
(***************************************************************************)
EXTENDS Relay, TLC

Symmetry == Permutations(Platforms) \cup Permutations(Clients) \cup Permutations(Workers)
==============================================================================
