-------------------------------- MODULE MCOidc --------------------------------
(***************************************************************************)
(* Instances of Oidc for TLC.  Everything but the clients and the scopes   *)
(* is interchangeable.                                                     *)
(***************************************************************************)
EXTENDS Oidc, TLC

Symmetry ==
  UNION {Permutations(S) : S \in {Users, Challenges, Browsers, Codes, Pairs, Requests}}
==============================================================================
