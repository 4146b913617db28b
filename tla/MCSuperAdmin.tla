----------------------------- MODULE MCSuperAdmin -----------------------------
(***************************************************************************)
(* Instances of SuperAdmin for TLC.                                        *)
(***************************************************************************)
EXTENDS SuperAdmin, TLC

CONSTANT TheEmail

\* Every Google account has the one invited address.
OneEmail == [u \in Users |-> TheEmail]

Symmetry ==
  Permutations(Users) \cup Permutations(People) \cup Permutations(Wizards)
    \cup Permutations(Tokens) \cup Permutations(Secrets) \cup Permutations(Codes)
    \cup Permutations(Calls)
===============================================================================
