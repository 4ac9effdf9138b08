------------------------------ MODULE MCClient ------------------------------
(***************************************************************************)
(* The page with its bounds.  Calls of send have no identity of their own, *)
(* and the wallet's accounts are alike.                                    *)
(***************************************************************************)
EXTENDS Client

Symmetry == Permutations(Sends) \cup Permutations(Accounts)
=============================================================================
