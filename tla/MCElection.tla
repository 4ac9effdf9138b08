----------------------------- MODULE MCElection -----------------------------
(* Instances of Election.                                                  *)
EXTENDS Election, TLC

CONSTANTS a, b, c

MCOrder == [h \in Hosts |-> CASE h = a -> 1 [] h = b -> 2 [] OTHER -> 3]
=============================================================================
