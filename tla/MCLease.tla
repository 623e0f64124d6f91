------------------------------ MODULE MCLease -------------------------------
(***************************************************************************)
(* The whole system around one build input: every handler and every worker *)
(* step, two workers that must sign up, and a clock with a deadline.       *)
(***************************************************************************)
EXTENDS RebuilderdProperties, TLC

CONSTANTS i1, s1, c1

MCSourceOf  == i1 :> s1
MCScopeOf   == i1 :> c1
MCFriendKey == i1 :> "url"
MCSupports  == [w \in Workers |-> Inputs]

Symmetry == Permutations(Workers)
=============================================================================
