-------------------------- MODULE MCSessionEngine --------------------------
(* SessionEngine for TLC: two uids, each posted by an app of its own, and  *)
(* a modification of the first.                                            *)
EXTENDS SessionEngine, TLC

CONSTANTS u1, u2, a1, a2

Apps2 == (u1 :> a1) @@ (u2 :> a2)
Texts2 == (u1 :> 2) @@ (u2 :> 1)

=============================================================================
