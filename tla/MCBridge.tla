------------------------------ MODULE MCBridge ------------------------------
(* Bridge for TLC: two uids, each posted by an app of its own.             *)
EXTENDS Bridge, TLC

CONSTANTS u1, u2, a1, a2

Apps2 == (u1 :> a1) @@ (u2 :> a2)

\* u1 has two texts, or neither uid is modified.
Texts2 == (u1 :> 2) @@ (u2 :> 1)
Texts1 == (u1 :> 1) @@ (u2 :> 1)

=============================================================================
