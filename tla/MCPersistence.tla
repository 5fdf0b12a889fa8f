--------------------------- MODULE MCPersistence ---------------------------
(* Persistence for TLC: two devices, whose rule files sort before the      *)
(* shared one.                                                             *)
EXTENDS Persistence, TLC

CONSTANTS d1, d2, role

Order == d1 :> 1 @@ d2 :> 2 @@ role :> 3

=============================================================================
