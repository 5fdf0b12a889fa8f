---------------------------- MODULE MCSupervisor ----------------------------
(* Supervisor for TLC, with the thresholds of the code.                    *)
EXTENDS Supervisor

CodeThresholds == <<3, 6>>

=============================================================================
