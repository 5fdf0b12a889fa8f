--------------------------- MODULE MCLifecycle ----------------------------
(* Lifecycle for TLC: two devices and two pids.                            *)
EXTENDS Lifecycle, TLC

CONSTANTS d1, d2, p1, p2

\* Devices are interchangeable, and so are pids.
LifecycleSymmetry == Permutations(Device) \cup Permutations(Pid)

=============================================================================
