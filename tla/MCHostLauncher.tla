--------------------------- MODULE MCHostLauncher ---------------------------
(* Instances of HostLauncher for TLC. *)
EXTENDS HostLauncher, TLC

(* Devices and pids are interchangeable: launch.c only compares them. *)
Symmetry == Permutations(Paths) \cup Permutations(Pids)
=============================================================================
