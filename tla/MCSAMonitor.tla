---------------------------- MODULE MCSAMonitor ----------------------------
(* Small instances of SAMonitor for TLC. *)
EXTENDS SAMonitor, TLC

Symmetry == Permutations(Thread)
=============================================================================
