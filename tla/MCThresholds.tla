---------------------------- MODULE MCThresholds ----------------------------
(* Small instances of Thresholds. *)
EXTENDS Thresholds, TLC

Symmetry == Permutations(Requests) \cup Permutations(Admins)
=============================================================================
