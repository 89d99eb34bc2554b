--------------------------- MODULE MCSamplingJobs ---------------------------
(* Small instances of SamplingJobs for TLC. *)
EXTENDS SamplingJobs

CONSTANTS s1, s2, j1, j2

\* j1 samples both servers, j2 only the first: they compete for s1.
BothAndFirst == [j \in {j1, j2} |-> IF j = j1 THEN {s1, s2} ELSE {s1}]

\* Every job samples all servers.
All == [j \in Jobs |-> Servers]

ConnSymmetry == Permutations(Conns)
=============================================================================
