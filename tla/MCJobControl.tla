---------------------------- MODULE MCJobControl ----------------------------
(* Small instances of JobControl for TLC. *)
EXTENDS JobControl, TLC

\* The cron expressions by name: c1 and c2 fire for ever, f ends.
CONSTANTS c1, c2, f

\* Administrators are alike, and so are beans.
Symmetry == Permutations(Admins) \cup Permutations(Beans)
=============================================================================
