------------------------------ MODULE MCJobPage ------------------------------
(* Small instances of JobPage. *)
EXTENDS JobPage
=============================================================================
