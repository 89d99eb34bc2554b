----------------------------- MODULE MCPagedList -----------------------------
(* Small instances of PagedList. *)
EXTENDS PagedList, TLC

Symmetry == Permutations(Filters)
=============================================================================
