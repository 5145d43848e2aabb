----------------------------- MODULE MCJobFeed ------------------------------
(* Model-checking instances of JobFeed: adds a symmetry set, nothing else.   *)
EXTENDS JobFeed, TLC

Symmetry == Permutations(Job)
=============================================================================
