----------------------------- MODULE MCJobQueue -----------------------------
(* Model-checking instances of JobQueue: adds a symmetry set, nothing else.  *)
EXTENDS JobQueueProps, TLC

\* Jobs are told apart only by Expiring, Deleting and Flaky, which the instances
\* that use the symmetry make all or nothing.
Symmetry == Permutations(Job) \union Permutations(Worker)
=============================================================================
