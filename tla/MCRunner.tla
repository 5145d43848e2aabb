------------------------------ MODULE MCRunner ------------------------------
(* TLC instances of Runner. *)
EXTENDS Runner, TLC

CONSTANTS j1, j2, j3, aa, bb

\* The ids of j1 and j3 begin alike; all titles differ.
Tags == (j1 :> aa) @@ (j2 :> bb) @@ (j3 :> aa)
OwnSlugs == (j1 :> 1) @@ (j2 :> 2) @@ (j3 :> 3)

\* j1 finds its first choice taken.
Taken == {<<1, aa>>}

\* Any kind of run beside a download ("edit" has the plan of "convert" and
\* "image" that of "download", but for the names).
SomeKinds ==
  (j1 :> {"download", "convert", "size", "embed", "trace"})
    @@ (j2 :> {"download"}) @@ (j3 :> {"download"})
=============================================================================
