----------------------------- MODULE MCSessions -----------------------------
(* TLC instances of Sessions. *)
EXTENDS Sessions, TLC

CONSTANTS c1, c2, p1, p2

\* Lists of up to two entries: forged addresses, proxies of ours, garbage.
Entry == {c1, c2, p1, None}
Forgeries == {<<>>} \cup {<<a>> : a \in Entry} \cup {<<a, b>> : a, b \in Entry}
\* Direct, through the bundled nginx, through an outer proxy and nginx.
Routes == {<<>>, <<p1>>, <<p2, p1>>}
Symmetry == Permutations(Request) \cup Permutations(Client)
=============================================================================
