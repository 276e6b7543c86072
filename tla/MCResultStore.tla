---------------------------- MODULE MCResultStore ----------------------------
(* A small instance of ResultStore: three runs of one kind, one of them     *)
(* with a sidecar, and two flat outputs that may collide.                   *)
EXTENDS ResultStore, TLC

CONSTANTS p1, p2, a1, a2, a3, old, c1, c2, s1, s2

MCProcs == {p1, p2}
MCRuns == {a1, a2, a3, old}
MCKindOf == (a1 :> "a") @@ (a2 :> "a") @@ (a3 :> "a") @@ (old :> "legacy")
MCDestOf == (s1 :> old) @@ (s2 :> old)
Symmetry == Permutations(MCProcs) \cup Permutations({c1, c2}) \cup Permutations({a2, a3})
=============================================================================
