--------------------------- MODULE MCPackageCache ---------------------------
(* Small instances of PackageCache for TLC.                                *)
EXTENDS PackageCache, TLC

CONSTANTS l1, l2, l3, p1, p2, b1, b2

\* Two launches of p1 and one of p2.
Runs == [l \in Runner |-> IF l = l3 THEN p2 ELSE p1]

\* The packages share b1.
Carries == [p \in Pkg |-> IF p = p1 THEN {b1} ELSE {b1, b2}]
\* Launches of one package are interchangeable.
SameRuns == Permutations({l1, l2})
=============================================================================
