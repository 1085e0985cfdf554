---------------------------- MODULE MCShareMount ----------------------------
(* Small instances of ShareMount for TLC.                                  *)
EXTENDS ShareMount, TLC

CONSTANTS l1, l2, l3, p1, p2

\* The last launch runs another package whose directory has the same name.
TwoPackages == [l \in Launch |-> IF l = l3 THEN p2 ELSE p1]

\* Three launches of one package.
OnePackage == [l \in Launch |-> p1]

\* Launches of one package are interchangeable.
SamePackage == Permutations({l1, l2})
=============================================================================
