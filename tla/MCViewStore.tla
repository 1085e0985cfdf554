------------------------------ MODULE MCViewStore ------------------------------
(* Small instances of ViewStore for TLC.                                    *)
EXTENDS ViewStore, TLC

CONSTANTS l1, l2, l3, g1, v1, v2

\* Two launches of v1, and one of v2 when it is there.
Runs == [l \in Launch |-> IF l = l3 THEN v2 ELSE v1]
================================================================================
