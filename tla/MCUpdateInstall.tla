---------------------------- MODULE MCUpdateInstall ----------------------------
(* Small instances of UpdateInstall for TLC.                               *)
EXTENDS UpdateInstall

CONSTANTS r1, r2, r3

\* The releases in their order.
Numbers == [r \in Release |-> CASE r = r1 -> 1 [] r = r2 -> 2 [] r = r3 -> 3]
=============================================================================
