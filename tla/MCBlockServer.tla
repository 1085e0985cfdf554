---------------------------- MODULE MCBlockServer ----------------------------
(* A small instance of BlockServer for TLC.                                  *)
EXTENDS BlockServer

CONSTANTS e1, e2, w1, w2

\* An entry of two blocks, the last of them shorter, and one of a single block.
Lengths == [e \in {e1, e2} |-> IF e = e1 THEN 2 ELSE 1]
Sizes == [b \in Block |-> IF b[2] = 2 THEN 2 ELSE 3]

\* The profile goes back and forth between them.
Startup == <<<<e1, 1>>, <<e2, 1>>, <<e1, 2>>>>
=============================================================================
