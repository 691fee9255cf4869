----------------------------- MODULE MCIteration ----------------------------
(* Instances of Iteration for TLC: keys of a signed three-bit type. *)
EXTENDS Iteration

SignedKeys == -2..2
LeastKey == {-2}
One == {1}
=============================================================================
