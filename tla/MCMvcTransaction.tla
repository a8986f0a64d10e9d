-------------------------- MODULE MCMvcTransaction ---------------------------
(* Instances of MvcTransaction for TLC: requests that are interchangeable.  *)
EXTENDS MvcTransaction, TLC

Symmetry == Permutations(Requests)
=============================================================================
