------------------------------ MODULE MCIngress ------------------------------
(***************************************************************************)
(* A small instance of Ingress.                                            *)
(***************************************************************************)
EXTENDS Ingress, TLC

CONSTANTS b1, b2

\* Together, behind by more than the allowance, ahead by the allowance.
SteppedClocks == {-2, 0, 1}

Symmetry == Permutations(Backends)
=============================================================================
