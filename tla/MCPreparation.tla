---------------------------- MODULE MCPreparation ----------------------------
(***************************************************************************)
(* A small instance of Preparation: two versions of a secret set that have *)
(* one file in common and one file each, and one reference.                *)
(***************************************************************************)
EXTENDS Preparation

CONSTANT r1

Contained == <<{1, 2}, {1, 3}>>
=============================================================================
