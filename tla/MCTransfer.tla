----------------------------- MODULE MCTransfer -----------------------------
(***************************************************************************)
(* A small instance of Transfer: one capture of two state mounts, copied   *)
(* to one destination, and two restores of it into one instance.           *)
(***************************************************************************)
EXTENDS Transfer

CONSTANTS a, b, c1, d1, r1, r2
=============================================================================
