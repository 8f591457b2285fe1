----------------------------- MODULE MCDispatch -----------------------------
(***************************************************************************)
(* Small instances of Dispatch: operations o1 and o2 for the worker, c1    *)
(* for a program.                                                          *)
(***************************************************************************)
EXTENDS Dispatch

CONSTANTS o1, o2, c1

Kinds == [o \in Operations |-> IF o = c1 THEN "cli" ELSE "worker"]
FirstGeneration == [o \in Operations |-> 1]
=============================================================================
