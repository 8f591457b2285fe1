------------------------------ MODULE MCWorker ------------------------------
(***************************************************************************)
(* Small instances of Worker: the life of one instance, a capture, and two *)
(* generations of a workload on one host.                                  *)
(***************************************************************************)
EXTENDS Worker

CONSTANTS db, i1, i2, p1, s1, s1b, r1, f1, t1, x1, p2, s2, c1

OneWorkload == [i \in Instances |-> db]
Generations == [i \in Instances |-> IF i = i2 THEN 2 ELSE 1]

Actions ==
    [o \in Operations |->
        CASE o \in {p1, p2} -> IF o = p2 THEN "adopt" ELSE "prepare"
          [] o \in {s1, s1b, s2} -> "start"
          [] o = r1 -> "retire"
          [] o = f1 -> "freeze"
          [] o = t1 -> "thaw"
          [] o = x1 -> "stop"]

Names == [o \in Operations |-> IF o \in {p2, s2} THEN i2 ELSE i1]
CapturesNamed == [o \in Operations |-> IF o \in {f1, t1} THEN c1 ELSE None]

(***************************************************************************)
(* Three scenes: one instance started twice, stopped and retired; a        *)
(* capture over a workload with two generations on the host; two           *)
(* generations, the older retired.  Operations and faults only add up, so  *)
(* the constraint keeps every behaviour of each scene.                     *)
(***************************************************************************)
Bounds ==
    [life        |-> [operations |-> {p1, s1, s1b, x1, r1}, faults |-> 2],
     capture     |-> [operations |-> {p1, s1, f1, t1, p2, s2}, faults |-> 1],
     generations |-> [operations |-> {p1, s1, p2, s2, r1}, faults |-> 2]]

Arrived == {o \in Operations : ops[o].status # "new" \/ call.op = o}

InScene == \E s \in DOMAIN Bounds : Arrived \subseteq Bounds[s].operations
                                   /\ faults <= Bounds[s].faults
=============================================================================
