---------------------------- MODULE MCController ----------------------------
(***************************************************************************)
(* Small instances of Controller: moves of one workload off host a, or off *)
(* it in a failover.  The run of the jobs explores the states that lie     *)
(* within one of the scenes below.                                         *)
(***************************************************************************)
EXTENDS Controller

CONSTANTS i0, i1, i2, i3, i4, i5, j1, j2, j3, k1, k2, a, b, c

InstanceHosts == [i \in Instances |-> IF i = i0 THEN a ELSE IF i = i1 THEN b ELSE c]
Generations == [i \in Instances |-> IF i = i0 THEN 1 ELSE 2]
Sources == [j \in Jobs |-> i0]
Targets == [j \in Jobs |-> IF j = j1 THEN i1 ELSE i2]
Moves == [j \in Jobs |-> "plan"]
Failovers == [j \in Jobs |-> "failover"]
Attested == [j \in Jobs |-> "quorum-attested"]

\* Moves j1, j2 and failovers k1, k2, each to a successor of its own; j3 moves
\* the successor of j1 back to the host it came from.
MovesAndFailovers == [j \in Jobs |-> IF j \in {k1, k2} THEN "failover" ELSE "plan"]
BackSources == [j \in Jobs |-> IF j = j3 THEN i1 ELSE i0]
AllTargets ==
    [j \in Jobs |-> CASE j = j1 -> i1 [] j = j2 -> i2 [] j = j3 -> i5
                      [] j = k1 -> i3 [] j = k2 -> i4]
AllHosts ==
    [i \in Instances |-> IF i \in {i0, i5} THEN a ELSE IF i \in {i1, i3} THEN b ELSE c]
AllGenerations ==
    [i \in Instances |-> IF i = i0 THEN 1 ELSE IF i = i5 THEN 3 ELSE 2]

\* A move whose dependency fails and whose instances write; two moves at
\* once; two failovers at once; a move and a failover that
\* leaves its fence behind and goes no further; a move and the move back.
Bounds ==
    [move      |-> [jobs |-> {j1}, faults |-> 3],
     moves     |-> [jobs |-> {j1, j2}, faults |-> 1],
     failovers |-> [jobs |-> {k1, k2}, faults |-> 3],
     stray     |-> [jobs |-> {j1, k1}, faults |-> 3],
     back      |-> [jobs |-> {j1, j3}, faults |-> 0]]

InScene ==
    \E s \in DOMAIN Bounds :
      /\ {j \in Jobs : job[j].phase # "none"} \subseteq Bounds[s].jobs
      /\ faults <= Bounds[s].faults
      /\ s # "move" => \A i \in Instances : proc[i].data = 0
      /\ s \notin {"move", "stray"} => ready
      /\ s = "stray" => MovedByMoves
=============================================================================
