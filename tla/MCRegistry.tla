----------------------------- MODULE MCRegistry -----------------------------
(***************************************************************************)
(* Small instances of Registry.  A run explores the states that lie within *)
(* one of its Scenes: a workload that moves between two hosts, a workload  *)
(* under moving clocks, an operation queue at its limit, a workload that   *)
(* depends on another one.  What a scene bounds only grows, so the run     *)
(* follows every behaviour until it leaves the last scene that holds it.   *)
(***************************************************************************)
EXTENDS Registry, TLC

CONSTANTS
    Scenes,                     \* the scenes of this run
    db, app, r1, h1, h2, web

ReadyReport == [phase |-> "running", unit |-> "active", drained |-> "no",
                retired |-> FALSE, ready |-> {web}]
RetiredReport == [phase |-> "stopped", unit |-> "inactive", drained |-> "yes",
                  retired |-> TRUE, ready |-> {}]

MoveSamples == {ReadyReport, RetiredReport}

OneDefinition == {<<db, r1>>}
EitherHost == [d \in OneDefinition |-> Hosts]
NoDependency == [d \in OneDefinition |-> {}]
OneRoute == {<<db, web>>}

TwoDefinitions == {<<db, r1>>, <<app, r1>>}
AppNeedsDb == [d \in TwoDefinitions |-> IF d[1] = app THEN {db} ELSE {}]
TwoRoutes == {<<db, web>>, <<app, web>>}

EachOnEitherHost == [d \in TwoDefinitions |-> Hosts]

Symmetry == Permutations(Instances) \cup Permutations(RequestIds)
              \cup Permutations(OperationIds) \cup Permutations(ReceiptIds)

\* What may be used up in each scene.
Bounds ==
    [handover   |-> [versions |-> 7, generations |-> 3, requests |-> 4,
                     observed |-> 1, epochs |-> 2, posted |-> 1, placed |-> {db}],
     clock      |-> [versions |-> 5, generations |-> 1, requests |-> 2,
                     observed |-> 2, epochs |-> 2, posted |-> 0, placed |-> {db}],
     queue      |-> [versions |-> 8, generations |-> 2, requests |-> 4,
                     observed |-> 1, epochs |-> 1, posted |-> 4, placed |-> {db}],
     dependency |-> [versions |-> 7, generations |-> 3, requests |-> 4,
                     observed |-> 2, epochs |-> 2, posted |-> 0, placed |-> {db, app}]]

Used(table) == {k \in DOMAIN table : table[k] # None}

Within(scene) ==
    LET b == Bounds[scene]
    IN  /\ version <= b.versions
        /\ epoch <= b.epochs
        /\ Cardinality(Used(instances)) <= b.generations
        /\ Cardinality(Used(requests)) <= b.requests
        /\ \A h \in Hosts : sessions[h].sequence <= b.observed
        /\ \A w \in Workloads \ b.placed : ~Placed(w)
        /\ scene # "clock" => wall = 0 /\ mono = 0
        /\ operationSequence <= b.posted
        /\ scene \in {"clock", "dependency"} =>
             /\ fences = {}
             /\ h2 \in Hosts => sessions[h2] = NoSession
             /\ \A i \in Used(instances) : instances[i].host = h1
        /\ scene = "clock" => \A i \in Used(observations) :
             \/ observations[i].report = ReadyReport
             \/ Cardinality(Used(requests)) = 1
        /\ scene = "queue" => \A f \in fences : f.evidence = "operator"

\* The state constraint of the runs.
InScene == \E scene \in Scenes : Within(scene)
=============================================================================
