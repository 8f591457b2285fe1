--------------------------- MODULE RegistryProofs ---------------------------
(***************************************************************************)
(* What Registry guarantees for every number of workloads, hosts and ids   *)
(* and every bound: type correctness, the lineage of generations and the   *)
(* scope of fences and operations, that evidence never revives, that every *)
(* effect has its request and every written row stays, the limit of the    *)
(* queue, what a handover rests on, that the word shown and the commit     *)
(* gates agree, and the window of a published route.                       *)
(***************************************************************************)
EXTENDS Registry, EvidenceProofs, FiniteSetTheorems, WellFoundedInduction, TLAPS

-----------------------------------------------------------------------------
(* Every row the registry ever stores has its type: the database never     *)
(* holds a half-written row, through any interleaving of calls, restarts   *)
(* and clock changes.                                                      *)
THEOREM TypeCorrect == Spec => []TypeOK
<1>1. Init => TypeOK
  BY DEF Init, TypeOK, NotPlaced, NoSession, PlacementRow, SessionRow
<1>2. TypeOK /\ [Next]_vars => TypeOK'
  <2> SUFFICES ASSUME TypeOK, [Next]_vars PROVE TypeOK'
    OBVIOUS
  <2> USE RegistryAssumption, AgeAssumption, NoneAssumption
  <2>1. CASE UNCHANGED vars
    BY <2>1 DEF vars, TypeOK
  <2>2. ASSUME NEW h \in Hosts, OpenSession(h) PROVE TypeOK'
    <3>1. [session |-> version', epoch |-> epoch, sequence |-> 0] \in SessionRow
      BY <2>2 DEF OpenSession, Bump, TypeOK, SessionRow
    <3>2. version' \in Nat
      BY <2>2 DEF OpenSession, Bump, TypeOK
    <3> QED BY <2>2, <3>1, <3>2 DEF OpenSession, TypeOK
  <2>3. ASSUME NEW h \in Hosts, NEW i \in Instances, NEW p \in Samples,
               NEW at \in 0 .. MaxTime, NEW s \in 1 .. MaxVersion,
               NEW n \in 1 .. MaxSequence, Observe(h, i, p, at, s, n)
        PROVE TypeOK'
    <3>1. [report |-> p, observedAt |-> at, session |-> s, epoch |-> epoch,
           sequence |-> n, receivedMono |-> mono] \in ObservationRow
      BY DEF TypeOK, ObservationRow
    <3>2. sessions' \in [Hosts -> SessionRow]
      BY <2>3 DEF Observe, TypeOK, SessionRow
    <3>3. version' \in Nat /\ lastWall' \in Nat
      BY <2>3 DEF Observe, Now, Bump, TypeOK
    <3> QED BY <2>3, <3>1, <3>2, <3>3 DEF Observe, TypeOK
  <2>4. ASSUME NEW h \in Hosts, NEW o \in OperationIds, NEW q \in ReceiptIds,
               Claim(h, o, q)
        PROVE TypeOK'
    <3>1. operations[o] \in OperationRow
      BY <2>4 DEF Claim, TypeOK
    <3>2. [operations[o] EXCEPT !.status = "claimed", !.claim = q] \in OperationRow
      BY <3>1 DEF OperationRow, Outcomes
    <3>3. operations' \in [OperationIds -> OperationRow \cup {None}]
      BY <2>4, <3>2 DEF Claim, TypeOK
    <3> QED BY <2>4, <3>3 DEF Claim, Bump, TypeOK
  <2>5. ASSUME NEW h \in Hosts, NEW o \in OperationIds, NEW q \in ReceiptIds,
               NEW outcome \in Outcomes, Finish(h, o, q, outcome)
        PROVE TypeOK'
    <3>1. operations[o] \in OperationRow
      BY <2>5 DEF Finish, TypeOK
    <3>2. [operations[o] EXCEPT !.status = outcome, !.final = q] \in OperationRow
      BY <3>1 DEF OperationRow, Outcomes
    <3>3. operations' \in [OperationIds -> OperationRow \cup {None}]
      BY <2>5, <3>2 DEF Finish, TypeOK
    <3> QED BY <2>5, <3>3 DEF Finish, Bump, TypeOK
  <2>6. ASSUME NEW c \in Controllers, NEW r \in RequestIds,
               NEW request \in Request, NEW receipt \in Nat,
               Record(c, r, request, receipt)
        PROVE /\ requests' \in [RequestIds -> RequestRow \cup {None}]
              /\ version' \in Nat
    BY <2>6 DEF Record, Bump, TypeOK, RequestRow
  <2>7. ASSUME NEW c \in Controllers, NEW r \in RequestIds,
               NEW w \in Workloads, NEW v \in Revisions, NEW h \in Hosts,
               NEW i \in Instances, NEW g \in 0 .. MaxVersion,
               Assign(c, r, w, v, h, i, g)
        PROVE TypeOK'
    <3> DEFINE generation == placements[w].generation + 1
    <3>1. generation \in Nat \ {0}
      BY DEF TypeOK, PlacementRow
    <3>2. [action |-> "assign", workload |-> w, revision |-> v, host |-> h,
           instance |-> i, expected |-> g] \in Request
      BY DEF Request, AssignRequest
    <3>3. /\ requests' \in [RequestIds -> RequestRow \cup {None}]
          /\ version' \in Nat
      BY <2>6, <2>7, <3>1, <3>2 DEF Assign
    <3>4. instances' \in [Instances -> InstanceRow \cup {None}]
      BY <2>7, <3>1 DEF Assign, TypeOK, InstanceRow
    <3>5. placements' \in [Workloads -> PlacementRow]
      BY <2>7, <3>1 DEF Assign, TypeOK, PlacementRow
    <3> QED BY <2>7, <3>3, <3>4, <3>5 DEF Assign, Now, TypeOK
  <2>8. ASSUME NEW c \in Controllers, NEW r \in RequestIds,
               NEW w \in Workloads, NEW g \in 0 .. MaxVersion,
               Publish(c, r, w, g) \/ Withdraw(c, r, w, g)
        PROVE TypeOK'
    <3>1. \A a \in {"publish", "withdraw"} :
            [action |-> a, workload |-> w, expected |-> g] \in Request
      BY DEF Request, PlacementRequest
    <3>2. placements[w].generation \in Nat
      BY DEF TypeOK, PlacementRow
    <3>3. /\ requests' \in [RequestIds -> RequestRow \cup {None}]
          /\ version' \in Nat
      BY <2>6, <2>8, <3>1, <3>2 DEF Publish, Withdraw
    <3>4. placements' \in [Workloads -> PlacementRow]
      <4>1. \A b \in BOOLEAN :
              [placements EXCEPT ![w].published = b] \in [Workloads -> PlacementRow]
        BY DEF TypeOK, PlacementRow
      <4> QED BY <2>8, <4>1 DEF Publish, Withdraw
    <3>5. /\ lastWall' = wall
          /\ UNCHANGED <<wall, mono, epoch, operationSequence, instances,
                         sessions, observations, fences, operations>>
      <4>1. CASE Publish(c, r, w, g)
        BY <4>1 DEF Publish, Now
      <4>2. CASE Withdraw(c, r, w, g)
        BY <4>2 DEF Withdraw, Now
      <4> QED BY <2>8, <4>1, <4>2
    <3> QED BY <3>3, <3>4, <3>5 DEF TypeOK
  <2>9. ASSUME NEW c \in Controllers, NEW r \in RequestIds,
               NEW w \in Workloads, NEW h \in Hosts,
               NEW g \in 0 .. MaxVersion, NEW e \in Evidences,
               Fence(c, r, w, g, h, e)
        PROVE TypeOK'
    <3>1. [action |-> "fence", workload |-> w, generation |-> g, host |-> h,
           evidence |-> e] \in Request
      BY DEF Request, FenceRequest
    <3>2. /\ requests' \in [RequestIds -> RequestRow \cup {None}]
          /\ version' \in Nat
      BY <2>6, <2>9, <3>1 DEF Fence
    <3>3. fences' \subseteq FenceRow
      BY <2>9 DEF Fence, TypeOK, FenceRow
    <3> QED BY <2>9, <3>2, <3>3 DEF Fence, Now, TypeOK
  <2>10. ASSUME NEW c \in Controllers, NEW r \in RequestIds,
                NEW w \in Workloads, NEW o \in OperationIds, NEW h \in Hosts,
                NEW g \in 0 .. MaxVersion, NEW step \in Steps,
                PostOperation(c, r, o, w, h, g, step)
         PROVE TypeOK'
    <3>1. [action |-> "operation", operation |-> o, workload |-> w,
           host |-> h, generation |-> g, step |-> step] \in Request
      BY DEF Request, OperationRequest
    <3>2. operationSequence + 1 \in Nat
      BY DEF TypeOK
    <3>3. /\ requests' \in [RequestIds -> RequestRow \cup {None}]
          /\ version' \in Nat
      BY <2>6, <2>10, <3>1, <3>2 DEF PostOperation
    <3>4. operations' \in [OperationIds -> OperationRow \cup {None}]
      BY <2>10, <3>2 DEF PostOperation, TypeOK, OperationRow
    <3> QED BY <2>10, <3>2, <3>3, <3>4 DEF PostOperation, TypeOK
  <2>11. ASSUME ReadClock PROVE TypeOK'
    BY <2>11 DEF ReadClock, Now, TypeOK
  <2>12. ASSUME Environment PROVE TypeOK'
    BY <2>12 DEF Environment, Tick, SetClock, Restart, TypeOK
  <2> QED
    BY <2>1, <2>2, <2>3, <2>4, <2>5, <2>7, <2>8, <2>9, <2>10, <2>11, <2>12
    DEF Next, HostCall, ControllerCall
<1> QED BY <1>1, <1>2, PTL DEF Spec

-----------------------------------------------------------------------------
(* The inductive invariant behind the start-up check.  Lineage alone is    *)
(* inductive given the types; Scoped needs it, because a fence and an      *)
(* operation look the incumbent up through the placement row; and the      *)
(* start-up check follows from both and from what assign demands of a new  *)
(* instance.                                                               *)

Sealed == \A i \in Instances : instances[i] # None =>
             /\ <<instances[i].workload, instances[i].revision>> \in Definitions
             /\ instances[i].host \in
                  Eligible[<<instances[i].workload, instances[i].revision>>]

RegistryInv == TypeOK /\ Lineage /\ Sealed /\ Scoped

\* What the invariant can see of a step.
SameLineage == /\ instances' = instances
               /\ \A w \in Workloads :
                    /\ placements'[w].generation = placements[w].generation
                    /\ placements'[w].instance = placements[w].instance

SameScopes == \A o \in OperationIds : operations'[o] # None =>
                /\ operations[o] # None
                /\ operations'[o].workload = operations[o].workload
                /\ operations'[o].generation = operations[o].generation
                /\ operations'[o].host = operations[o].host

FenceStep ==
    \E w \in Workloads, h \in Hosts, g \in Nat, e \in Evidences :
      /\ Holds(w, g, h)
      /\ \A f \in fences : f.workload = w /\ f.generation = g
                             => f.host = h /\ f.evidence = e
      /\ fences' = fences \cup
           {[workload |-> w, generation |-> g, host |-> h, evidence |-> e]}

PostStep ==
    \E o \in OperationIds, w \in Workloads, h \in Hosts, g \in Nat :
      /\ Holds(w, g, h)
      /\ operations'[o].workload = w
      /\ operations'[o].generation = g
      /\ operations'[o].host = h
      /\ \A p \in OperationIds \ {o} : operations'[p] = operations[p]

AssignStep ==
    \E w \in Workloads, v \in Revisions, h \in Hosts, i \in Instances :
      /\ <<w, v>> \in Definitions
      /\ h \in Eligible[<<w, v>>]
      /\ DependenciesReady(w, v, wall)
      /\ instances[i] = None
      /\ instances' = [instances EXCEPT ![i] =
             [workload |-> w, revision |-> v, host |-> h,
              generation |-> placements[w].generation + 1]]
      /\ placements' = [placements EXCEPT ![w] =
             [generation |-> placements[w].generation + 1, instance |-> i,
              published |-> FALSE]]

LEMMA StepKinds ==
    ASSUME TypeOK, [Next]_vars
    PROVE  \/ SameLineage /\ fences' = fences /\ SameScopes
           \/ SameLineage /\ SameScopes /\ FenceStep
           \/ SameLineage /\ fences' = fences /\ PostStep
           \/ AssignStep /\ fences' = fences /\ SameScopes
<1> USE RegistryAssumption, NoneAssumption
<1>1. CASE UNCHANGED <<placements, instances, fences, operations>>
  BY <1>1 DEF SameLineage, SameScopes
<1>2. CASE UNCHANGED vars
  BY <1>1, <1>2 DEF vars
<1>3. ASSUME NEW h \in Hosts, OpenSession(h)
      PROVE UNCHANGED <<placements, instances, fences, operations>>
  BY <1>3 DEF OpenSession
<1>4. ASSUME NEW h \in Hosts, NEW i \in Instances, NEW p \in Samples,
             NEW at \in 0 .. MaxTime, NEW s \in 1 .. MaxVersion,
             NEW n \in 1 .. MaxSequence, Observe(h, i, p, at, s, n)
      PROVE UNCHANGED <<placements, instances, fences, operations>>
  BY <1>4 DEF Observe
<1>5. ASSUME NEW h \in Hosts, NEW o \in OperationIds, NEW q \in ReceiptIds,
             \/ Claim(h, o, q)
             \/ \E outcome \in Outcomes : Finish(h, o, q, outcome)
      PROVE SameLineage /\ fences' = fences /\ SameScopes
  <2>1. UNCHANGED <<placements, instances, fences>>
    BY <1>5 DEF Claim, Finish
  <2>2. PICK a \in OperationRow : /\ operations[o] \in OperationRow
                                  /\ a.workload = operations[o].workload
                                  /\ a.generation = operations[o].generation
                                  /\ a.host = operations[o].host
                                  /\ operations' = [operations EXCEPT ![o] = a]
    <3>1. operations[o] \in OperationRow
      BY <1>5 DEF Claim, Finish, TypeOK
    <3>2. \A st \in {"claimed"} \cup Outcomes, x \in ReceiptIds :
            /\ [operations[o] EXCEPT !.status = st, !.claim = x] \in OperationRow
            /\ [operations[o] EXCEPT !.status = st, !.final = x] \in OperationRow
      BY <3>1 DEF OperationRow, Outcomes
    <3>3. CASE Claim(h, o, q)
      <4> DEFINE a == [operations[o] EXCEPT !.status = "claimed", !.claim = q]
      <4>1. a \in OperationRow
        BY <3>2
      <4>2. /\ a.workload = operations[o].workload
            /\ a.generation = operations[o].generation
            /\ a.host = operations[o].host
        BY <3>1 DEF OperationRow
      <4>3. operations' = [operations EXCEPT ![o] = a]
        BY <3>3 DEF Claim
      <4> HIDE DEF a
      <4> QED BY <3>1, <4>1, <4>2, <4>3
    <3>4. ASSUME NEW outcome \in Outcomes, Finish(h, o, q, outcome)
          PROVE \E a \in OperationRow : /\ operations[o] \in OperationRow
                                        /\ a.workload = operations[o].workload
                                        /\ a.generation = operations[o].generation
                                        /\ a.host = operations[o].host
                                        /\ operations' = [operations EXCEPT ![o] = a]
      <4> DEFINE a == [operations[o] EXCEPT !.status = outcome, !.final = q]
      <4>1. a \in OperationRow
        BY <3>2
      <4>2. /\ a.workload = operations[o].workload
            /\ a.generation = operations[o].generation
            /\ a.host = operations[o].host
        BY <3>1 DEF OperationRow
      <4>3. operations' = [operations EXCEPT ![o] = a]
        BY <3>4 DEF Finish
      <4> HIDE DEF a
      <4> QED BY <3>1, <4>1, <4>2, <4>3
    <3> QED BY <1>5, <3>3, <3>4
  <2>3. SameScopes
    BY <2>2 DEF SameScopes, TypeOK
  <2> QED BY <2>1, <2>3 DEF SameLineage
<1>6. ASSUME NEW c \in Controllers, NEW r \in RequestIds,
             NEW w \in Workloads, NEW v \in Revisions, NEW h \in Hosts,
             NEW i \in Instances, NEW g \in 0 .. MaxVersion,
             Assign(c, r, w, v, h, i, g)
      PROVE AssignStep /\ fences' = fences /\ SameScopes
  BY <1>6 DEF Assign, AssignStep, Unused, SameScopes
<1>7. ASSUME NEW c \in Controllers, NEW r \in RequestIds,
             NEW w \in Workloads, NEW g \in 0 .. MaxVersion,
             Publish(c, r, w, g) \/ Withdraw(c, r, w, g)
      PROVE SameLineage /\ fences' = fences /\ SameScopes
  <2>1. \A b \in BOOLEAN, x \in Workloads :
          /\ [placements EXCEPT ![w].published = b][x].generation
               = placements[x].generation
          /\ [placements EXCEPT ![w].published = b][x].instance
               = placements[x].instance
    BY DEF TypeOK, PlacementRow
  <2>2. /\ \E b \in BOOLEAN : placements' = [placements EXCEPT ![w].published = b]
        /\ UNCHANGED <<instances, fences, operations>>
    BY <1>7 DEF Publish, Withdraw
  <2> QED BY <2>1, <2>2 DEF SameLineage, SameScopes
<1>8. ASSUME NEW c \in Controllers, NEW r \in RequestIds,
             NEW w \in Workloads, NEW h \in Hosts,
             NEW g \in 0 .. MaxVersion, NEW e \in Evidences,
             Fence(c, r, w, g, h, e)
      PROVE SameLineage /\ SameScopes /\ FenceStep
  BY <1>8 DEF Fence, FenceStep, SameLineage, SameScopes
<1>9. ASSUME NEW c \in Controllers, NEW r \in RequestIds,
             NEW w \in Workloads, NEW o \in OperationIds, NEW h \in Hosts,
             NEW g \in 0 .. MaxVersion, NEW step \in Steps,
             PostOperation(c, r, o, w, h, g, step)
      PROVE SameLineage /\ fences' = fences /\ PostStep
  <2>1. /\ UNCHANGED <<placements, instances, fences>>
        /\ Holds(w, g, h)
    BY <1>9 DEF PostOperation
  <2>2. /\ operations'[o].workload = w
        /\ operations'[o].generation = g
        /\ operations'[o].host = h
        /\ \A p \in OperationIds \ {o} : operations'[p] = operations[p]
    BY <1>9 DEF PostOperation, TypeOK
  <2> QED BY <2>1, <2>2 DEF SameLineage, PostStep
<1>10. ASSUME ReadClock \/ Environment
       PROVE UNCHANGED <<placements, instances, fences, operations>>
  BY <1>10 DEF ReadClock, Environment, Tick, SetClock, Restart
<1> QED
  BY <1>1, <1>2, <1>3, <1>4, <1>5, <1>6, <1>7, <1>8, <1>9, <1>10
  DEF Next, HostCall, ControllerCall

LEMMA RegistryInvInit == Init => RegistryInv
<1> SUFFICES ASSUME Init PROVE RegistryInv
  OBVIOUS
<1>1. TypeOK
  BY DEF Init, TypeOK, NotPlaced, NoSession, PlacementRow, SessionRow
<1>2. Lineage
  BY DEF Init, Lineage, GenerationsOf, NotPlaced, Placed, Incumbent
<1>3. Sealed /\ Scoped
  BY DEF Init, Sealed, Scoped
<1> QED BY <1>1, <1>2, <1>3 DEF RegistryInv

\* The placement row of a lineage is a witness for HeldBy.
LEMMA HoldsIsHeld ==
    ASSUME Lineage, NEW w \in Workloads, NEW g, NEW h, Holds(w, g, h), TypeOK
    PROVE  HeldBy(w, g, h)
<1>1. Incumbent(w) \in Instances
  BY NoneAssumption DEF Lineage, Holds, TypeOK, PlacementRow, Incumbent
<1> QED BY <1>1 DEF Lineage, Holds, HeldBy

LEMMA RegistryInvStep == RegistryInv /\ TypeOK' /\ [Next]_vars => RegistryInv'
<1> SUFFICES ASSUME RegistryInv, TypeOK', [Next]_vars PROVE RegistryInv'
  OBVIOUS
<1> USE NoneAssumption
<1>1. TypeOK /\ Lineage /\ Sealed /\ Scoped
  BY DEF RegistryInv
<1>2. ASSUME SameLineage PROVE Lineage' /\ Sealed'
  <2>1. \A w \in Workloads : /\ GenerationsOf(w)' = GenerationsOf(w)
                             /\ Placed(w)' = Placed(w)
                             /\ Incumbent(w)' = Incumbent(w)
    BY <1>2 DEF SameLineage, GenerationsOf, Placed, Incumbent
  <2> QED BY <1>1, <1>2, <2>1 DEF SameLineage, Lineage, Sealed
<1>3. ASSUME \A i \in Instances : instances[i] # None => instances'[i] = instances[i],
             NEW w, NEW g, NEW h, HeldBy(w, g, h)
      PROVE HeldBy(w, g, h)'
  BY <1>3 DEF HeldBy
<1>4. CASE SameLineage /\ fences' = fences /\ SameScopes
  <2>1. Scoped'
    BY <1>1, <1>4 DEF SameLineage, SameScopes, Scoped, HeldBy
  <2> QED BY <1>2, <1>4, <2>1 DEF RegistryInv
<1>5. CASE SameLineage /\ SameScopes /\ FenceStep
  <2>1. PICK w \in Workloads, h \in Hosts, g \in Nat, e \in Evidences :
          /\ Holds(w, g, h)
          /\ \A f \in fences : f.workload = w /\ f.generation = g
                                 => f.host = h /\ f.evidence = e
          /\ fences' = fences \cup
               {[workload |-> w, generation |-> g, host |-> h, evidence |-> e]}
    BY <1>5 DEF FenceStep
  <2>2. HeldBy(w, g, h)
    BY <1>1, <2>1, HoldsIsHeld
  <2>3. \A a, b, c : HeldBy(a, b, c) => HeldBy(a, b, c)'
    BY <1>3, <1>5 DEF SameLineage
  <2>4. \A f \in fences' : HeldBy(f.workload, f.generation, f.host)'
    BY <1>1, <2>1, <2>2, <2>3 DEF Scoped
  <2>5. \A f \in fences : f.workload = w /\ f.generation = g =>
          f = [workload |-> w, generation |-> g, host |-> h, evidence |-> e]
    BY <1>1, <2>1 DEF TypeOK, FenceRow
  <2>6. \A f, k \in fences' :
          f.workload = k.workload /\ f.generation = k.generation => f = k
    BY <1>1, <2>1, <2>5 DEF Scoped
  <2>7. (\A o \in OperationIds : operations[o] # None =>
           HeldBy(operations[o].workload, operations[o].generation,
                  operations[o].host))'
    BY <1>1, <1>5 DEF SameScopes, SameLineage, Scoped, HeldBy
  <2> QED BY <1>2, <1>5, <2>4, <2>6, <2>7 DEF RegistryInv, Scoped
<1>6. CASE SameLineage /\ fences' = fences /\ PostStep
  <2>1. PICK o \in OperationIds, w \in Workloads, h \in Hosts, g \in Nat :
          /\ Holds(w, g, h)
          /\ operations'[o].workload = w
          /\ operations'[o].generation = g
          /\ operations'[o].host = h
          /\ \A p \in OperationIds \ {o} : operations'[p] = operations[p]
    BY <1>6 DEF PostStep
  <2>2. HeldBy(w, g, h)
    BY <1>1, <2>1, HoldsIsHeld
  <2>3. \A a, b, c : HeldBy(a, b, c) => HeldBy(a, b, c)'
    BY <1>3, <1>6 DEF SameLineage
  <2>4. (\A p \in OperationIds : operations[p] # None =>
           HeldBy(operations[p].workload, operations[p].generation,
                  operations[p].host))'
    BY <1>1, <1>6, <2>1, <2>2 DEF SameLineage, Scoped, HeldBy
  <2>5. \A f \in fences' : HeldBy(f.workload, f.generation, f.host)'
    BY <1>1, <1>6, <2>3 DEF Scoped
  <2> QED BY <1>1, <1>2, <1>6, <2>4, <2>5 DEF RegistryInv, Scoped
<1>7. CASE AssignStep /\ fences' = fences /\ SameScopes
  <2>1. PICK w \in Workloads, v \in Revisions, h \in Hosts, i \in Instances :
          /\ <<w, v>> \in Definitions
          /\ h \in Eligible[<<w, v>>]
          /\ instances[i] = None
          /\ instances' = [instances EXCEPT ![i] =
                 [workload |-> w, revision |-> v, host |-> h,
                  generation |-> placements[w].generation + 1]]
          /\ placements' = [placements EXCEPT ![w] =
                 [generation |-> placements[w].generation + 1, instance |-> i,
                  published |-> FALSE]]
    BY <1>7 DEF AssignStep
  <2> DEFINE next == placements[w].generation + 1
  <2>2. next \in Nat \ {0}
    BY <1>1 DEF TypeOK, PlacementRow
  <2>3. /\ instances'[i] # None
        /\ instances'[i].workload = w
        /\ instances'[i].revision = v
        /\ instances'[i].host = h
        /\ instances'[i].generation = next
        /\ \A j \in Instances \ {i} : instances'[j] = instances[j]
    <3>1. [workload |-> w, revision |-> v, host |-> h, generation |-> next]
            \in InstanceRow
      BY <2>2 DEF InstanceRow
    <3> QED BY <1>1, <2>1, <3>1 DEF TypeOK
  <2>4. /\ placements'[w].generation = next
        /\ placements'[w].instance = i
        /\ \A x \in Workloads \ {w} : placements'[x] = placements[x]
    BY <1>1, <2>1 DEF TypeOK
  <2> HIDE DEF next
  <2>5. Sealed'
    BY <1>1, <2>1, <2>3 DEF Sealed
  <2>6. \A a, b, c : HeldBy(a, b, c) => HeldBy(a, b, c)'
    BY <1>3, <2>1, <2>3
  <2>7. Scoped'
    BY <1>1, <1>7, <2>6 DEF Scoped, SameScopes
  <2>8. \A x \in Workloads : GenerationsOf(x)' =
          IF x = w THEN GenerationsOf(w) \cup {next} ELSE GenerationsOf(x)
    BY <2>1, <2>3 DEF GenerationsOf
  <2>9. GenerationsOf(w) = 1 .. next - 1 /\ next - 1 \in Nat
    <3>1. placements[w].generation = next - 1 /\ placements[w].generation \in Nat
      BY <1>1 DEF TypeOK, PlacementRow, next
    <3> QED BY <1>1, <3>1 DEF Lineage
  <2>10. \A x \in Workloads : GenerationsOf(x)' = 1 .. placements'[x].generation
    <3>1. (1 .. next - 1) \cup {next} = 1 .. next
      BY <2>2
    <3> QED BY <1>1, <2>4, <2>8, <2>9, <3>1 DEF Lineage
  <2>11. \A j \in Instances : instances[j] # None /\ instances[j].workload = w
                                => instances[j].generation # next
    <3>1. \A j \in Instances : instances[j] # None /\ instances[j].workload = w
            => instances[j].generation \in GenerationsOf(w)
      BY DEF GenerationsOf
    <3> QED BY <2>2, <2>9, <3>1
  <2>12. \A x \in Workloads, j, k \in Instances :
           /\ instances'[j] # None /\ instances'[k] # None
           /\ instances'[j].workload = x /\ instances'[k].workload = x
           /\ instances'[j].generation = instances'[k].generation
           => j = k
    BY <1>1, <2>3, <2>11 DEF Lineage
  <2>13. \A x \in Workloads : Placed(x)' =>
           /\ Incumbent(x)' # None
           /\ instances'[Incumbent(x)'] # None
           /\ instances'[Incumbent(x)'].workload = x
           /\ instances'[Incumbent(x)'].generation = placements'[x].generation
    <3> TAKE x \in Workloads
    <3>1. CASE x = w
      BY <2>3, <2>4, <3>1 DEF Placed, Incumbent
    <3>2. CASE x # w
      <4>1. Placed(x)' => placements[x].instance \in Instances \ {i}
        BY <1>1, <2>1, <2>4, <3>2 DEF Lineage, Placed, Incumbent, TypeOK,
                                      PlacementRow
      <4> QED BY <1>1, <2>3, <2>4, <3>2, <4>1 DEF Lineage, Placed, Incumbent
    <3> QED BY <3>1, <3>2
  <2>14. Lineage'
    BY <2>10, <2>12, <2>13 DEF Lineage
  <2> QED BY <2>5, <2>7, <2>14 DEF RegistryInv
<1> QED BY <1>1, <1>4, <1>5, <1>6, <1>7, StepKinds

-----------------------------------------------------------------------------
(* The inductive invariant holds in every reachable state.                 *)
THEOREM RegistryInvariant == Spec => []RegistryInv
<1>1. RegistryInv /\ TypeOK' /\ [Next]_vars => RegistryInv'
  BY RegistryInvStep
<1> QED BY <1>1, RegistryInvInit, TypeCorrect, PTL DEF Spec

(* Generations are a lineage: assign never skips, reuses or forks one.     *)
THEOREM LineageHolds == Spec => []Lineage
<1>1. RegistryInv => Lineage
  BY DEF RegistryInv
<1> QED BY <1>1, RegistryInvariant, PTL

(* Fences and operations always name an incumbent and the host it was on.  *)
THEOREM ScopedHolds == Spec => []Scoped
<1>1. RegistryInv => Scoped
  BY DEF RegistryInv
<1> QED BY <1>1, RegistryInvariant, PTL

(* A registry can always reopen the database it wrote: the start-up check  *)
(* (_check_compat) follows from the invariant of the running program.      *)
THEOREM ReopenableHolds == Spec => []Reopenable
<1>1. RegistryInv => Reopenable
  BY DEF RegistryInv, Reopenable, Compatible, Lineage, Sealed, Scoped, HeldBy,
         Placed
<1> QED BY <1>1, RegistryInvariant, PTL

-----------------------------------------------------------------------------
(* Evidence never revives, for every age limit, every clock and every      *)
(* number of restarts and sessions.  The argument has three parts, one per *)
(* way a row could come back: the wall clock of a process only moves       *)
(* forward through _now; a row of an earlier epoch never meets its epoch   *)
(* again; a row of an earlier session never meets its session again.       *)

\* Each stored row lies in the past of the process that stored it.
Past ==
    /\ \A h \in Hosts : sessions[h].session <= version
    /\ \A i \in Instances : observations[i] # None =>
         /\ instances[i] # None
         /\ observations[i].epoch <= epoch
         /\ observations[i].session <= sessions[instances[i].host].session
         /\ observations[i].epoch = epoch =>
              /\ lastWall # None
              /\ observations[i].observedAt <= lastWall
              /\ observations[i].receivedMono <= mono

-----------------------------------------------------------------------------
(* What the clocks, the sessions and the rows can do in one step.          *)

RowsKept == \A i \in Instances : instances[i] # None => instances'[i] = instances[i]

\* Within a process: the clock reading and the monotonic clock move forward.
Running == /\ epoch' = epoch
           /\ mono' >= mono
           /\ \/ lastWall' = lastWall
              \/ lastWall' = wall /\ (lastWall # None => wall >= lastWall)
           /\ version' >= version

OpenStep == \E h \in Hosts :
    /\ sessions' = [sessions EXCEPT ![h] =
           [session |-> version', epoch |-> epoch, sequence |-> 0]]
    /\ version' = version + 1
    /\ UNCHANGED <<mono, epoch, lastWall, instances, observations>>

ObserveStep == \E h \in Hosts, i \in Instances, at \in Nat, n \in Nat,
                  row \in ObservationRow :
    /\ row.epoch = epoch
    /\ row.session = sessions[h].session
    /\ row.observedAt = at
    /\ row.receivedMono = mono
    /\ at <= wall
    /\ sessions[h].epoch = epoch
    /\ n > sessions[h].sequence /\ row.sequence = n
    /\ instances[i] # None
    /\ instances[i].host = h
    /\ observations' = [observations EXCEPT ![i] = row]
    /\ sessions' = [sessions EXCEPT ![h].sequence = n]
    /\ lastWall' = wall
    /\ (lastWall # None => wall >= lastWall)
    /\ version' >= version
    /\ UNCHANGED <<mono, epoch, instances>>

RestartStep == /\ epoch' = epoch + 1
               /\ UNCHANGED <<version, instances, observations, sessions>>

OtherStep == /\ Running
             /\ RowsKept
             /\ UNCHANGED <<observations, sessions>>

LEMMA ClockSteps ==
    ASSUME TypeOK, [Next]_vars
    PROVE  OpenStep \/ ObserveStep \/ RestartStep \/ OtherStep
<1> USE RegistryAssumption, NoneAssumption
<1>1. CASE UNCHANGED vars
  BY <1>1 DEF vars, OtherStep, Running, RowsKept, TypeOK
<1>2. ASSUME NEW h \in Hosts, OpenSession(h) PROVE OpenStep
  BY <1>2 DEF OpenSession, OpenStep, Bump
<1>3. ASSUME NEW h \in Hosts, NEW i \in Instances, NEW p \in Samples,
             NEW at \in 0 .. MaxTime, NEW s \in 1 .. MaxVersion,
             NEW n \in 1 .. MaxSequence, Observe(h, i, p, at, s, n)
      PROVE ObserveStep
  <2> DEFINE row == [report |-> p, observedAt |-> at, session |-> s,
                     epoch |-> epoch, sequence |-> n, receivedMono |-> mono]
  <2>1. row \in ObservationRow
    BY DEF TypeOK, ObservationRow
  <2>2. /\ row.epoch = epoch
        /\ row.session = sessions[h].session
        /\ row.observedAt = at
        /\ row.receivedMono = mono
        /\ sessions[h].epoch = epoch
        /\ n > sessions[h].sequence /\ row.sequence = n
    BY <1>3 DEF Observe
  <2>3. /\ observations' = [observations EXCEPT ![i] = row]
        /\ sessions' = [sessions EXCEPT ![h].sequence = n]
        /\ at <= wall
        /\ instances[i] # None /\ instances[i].host = h
        /\ UNCHANGED <<mono, epoch, instances>>
    BY <1>3 DEF Observe
  <2>4. /\ lastWall' = wall
        /\ (lastWall # None => wall >= lastWall)
        /\ version' >= version
    BY <1>3 DEF Observe, Now, ClockAccepted, Bump, TypeOK
  <2>5. at \in Nat /\ n \in Nat
    OBVIOUS
  <2> HIDE DEF row
  <2> QED BY <2>1, <2>2, <2>3, <2>4, <2>5 DEF ObserveStep
<1>4. ASSUME NEW h \in Hosts, NEW o \in OperationIds, NEW q \in ReceiptIds,
             \/ Claim(h, o, q)
             \/ \E outcome \in Outcomes : Finish(h, o, q, outcome)
      PROVE OtherStep
  <2>1. CASE Claim(h, o, q)
    BY <2>1 DEF Claim, Bump, OtherStep, Running, RowsKept, TypeOK
  <2>2. ASSUME NEW outcome \in Outcomes, Finish(h, o, q, outcome)
        PROVE OtherStep
    BY <2>2 DEF Finish, Bump, OtherStep, Running, RowsKept, TypeOK
  <2> QED BY <1>4, <2>1, <2>2
<1>5. ASSUME NEW c \in Controllers, NEW r \in RequestIds,
             NEW w \in Workloads, NEW v \in Revisions, NEW h \in Hosts,
             NEW i \in Instances, NEW g \in 0 .. MaxVersion,
             Assign(c, r, w, v, h, i, g)
      PROVE OtherStep
  <2>1. RowsKept
    BY <1>5 DEF Assign, Unused, RowsKept, TypeOK
  <2> QED BY <1>5, <2>1 DEF Assign, Record, Now, ClockAccepted, Bump, OtherStep,
                            Running, TypeOK
<1>6. ASSUME NEW c \in Controllers, NEW r \in RequestIds,
             NEW w \in Workloads, NEW g \in 0 .. MaxVersion,
             Publish(c, r, w, g) \/ Withdraw(c, r, w, g)
      PROVE OtherStep
  <2>1. CASE Publish(c, r, w, g)
    BY <2>1 DEF Publish, Record, Now, ClockAccepted, Bump, OtherStep,
                Running, RowsKept, TypeOK
  <2>2. CASE Withdraw(c, r, w, g)
    BY <2>2 DEF Withdraw, Record, Now, ClockAccepted, Bump, OtherStep,
                Running, RowsKept, TypeOK
  <2> QED BY <1>6, <2>1, <2>2
<1>7. ASSUME NEW c \in Controllers, NEW r \in RequestIds,
             NEW w \in Workloads, NEW h \in Hosts,
             NEW g \in 0 .. MaxVersion, NEW e \in Evidences,
             Fence(c, r, w, g, h, e)
      PROVE OtherStep
  BY <1>7 DEF Fence, Record, Now, ClockAccepted, Bump, OtherStep, Running,
              RowsKept, TypeOK
<1>8. ASSUME NEW c \in Controllers, NEW r \in RequestIds,
             NEW w \in Workloads, NEW o \in OperationIds, NEW h \in Hosts,
             NEW g \in 0 .. MaxVersion, NEW step \in Steps,
             PostOperation(c, r, o, w, h, g, step)
      PROVE OtherStep
  BY <1>8 DEF PostOperation, Record, Bump, OtherStep, Running, RowsKept, TypeOK
<1>9. CASE ReadClock
  BY <1>9 DEF ReadClock, Now, ClockAccepted, OtherStep, Running, RowsKept, TypeOK
<1>10. CASE Tick \/ SetClock
  BY <1>10 DEF Tick, SetClock, OtherStep, Running, RowsKept, TypeOK
<1>11. CASE Restart
  BY <1>11 DEF Restart, RestartStep
<1> QED
  BY <1>1, <1>2, <1>3, <1>4, <1>5, <1>6, <1>7, <1>8, <1>9, <1>10, <1>11
  DEF Next, HostCall, ControllerCall, Environment

-----------------------------------------------------------------------------
LEMMA PastInit == Init => Past
  BY DEF Init, Past, NoSession

LEMMA PastStep == TypeOK /\ TypeOK' /\ Past /\ [Next]_vars => Past'
<1> SUFFICES ASSUME TypeOK, TypeOK', Past, [Next]_vars PROVE Past'
  OBVIOUS
<1> USE NoneAssumption DEF SessionRow, ObservationRow, InstanceRow
<1>1. CASE OpenStep
  <2>1. PICK h \in Hosts :
          /\ sessions' = [sessions EXCEPT ![h] =
                 [session |-> version', epoch |-> epoch, sequence |-> 0]]
          /\ version' = version + 1
          /\ UNCHANGED <<mono, epoch, lastWall, instances, observations>>
    BY <1>1 DEF OpenStep
  <2>2. \A k \in Hosts : /\ sessions'[k].session <= version'
                         /\ sessions[k].session <= sessions'[k].session
    BY <2>1 DEF Past, TypeOK
  <2>3. \A i \in Instances : observations[i] # None =>
          /\ instances[i].host \in Hosts
          /\ observations[i].session \in Nat
    BY DEF Past, TypeOK
  <2>4. \A i \in Instances : observations[i] # None =>
          observations[i].session <= sessions'[instances[i].host].session
    BY <2>2, <2>3 DEF Past, TypeOK
  <2> QED BY <2>1, <2>2, <2>4 DEF Past
<1>2. CASE ObserveStep
  <2>1. PICK h \in Hosts, i \in Instances, at \in Nat, n \in Nat,
             row \in ObservationRow :
          /\ row.epoch = epoch
          /\ row.session = sessions[h].session
          /\ row.observedAt = at
          /\ row.receivedMono = mono
          /\ at <= wall
          /\ sessions[h].epoch = epoch
          /\ n > sessions[h].sequence /\ row.sequence = n
          /\ instances[i] # None
          /\ instances[i].host = h
          /\ observations' = [observations EXCEPT ![i] = row]
          /\ sessions' = [sessions EXCEPT ![h].sequence = n]
          /\ lastWall' = wall
          /\ (lastWall # None => wall >= lastWall)
          /\ version' >= version
          /\ UNCHANGED <<mono, epoch, instances>>
    BY <1>2 DEF ObserveStep
  <2>2. \A k \in Hosts : sessions'[k].session = sessions[k].session
    BY <2>1 DEF TypeOK
  <2>3. \A k \in Hosts : sessions'[k].session <= version'
    BY <2>1, <2>2 DEF Past, TypeOK
  <2>4. ASSUME NEW j \in Instances, observations'[j] # None
        PROVE /\ instances'[j] # None
              /\ observations'[j].epoch <= epoch'
              /\ observations'[j].session <= sessions'[instances'[j].host].session
              /\ observations'[j].epoch = epoch' =>
                   /\ lastWall' # None
                   /\ observations'[j].observedAt <= lastWall'
                   /\ observations'[j].receivedMono <= mono'
    <3>1. CASE j = i
      BY <2>1, <2>2, <3>1 DEF TypeOK
    <3>2. CASE j # i
      <4>1. observations'[j] = observations[j]
        BY <2>1, <3>2 DEF TypeOK
      <4>2. instances[j].host \in Hosts /\ observations[j] \in ObservationRow
        BY <2>4, <4>1 DEF Past, TypeOK
      <4>3. /\ instances[j] # None
            /\ observations[j].epoch <= epoch
            /\ observations[j].session <= sessions[instances[j].host].session
        BY <2>4, <4>1 DEF Past
      <4>4. observations[j].epoch = epoch =>
              /\ lastWall # None
              /\ observations[j].observedAt <= lastWall
              /\ observations[j].receivedMono <= mono
        BY <2>4, <4>1 DEF Past
      <4>5. lastWall # None => lastWall \in Nat
        BY DEF TypeOK
      <4>6. wall \in Nat
        BY DEF TypeOK
      <4> QED BY <2>1, <2>2, <4>1, <4>2, <4>3, <4>4, <4>5, <4>6
    <3> QED BY <3>1, <3>2
  <2> QED BY <2>3, <2>4 DEF Past
<1>3. CASE RestartStep
  BY <1>3 DEF RestartStep, Past, TypeOK
<1>4. CASE OtherStep
  <2>1. \A h \in Hosts : sessions'[h].session <= version'
    BY <1>4 DEF OtherStep, Running, Past, TypeOK
  <2>2. ASSUME NEW j \in Instances, observations[j] # None
        PROVE /\ instances'[j] = instances[j]
              /\ observations[j].epoch = epoch =>
                   /\ lastWall' # None
                   /\ observations[j].observedAt <= lastWall'
                   /\ observations[j].receivedMono <= mono'
    BY <1>4, <2>2 DEF OtherStep, Running, RowsKept, Past, TypeOK
  <2> QED BY <1>4, <2>1, <2>2 DEF OtherStep, Running, Past
<1> QED BY <1>1, <1>2, <1>3, <1>4, ClockSteps

LEMMA PastInvariant == Spec => []Past
<1> QED BY PastInit, PastStep, TypeCorrect, PTL DEF Spec

-----------------------------------------------------------------------------
LEMMA NoRevival ==
    ASSUME TypeOK, TypeOK', Past, [Next]_vars, NEW i \in Instances,
           observations[i] # None,
           observations'[i] = observations[i],
           ~FreshAsRead(i)
    PROVE  ~FreshAsRead(i)'
<1> USE NoneAssumption, AgeAssumption
<1> DEFINE row == observations[i]
           h == instances[i].host
<1>1. /\ row \in ObservationRow
      /\ instances[i] \in InstanceRow
      /\ h \in Hosts
  BY DEF Past, TypeOK, InstanceRow
<1>2. row.epoch \in Nat /\ row.session \in Nat /\ row.observedAt \in Nat
        /\ row.receivedMono \in Nat
  BY <1>1 DEF ObservationRow
<1>3. /\ row.epoch <= epoch
      /\ row.session <= sessions[h].session
      /\ row.epoch = epoch => /\ lastWall # None
                              /\ row.observedAt <= lastWall
                              /\ row.receivedMono <= mono
  BY DEF Past
<1>4. SUFFICES ASSUME FreshAsRead(i)' PROVE FALSE
  OBVIOUS
<1>5. /\ row.epoch = epoch'
      /\ sessions'[instances'[i].host].session = row.session
      /\ lastWall' # None
      /\ lastWall' - row.observedAt \in 0 .. MaxAge
      /\ mono' - row.receivedMono \in 0 .. MaxAge
  BY <1>4 DEF FreshAsRead, Fresh, WithinAge
<1>6. ASSUME epoch' = epoch, instances'[i] = instances[i],
             sessions'[h].session = sessions[h].session,
             lastWall' \in Nat, lastWall \in Nat => lastWall' >= lastWall,
             mono' >= mono
      PROVE FALSE
  <2>1. lastWall \in Nat
    BY <1>3, <1>5, <1>6 DEF TypeOK
  <2>2. lastWall - row.observedAt \in 0 .. MaxAge
    BY <1>2, <1>3, <1>5, <1>6, <2>1
  <2>3. mono - row.receivedMono \in 0 .. MaxAge
    BY <1>2, <1>3, <1>5, <1>6 DEF TypeOK
  <2>4. sessions[h].session = row.session
    BY <1>5, <1>6
  <2>5. instances[i] # None
    BY DEF Past
  <2> QED BY <1>3, <1>5, <1>6, <2>2, <2>3, <2>4, <2>5
          DEF FreshAsRead, Fresh, WithinAge
<1>7. CASE OpenStep
  <2>1. PICK k \in Hosts :
          /\ sessions' = [sessions EXCEPT ![k] =
                 [session |-> version', epoch |-> epoch, sequence |-> 0]]
          /\ version' = version + 1
          /\ UNCHANGED <<mono, epoch, lastWall, instances, observations>>
    BY <1>7 DEF OpenStep
  <2>2. CASE k = h
    <3>1. sessions'[h].session = version + 1
      BY <1>1, <2>1, <2>2 DEF TypeOK
    <3>2. sessions[h].session <= version /\ sessions[h].session \in Nat
      BY <1>1 DEF Past, TypeOK, SessionRow
    <3> QED BY <1>2, <1>3, <1>5, <2>1, <3>1, <3>2 DEF TypeOK
  <2>3. CASE k # h
    <3>1. sessions'[h] = sessions[h]
      BY <1>1, <2>1, <2>3 DEF TypeOK
    <3> QED BY <1>3, <1>5, <1>6, <2>1, <3>1 DEF TypeOK
  <2> QED BY <2>2, <2>3
<1>8. CASE ObserveStep
  <2>1. PICK k \in Hosts, n \in Nat :
          /\ sessions' = [sessions EXCEPT ![k].sequence = n]
          /\ lastWall' = wall
          /\ (lastWall # None => wall >= lastWall)
          /\ UNCHANGED <<mono, epoch, instances>>
    BY <1>8 DEF ObserveStep
  <2>2. sessions'[h].session = sessions[h].session
    BY <1>1, <2>1 DEF TypeOK, SessionRow
  <2> QED BY <1>6, <2>1, <2>2 DEF TypeOK
<1>9. CASE RestartStep
  BY <1>2, <1>3, <1>5, <1>9 DEF RestartStep, TypeOK
<1>10. CASE OtherStep
  <2>1. instances'[i] = instances[i] /\ sessions' = sessions
    BY <1>10 DEF OtherStep, RowsKept, Past
  <2>2. /\ epoch' = epoch
        /\ mono' >= mono
        /\ \/ lastWall' = lastWall
           \/ lastWall' = wall /\ (lastWall # None => wall >= lastWall)
    BY <1>10 DEF OtherStep, Running
  <2>3. lastWall' \in Nat
    BY <1>5 DEF TypeOK
  <2> QED BY <1>6, <2>1, <2>2, <2>3 DEF TypeOK
<1> QED BY <1>7, <1>8, <1>9, <1>10, ClockSteps

(* A stored observation that the registry has once read as stale is never  *)
(* read as fresh again (_fresh, _now, open_session, the epoch).            *)
THEOREM NeverRevivedHolds == Spec => NeverRevived
<1> DEFINE A == \A i \in Instances :
                  /\ observations[i] # None
                  /\ observations'[i] = observations[i]
                  /\ ~FreshAsRead(i)
                  => ~FreshAsRead(i)'
<1>1. TypeOK /\ TypeOK' /\ Past /\ [Next]_vars => A
  BY NoRevival
<1>2. Spec => [][A]_vars
  <2> HIDE DEF A
  <2> QED BY <1>1, TypeCorrect, PastInvariant, PTL DEF Spec
<1> QED BY <1>2 DEF NeverRevived

-----------------------------------------------------------------------------
(* Requests and the effects they account for                               *)

\* A receipt of an assign never runs ahead of the placement it was given for.
ReceiptsInRange ==
    \A r \in RequestIds :
        requests[r] # None /\ requests[r].request.action = "assign" =>
            /\ requests[r].request.workload \in Workloads
            /\ requests[r].receipt \in Nat
            /\ requests[r].receipt <= placements[requests[r].request.workload].generation

IsAssign(e, w, i, n) == /\ e # None
                        /\ e.request.action = "assign"
                        /\ e.request.workload = w
                        /\ e.request.instance = i
                        /\ e.receipt = n

IsPublish(e, w, n) == /\ e # None
                      /\ e.request.action = "publish"
                      /\ e.request.workload = w
                      /\ e.receipt = n

RequestsKept == \A r \in RequestIds : requests[r] # None => requests'[r] = requests[r]

\* The kinds of steps, as the request table sees them.
QuietStep == UNCHANGED <<requests, instances, placements>>

AssignRecorded == \E r \in RequestIds, w \in Workloads, i \in Instances :
    /\ requests[r] = None /\ instances[i] = None
    /\ IsAssign(requests'[r], w, i, placements[w].generation + 1)
    /\ \A q \in RequestIds \ {r} : requests'[q] = requests[q]
    /\ instances'[i] # None /\ instances'[i].workload = w
    /\ instances'[i].generation = placements[w].generation + 1
    /\ \A j \in Instances \ {i} : instances'[j] = instances[j]
    /\ placements'[w].generation = placements[w].generation + 1
    /\ ~placements'[w].published
    /\ \A x \in Workloads \ {w} : placements'[x] = placements[x]

OtherRecorded == \E r \in RequestIds, w \in Workloads :
    /\ requests[r] = None
    /\ requests'[r] # None /\ requests'[r].request.action # "assign"
    /\ \A q \in RequestIds \ {r} : requests'[q] = requests[q]
    /\ UNCHANGED instances
    /\ placements'[w].generation = placements[w].generation
    /\ placements'[w].published =>
          \/ placements[w].published
          \/ IsPublish(requests'[r], w, placements[w].generation)
    /\ \A x \in Workloads \ {w} : placements'[x] = placements[x]

\* What Record leaves in the table.
LEMMA Recording ==
    ASSUME TypeOK, NEW c \in Controllers, NEW r \in RequestIds, NEW request \in Request,
           NEW receipt \in Nat, Record(c, r, request, receipt)
    PROVE  /\ requests[r] = None /\ requests'[r] # None
           /\ requests'[r].request = request /\ requests'[r].receipt = receipt
           /\ \A q \in RequestIds \ {r} : requests'[q] = requests[q]
<1> DEFINE entry == [caller |-> c, request |-> request, receipt |-> receipt]
<1>1. entry \in RequestRow /\ entry.request = request /\ entry.receipt = receipt
  BY DEF RequestRow
<1>2. requests[r] = None /\ requests' = [requests EXCEPT ![r] = entry]
  BY DEF Record
<1> HIDE DEF entry
<1> QED BY <1>1, <1>2, NoneAssumption DEF TypeOK

LEMMA RequestSteps ==
    ASSUME TypeOK, [Next]_vars
    PROVE  QuietStep \/ AssignRecorded \/ OtherRecorded
<1> USE RegistryAssumption, NoneAssumption
<1>1. CASE UNCHANGED vars \/ ReadClock \/ Environment \/ HostCall
  <2>1. CASE UNCHANGED vars \/ ReadClock \/ Environment
    BY <2>1 DEF vars, ReadClock, Environment, Tick, SetClock, Restart, QuietStep
  <2>2. ASSUME NEW h \in Hosts, OpenSession(h) PROVE QuietStep
    BY <2>2 DEF OpenSession, QuietStep
  <2>3. ASSUME NEW h \in Hosts, NEW i \in Instances, NEW p \in Samples,
               NEW at \in 0 .. MaxTime, NEW s \in 1 .. MaxVersion,
               NEW n \in 1 .. MaxSequence, Observe(h, i, p, at, s, n)
        PROVE QuietStep
    BY <2>3 DEF Observe, QuietStep
  <2>4. ASSUME NEW h \in Hosts, NEW o \in OperationIds, NEW q \in ReceiptIds,
               Claim(h, o, q)
        PROVE QuietStep
    BY <2>4 DEF Claim, QuietStep
  <2>5. ASSUME NEW h \in Hosts, NEW o \in OperationIds, NEW q \in ReceiptIds,
               NEW outcome \in Outcomes, Finish(h, o, q, outcome)
        PROVE QuietStep
    BY <2>5 DEF Finish, QuietStep
  <2> QED BY <1>1, <2>1, <2>2, <2>3, <2>4, <2>5 DEF HostCall
<1>2. ASSUME NEW c \in Controllers, NEW r \in RequestIds, NEW w \in Workloads,
             NEW v \in Revisions, NEW h \in Hosts, NEW i \in Instances,
             NEW g \in 0 .. MaxVersion, Assign(c, r, w, v, h, i, g)
      PROVE AssignRecorded
  <2> DEFINE request == [action |-> "assign", workload |-> w, revision |-> v,
                         host |-> h, instance |-> i, expected |-> g]
             next == placements[w].generation + 1
             fresh == [workload |-> w, revision |-> v, host |-> h, generation |-> next]
             placed == [generation |-> next, instance |-> i, published |-> FALSE]
  <2>1. request \in Request /\ next \in Nat \ {0} /\ g \in Nat
    BY DEF Request, AssignRequest, TypeOK, PlacementRow
  <2>2. /\ requests[r] = None /\ requests'[r] # None
        /\ requests'[r].request = request /\ requests'[r].receipt = next
        /\ \A q \in RequestIds \ {r} : requests'[q] = requests[q]
    <3>1. Record(c, r, request, next)
      BY <1>2 DEF Assign
    <3> HIDE DEF request, next
    <3> QED BY <2>1, <3>1, Recording
  <2>3. /\ request.action = "assign" /\ request.workload = w /\ request.instance = i
    OBVIOUS
  <2>4. /\ fresh \in InstanceRow /\ fresh.workload = w /\ fresh.generation = next
        /\ placed.generation = next /\ ~placed.published
    BY <2>1 DEF InstanceRow
  <2>5. /\ instances[i] = None
        /\ instances' = [instances EXCEPT ![i] = fresh]
        /\ placements' = [placements EXCEPT ![w] = placed]
    BY <1>2 DEF Assign, Unused
  <2> HIDE DEF request, fresh, placed
  <2>6. /\ instances'[i] # None /\ instances'[i].workload = w
        /\ instances'[i].generation = next
        /\ \A j \in Instances \ {i} : instances'[j] = instances[j]
        /\ placements'[w].generation = next /\ ~placements'[w].published
        /\ \A x \in Workloads \ {w} : placements'[x] = placements[x]
    BY <2>4, <2>5 DEF TypeOK
  <2>7. IsAssign(requests'[r], w, i, next)
    BY <2>2, <2>3, <2>5, <2>6 DEF IsAssign
  <2> QED BY <2>2, <2>5, <2>6, <2>7 DEF AssignRecorded, IsAssign
<1>3. ASSUME NEW c \in Controllers, NEW r \in RequestIds, NEW w \in Workloads,
             NEW request \in Request, NEW receipt \in Nat,
             Record(c, r, request, receipt), request.action # "assign",
             UNCHANGED instances, NEW b \in BOOLEAN,
             placements' = [placements EXCEPT ![w].published = b]
                \/ (b = placements[w].published /\ placements' = placements),
             b => \/ placements[w].published
                  \/ /\ request.action = "publish" /\ request.workload = w
                     /\ receipt = placements[w].generation
      PROVE OtherRecorded
  <2>1. /\ requests[r] = None /\ requests'[r] # None
        /\ requests'[r].request = request /\ requests'[r].receipt = receipt
        /\ \A q \in RequestIds \ {r} : requests'[q] = requests[q]
    BY <1>3, Recording
  <2>2. /\ placements'[w].generation = placements[w].generation
        /\ placements'[w].published => b
        /\ \A x \in Workloads \ {w} : placements'[x] = placements[x]
    BY <1>3 DEF TypeOK, PlacementRow
  <2> QED BY <1>3, <2>1, <2>2 DEF OtherRecorded, IsPublish
<1>4. ASSUME NEW c \in Controllers, NEW r \in RequestIds, NEW w \in Workloads,
             NEW g \in 0 .. MaxVersion, Publish(c, r, w, g)
      PROVE OtherRecorded
  <2> DEFINE request == [action |-> "publish", workload |-> w, expected |-> g]
  <2>1. /\ request \in Request /\ request.action = "publish" /\ request.workload = w
        /\ placements[w].generation \in Nat
    BY DEF Request, PlacementRequest, TypeOK, PlacementRow
  <2>2. /\ Record(c, r, request, placements[w].generation) /\ UNCHANGED instances
        /\ placements' = [placements EXCEPT ![w].published = TRUE]
    BY <1>4 DEF Publish
  <2> HIDE DEF request
  <2> QED BY <1>3, <2>1, <2>2
<1>5. ASSUME NEW c \in Controllers, NEW r \in RequestIds, NEW w \in Workloads,
             NEW g \in 0 .. MaxVersion, Withdraw(c, r, w, g)
      PROVE OtherRecorded
  <2> DEFINE request == [action |-> "withdraw", workload |-> w, expected |-> g]
  <2>1. /\ request \in Request /\ request.action = "withdraw"
        /\ placements[w].generation \in Nat
    BY DEF Request, PlacementRequest, TypeOK, PlacementRow
  <2>2. /\ Record(c, r, request, placements[w].generation) /\ UNCHANGED instances
        /\ placements' = [placements EXCEPT ![w].published = FALSE]
    BY <1>5 DEF Withdraw
  <2> HIDE DEF request
  <2> QED BY <1>3, <2>1, <2>2
<1>6. ASSUME NEW c \in Controllers, NEW r \in RequestIds, NEW w \in Workloads,
             NEW h \in Hosts, NEW g \in 0 .. MaxVersion, NEW e \in Evidences,
             Fence(c, r, w, g, h, e)
      PROVE OtherRecorded
  <2> DEFINE request == [action |-> "fence", workload |-> w, generation |-> g,
                         host |-> h, evidence |-> e]
  <2>1. request \in Request /\ request.action = "fence" /\ g \in Nat
    BY DEF Request, FenceRequest
  <2>2. Record(c, r, request, g) /\ UNCHANGED <<placements, instances>>
    BY <1>6 DEF Fence
  <2>3. placements[w].published \in BOOLEAN
    BY DEF TypeOK, PlacementRow
  <2> HIDE DEF request
  <2> QED BY <1>3, <2>1, <2>2, <2>3
<1>7. ASSUME NEW c \in Controllers, NEW r \in RequestIds, NEW w \in Workloads,
             NEW o \in OperationIds, NEW h \in Hosts, NEW g \in 0 .. MaxVersion,
             NEW step \in Steps, PostOperation(c, r, o, w, h, g, step)
      PROVE OtherRecorded
  <2> DEFINE request == [action |-> "operation", operation |-> o, workload |-> w,
                         host |-> h, generation |-> g, step |-> step]
  <2>1. /\ request \in Request /\ request.action = "operation"
        /\ operationSequence + 1 \in Nat
    BY DEF Request, OperationRequest, TypeOK
  <2>2. Record(c, r, request, operationSequence + 1) /\ UNCHANGED <<placements, instances>>
    BY <1>7 DEF PostOperation
  <2>3. placements[w].published \in BOOLEAN
    BY DEF TypeOK, PlacementRow
  <2> HIDE DEF request
  <2> QED BY <1>3, <2>1, <2>2, <2>3
<1> QED BY <1>1, <1>2, <1>4, <1>5, <1>6, <1>7 DEF Next, ControllerCall

AttributedInv == Attributed /\ ReceiptsInRange

LEMMA AttributedStep ==
    ASSUME TypeOK, TypeOK', AttributedInv, [Next]_vars
    PROVE  AttributedInv'
<1> USE NoneAssumption
<1>1. /\ \A i \in Instances : instances[i] # None =>
           \E r \in RequestIds :
             IsAssign(requests[r], instances[i].workload, i, instances[i].generation)
      /\ \A r, q \in RequestIds : \A w, i, j, n :
           IsAssign(requests[r], w, i, n) /\ IsAssign(requests[q], w, j, n) => r = q
      /\ \A w \in Workloads : placements[w].published =>
           \E r \in RequestIds : IsPublish(requests[r], w, placements[w].generation)
  BY DEF AttributedInv, Attributed, IsAssign, IsPublish
<1>2. SUFFICES
        /\ \A i \in Instances : instances'[i] # None =>
           \E r \in RequestIds :
             IsAssign(requests'[r], instances'[i].workload, i, instances'[i].generation)
        /\ \A r, q \in RequestIds : \A w, i, j, n :
             IsAssign(requests'[r], w, i, n) /\ IsAssign(requests'[q], w, j, n) => r = q
        /\ \A w \in Workloads : placements'[w].published =>
             \E r \in RequestIds : IsPublish(requests'[r], w, placements'[w].generation)
        /\ ReceiptsInRange'
  BY DEF AttributedInv, Attributed, IsAssign, IsPublish
<1>3. CASE QuietStep
  BY <1>1, <1>3 DEF QuietStep, IsAssign, IsPublish, AttributedInv, ReceiptsInRange
<1>4. ASSUME RequestsKept, NEW r \in RequestIds
      PROVE  /\ \A w, i, n : IsAssign(requests[r], w, i, n) => IsAssign(requests'[r], w, i, n)
             /\ \A w, n : IsPublish(requests[r], w, n) => IsPublish(requests'[r], w, n)
  BY <1>4 DEF RequestsKept, IsAssign, IsPublish
<1>5. CASE AssignRecorded
  <2>1. PICK r \in RequestIds, w \in Workloads, i \in Instances :
          /\ requests[r] = None /\ instances[i] = None
          /\ IsAssign(requests'[r], w, i, placements[w].generation + 1)
          /\ \A q \in RequestIds \ {r} : requests'[q] = requests[q]
          /\ instances'[i] # None /\ instances'[i].workload = w
          /\ instances'[i].generation = placements[w].generation + 1
          /\ \A j \in Instances \ {i} : instances'[j] = instances[j]
          /\ placements'[w].generation = placements[w].generation + 1
          /\ ~placements'[w].published
          /\ \A x \in Workloads \ {w} : placements'[x] = placements[x]
    BY <1>5 DEF AssignRecorded
  <2>2. RequestsKept
    BY <2>1 DEF RequestsKept
  <2>3. \A j \in Instances : instances'[j] # None =>
           \E q \in RequestIds :
             IsAssign(requests'[q], instances'[j].workload, j, instances'[j].generation)
    <3> TAKE j \in Instances
    <3>1. CASE j = i
      <4>1. IsAssign(requests'[r], w, i, instances'[i].generation) <=>
            IsAssign(requests'[r], w, i, placements[w].generation + 1)
        BY <2>1 DEF IsAssign
      <4> QED BY <2>1, <3>1, <4>1 DEF IsAssign
    <3>2. CASE j # i
      BY <1>1, <1>4, <2>1, <2>2, <3>2 DEF IsAssign
    <3> QED BY <3>1, <3>2
  <2>4. \A q \in RequestIds : \A x, k, n : IsAssign(requests'[q], x, k, n) =>
           \/ q = r /\ x = w /\ n = placements[w].generation + 1
           \/ q # r /\ IsAssign(requests[q], x, k, n)
    BY <2>1 DEF IsAssign
  <2>5. \A q \in RequestIds : \A k, n : IsAssign(requests[q], w, k, n) =>
           n # placements[w].generation + 1
    <3>1. placements[w].generation \in Nat
      BY DEF TypeOK, PlacementRow
    <3> QED BY <3>1 DEF AttributedInv, ReceiptsInRange, IsAssign
  <2>6. \A p, q \in RequestIds : \A x, j, k, n :
           IsAssign(requests'[p], x, j, n) /\ IsAssign(requests'[q], x, k, n) => p = q
    <3>1. SUFFICES ASSUME NEW p \in RequestIds, NEW q \in RequestIds,
                          NEW x, NEW j, NEW k, NEW n,
                          IsAssign(requests'[p], x, j, n),
                          IsAssign(requests'[q], x, k, n)
                   PROVE  p = q
      OBVIOUS
    <3>2. /\ \/ p = r /\ x = w /\ n = placements[w].generation + 1
             \/ p # r /\ IsAssign(requests[p], x, j, n)
          /\ \/ q = r /\ x = w /\ n = placements[w].generation + 1
             \/ q # r /\ IsAssign(requests[q], x, k, n)
      BY <2>4, <3>1
    <3>3. CASE p = r \/ q = r
      BY <2>5, <3>2, <3>3
    <3>4. CASE p # r /\ q # r
      BY <1>1, <3>2, <3>4
    <3> QED BY <3>3, <3>4
  <2>7. \A x \in Workloads : placements'[x].published =>
           \E q \in RequestIds : IsPublish(requests'[q], x, placements'[x].generation)
    BY <1>1, <1>4, <2>1, <2>2 DEF IsPublish
  <2>8. ReceiptsInRange'
    <3>1. \A x \in Workloads : /\ placements[x].generation \in Nat
                               /\ placements'[x].generation \in Nat
                               /\ placements[x].generation <= placements'[x].generation
      BY <2>1 DEF TypeOK, PlacementRow
    <3> QED BY <2>1, <3>1 DEF AttributedInv, ReceiptsInRange, IsAssign
  <2> QED BY <2>3, <2>6, <2>7, <2>8
<1>6. CASE OtherRecorded
  <2>1. PICK r \in RequestIds, w \in Workloads :
          /\ requests[r] = None
          /\ requests'[r] # None /\ requests'[r].request.action # "assign"
          /\ \A q \in RequestIds \ {r} : requests'[q] = requests[q]
          /\ UNCHANGED instances
          /\ placements'[w].generation = placements[w].generation
          /\ placements'[w].published =>
                \/ placements[w].published
                \/ IsPublish(requests'[r], w, placements[w].generation)
          /\ \A x \in Workloads \ {w} : placements'[x] = placements[x]
    BY <1>6 DEF OtherRecorded
  <2>2. RequestsKept
    BY <2>1 DEF RequestsKept
  <2>3. \A j \in Instances : instances'[j] # None =>
           \E q \in RequestIds :
             IsAssign(requests'[q], instances'[j].workload, j, instances'[j].generation)
    BY <1>1, <1>4, <2>1, <2>2 DEF IsAssign
  <2>4. \A q \in RequestIds : \A x, k, n : IsAssign(requests'[q], x, k, n) => IsAssign(requests[q], x, k, n)
    BY <2>1 DEF IsAssign
  <2>5. \A x \in Workloads : placements'[x].published =>
           \E q \in RequestIds : IsPublish(requests'[q], x, placements'[x].generation)
    BY <1>1, <1>4, <2>1, <2>2 DEF IsPublish
  <2>6. ReceiptsInRange'
    <3>1. \A x \in Workloads : placements'[x].generation = placements[x].generation
      BY <2>1
    <3> QED BY <2>1, <3>1 DEF AttributedInv, ReceiptsInRange
  <2>7. \A p, q \in RequestIds : \A x, j, k, n :
           IsAssign(requests'[p], x, j, n) /\ IsAssign(requests'[q], x, k, n) => p = q
    <3> SUFFICES ASSUME NEW p \in RequestIds, NEW q \in RequestIds, NEW x, NEW j, NEW k, NEW n,
                        IsAssign(requests'[p], x, j, n), IsAssign(requests'[q], x, k, n)
                 PROVE  p = q
      OBVIOUS
    <3>1. IsAssign(requests[p], x, j, n)
      BY <2>4
    <3>2. IsAssign(requests[q], x, k, n)
      BY <2>4
    <3> QED BY <1>1, <3>1, <3>2
  <2> QED BY <2>3, <2>5, <2>6, <2>7
<1> QED BY <1>3, <1>5, <1>6, RequestSteps

(* Every instance of a workload was made by exactly one recorded assign,   *)
(* and every published placement by a recorded publish of its generation   *)
(* (_record_request, _request_replay).                                     *)
THEOREM AttributedHolds == Spec => []Attributed
<1>1. Init => AttributedInv
  BY DEF Init, AttributedInv, Attributed, ReceiptsInRange, NotPlaced
<1>2. TypeOK /\ TypeOK' /\ AttributedInv /\ [Next]_vars => AttributedInv'
  BY AttributedStep
<1>3. AttributedInv => Attributed
  BY DEF AttributedInv
<1> QED BY <1>1, <1>2, <1>3, TypeCorrect, PTL DEF Spec

-----------------------------------------------------------------------------
(* Operations: a row is posted, claimed and finished, and never again.     *)

Posted == \E o \in OperationIds, h \in Hosts :
    /\ operations[o] = None /\ QueueOpen(h)
    /\ operations'[o] # None
    /\ operations'[o].host = h
    /\ operations'[o].status = "pending"
    /\ operations'[o].claim = None /\ operations'[o].final = None
    /\ \A p \in OperationIds \ {o} : operations'[p] = operations[p]

Claimed == \E o \in OperationIds :
    /\ operations[o] # None /\ operations'[o] # None
    /\ operations[o].status = "pending" /\ operations'[o].status = "claimed"
    /\ operations'[o].host = operations[o].host
    /\ operations'[o].final = operations[o].final
    /\ \A p \in OperationIds \ {o} : operations'[p] = operations[p]

Finished == \E o \in OperationIds :
    /\ operations[o] # None /\ operations'[o] # None
    /\ operations[o].status = "claimed" /\ operations'[o].status \in Outcomes
    /\ operations[o].final = None
    /\ operations'[o].host = operations[o].host
    /\ operations'[o].claim = operations[o].claim
    /\ \A p \in OperationIds \ {o} : operations'[p] = operations[p]

LEMMA OperationSteps ==
    ASSUME TypeOK, [Next]_vars
    PROVE  operations' = operations \/ Posted \/ Claimed \/ Finished
<1> USE RegistryAssumption, NoneAssumption
<1>1. CASE UNCHANGED vars \/ ReadClock \/ Environment
  BY <1>1 DEF vars, ReadClock, Environment, Tick, SetClock, Restart
<1>2. ASSUME NEW h \in Hosts, OpenSession(h) PROVE operations' = operations
  BY <1>2 DEF OpenSession
<1>3. ASSUME NEW h \in Hosts, NEW i \in Instances, NEW p \in Samples,
             NEW at \in 0 .. MaxTime, NEW s \in 1 .. MaxVersion,
             NEW n \in 1 .. MaxSequence, Observe(h, i, p, at, s, n)
      PROVE operations' = operations
  BY <1>3 DEF Observe
<1>4. \A o \in OperationIds : operations[o] # None => operations[o] \in OperationRow
  BY DEF TypeOK
<1>5. ASSUME NEW h \in Hosts, NEW o \in OperationIds, NEW q \in ReceiptIds,
             Claim(h, o, q)
      PROVE Claimed
  <2> DEFINE a == [operations[o] EXCEPT !.status = "claimed", !.claim = q]
  <2>1. /\ operations[o] # None /\ operations[o].status = "pending"
        /\ operations' = [operations EXCEPT ![o] = a]
    BY <1>5 DEF Claim
  <2>2. /\ a \in OperationRow /\ a.status = "claimed"
        /\ a.host = operations[o].host /\ a.final = operations[o].final
    <3>1. operations[o] \in OperationRow
      BY <1>4, <2>1
    <3> QED BY <3>1 DEF OperationRow
  <2> HIDE DEF a
  <2> QED BY <2>1, <2>2 DEF Claimed, TypeOK
<1>6. ASSUME NEW h \in Hosts, NEW o \in OperationIds, NEW q \in ReceiptIds,
             NEW outcome \in Outcomes, Finish(h, o, q, outcome)
      PROVE Finished
  <2> DEFINE a == [operations[o] EXCEPT !.status = outcome, !.final = q]
  <2>1. /\ operations[o] # None /\ operations[o].status = "claimed"
        /\ operations[o].final = None
        /\ operations' = [operations EXCEPT ![o] = a]
    BY <1>6 DEF Finish
  <2>2. /\ a \in OperationRow /\ a.status = outcome
        /\ a.host = operations[o].host /\ a.claim = operations[o].claim
    <3>1. operations[o] \in OperationRow
      BY <1>4, <2>1
    <3> QED BY <3>1 DEF OperationRow, Outcomes
  <2> HIDE DEF a
  <2> QED BY <2>1, <2>2 DEF Finished, TypeOK
<1>7. ASSUME NEW c \in Controllers, NEW r \in RequestIds, NEW w \in Workloads,
             \/ \E v \in Revisions, h \in Hosts, i \in Instances, g \in 0 .. MaxVersion :
                  Assign(c, r, w, v, h, i, g)
             \/ \E g \in 0 .. MaxVersion : Publish(c, r, w, g) \/ Withdraw(c, r, w, g)
             \/ \E h \in Hosts, g \in 0 .. MaxVersion, e \in Evidences :
                  Fence(c, r, w, g, h, e)
      PROVE operations' = operations
  BY <1>7 DEF Assign, Publish, Withdraw, Fence
<1>8. ASSUME NEW c \in Controllers, NEW r \in RequestIds, NEW w \in Workloads,
             NEW o \in OperationIds, NEW h \in Hosts, NEW g \in 0 .. MaxVersion,
             NEW step \in Steps, PostOperation(c, r, o, w, h, g, step)
      PROVE Posted
  <2> DEFINE a == [seq |-> operationSequence + 1, host |-> h, workload |-> w,
                   generation |-> g, step |-> step, request |-> r,
                   status |-> "pending", claim |-> None, final |-> None]
  <2>1. /\ operations[o] = None /\ QueueOpen(h)
        /\ operations' = [operations EXCEPT ![o] = a]
    BY <1>8 DEF PostOperation
  <2>2. /\ a \in OperationRow /\ a.host = h /\ a.status = "pending"
        /\ a.claim = None /\ a.final = None
    BY DEF OperationRow, TypeOK
  <2> HIDE DEF a
  <2> QED BY <2>1, <2>2 DEF Posted, TypeOK
<1> QED BY <1>1, <1>2, <1>3, <1>5, <1>6, <1>7, <1>8 DEF Next, HostCall, ControllerCall

-----------------------------------------------------------------------------
(* The limit on outstanding operations.                                    *)

OutstandingIn(t, h) == {o \in OperationIds :
    t[o] # None /\ t[o].host = h /\ t[o].status \in {"pending", "claimed"}}

Bounded(t) == \A h \in Hosts : /\ IsFiniteSet(OutstandingIn(t, h))
                               /\ Cardinality(OutstandingIn(t, h)) <= QueueMax

LEMMA BoundedStep == TypeOK /\ Bounded(operations) /\ [Next]_vars => Bounded(operations')
<1> SUFFICES ASSUME TypeOK, Bounded(operations), [Next]_vars, NEW h \in Hosts
             PROVE  /\ IsFiniteSet(OutstandingIn(operations', h))
                    /\ Cardinality(OutstandingIn(operations', h)) <= QueueMax
  BY DEF Bounded
<1> DEFINE old == OutstandingIn(operations, h)
           new == OutstandingIn(operations', h)
<1>1. IsFiniteSet(old) /\ Cardinality(old) \in Nat /\ Cardinality(old) <= QueueMax
  BY FS_CardinalityType DEF Bounded
<1>2. ASSUME new \in SUBSET old
      PROVE  IsFiniteSet(new) /\ Cardinality(new) <= QueueMax
  <2>1. IsFiniteSet(new) /\ Cardinality(new) <= Cardinality(old)
    BY <1>1, <1>2, FS_Subset
  <2>2. Cardinality(new) \in Nat
    BY <2>1, FS_CardinalityType
  <2> HIDE DEF old, new
  <2> QED BY <1>1, <2>1, <2>2, RegistryAssumption
<1>3. CASE operations' = operations
  BY <1>1, <1>3
<1>4. CASE Claimed \/ Finished
  <2>1. new \in SUBSET old
    BY <1>4 DEF Claimed, Finished, Outcomes, OutstandingIn
  <2> QED BY <1>2, <2>1
<1>5. CASE Posted
  <2>1. PICK o \in OperationIds, x \in Hosts :
          /\ operations[o] = None /\ QueueOpen(x)
          /\ operations'[o] # None
          /\ operations'[o].host = x
          /\ operations'[o].status = "pending"
          /\ \A p \in OperationIds \ {o} : operations'[p] = operations[p]
    BY <1>5 DEF Posted
  <2>2. CASE x # h
    <3>1. new \in SUBSET old
      BY <2>1, <2>2 DEF OutstandingIn
    <3> QED BY <1>2, <3>1
  <2>3. CASE x = h
    <3>1. new = old \cup {o} /\ o \notin old
      BY <2>1, <2>3 DEF OutstandingIn
    <3>2. old = Outstanding(h)
      BY DEF Outstanding, OutstandingIn
    <3>3. Cardinality(old) < QueueMax
      BY <2>1, <2>3, <3>2 DEF QueueOpen
    <3> HIDE DEF old, new
    <3>4. IsFiniteSet(new) /\ Cardinality(new) = Cardinality(old) + 1
      BY <1>1, <3>1, FS_AddElement
    <3>5. Cardinality(new) <= QueueMax
      BY <1>1, <3>3, <3>4, RegistryAssumption
    <3> QED BY <3>4, <3>5 DEF new
  <2> QED BY <2>2, <2>3
<1> QED BY <1>3, <1>4, <1>5, OperationSteps

(* No interleaving of posts, claims and outcomes puts more than            *)
(* _OPERATION_PENDING_MAX operations on a host (post_operation).           *)
THEOREM QueueBoundHolds == Spec => []QueueBound
<1> DEFINE Inv == Bounded(operations)
<1>1. Init => Inv
  <2> SUFFICES ASSUME Init PROVE Bounded(operations)
    OBVIOUS
  <2>1. \A h \in Hosts : OutstandingIn(operations, h) = {}
    BY DEF Init, OutstandingIn
  <2>2. IsFiniteSet({}) /\ Cardinality({}) <= QueueMax
    BY FS_EmptySet, RegistryAssumption
  <2> QED BY <2>1, <2>2 DEF Bounded
<1>2. TypeOK /\ Inv /\ [Next]_vars => Inv'
  BY BoundedStep
<1>3. Inv => QueueBound
  BY DEF Bounded, OutstandingIn, QueueBound, Outstanding
<1> HIDE DEF Inv
<1> QED BY <1>1, <1>2, <1>3, TypeCorrect, PTL DEF Spec

-----------------------------------------------------------------------------
(* What is written stays written.                                          *)

Unclaimed == \A o \in OperationIds :
    operations[o] # None /\ operations[o].status = "pending" =>
        operations[o].claim = None /\ operations[o].final = None

LEMMA UnclaimedStep == TypeOK /\ Unclaimed /\ [Next]_vars => Unclaimed'
<1> SUFFICES ASSUME TypeOK, Unclaimed, [Next]_vars PROVE Unclaimed'
  OBVIOUS
<1>1. CASE operations' = operations
  BY <1>1 DEF Unclaimed
<1>2. CASE Posted
  BY <1>2 DEF Posted, Unclaimed
<1>3. CASE Claimed \/ Finished
  BY <1>3 DEF Claimed, Finished, Outcomes, Unclaimed
<1> QED BY <1>1, <1>2, <1>3, OperationSteps

LEMMA RowsStay == TypeOK /\ [Next]_vars =>
    /\ RowsKept
    /\ \A i \in Instances : observations[i] # None => observations'[i] # None
<1> SUFFICES ASSUME TypeOK, [Next]_vars
             PROVE  /\ RowsKept
                    /\ \A i \in Instances : observations[i] # None => observations'[i] # None
  OBVIOUS
<1>1. CASE OpenStep \/ RestartStep \/ OtherStep
  BY <1>1 DEF OpenStep, RestartStep, OtherStep, RowsKept
<1>2. CASE ObserveStep
  BY <1>2, NoneAssumption DEF ObserveStep, RowsKept, TypeOK
<1> QED BY <1>1, <1>2, ClockSteps

LEMMA TablesGrow == TypeOK /\ [Next]_vars =>
    /\ RequestsKept
    /\ \A w \in Workloads : placements'[w].generation \in
           {placements[w].generation, placements[w].generation + 1}
<1> SUFFICES ASSUME TypeOK, [Next]_vars
             PROVE  /\ RequestsKept
                    /\ \A w \in Workloads : placements'[w].generation \in
                         {placements[w].generation, placements[w].generation + 1}
  OBVIOUS
<1>1. CASE QuietStep
  BY <1>1 DEF QuietStep, RequestsKept
<1>2. CASE AssignRecorded
  BY <1>2 DEF AssignRecorded, RequestsKept
<1>3. CASE OtherRecorded
  BY <1>3 DEF OtherRecorded, RequestsKept
<1> QED BY <1>1, <1>2, <1>3, RequestSteps

\* Every write takes the next version (meta.version); nothing else moves it.
Written == version' = version + 1

Unwritten ==
    UNCHANGED <<version, operationSequence, placements, instances, sessions,
                observations, fences, requests, operations>>

LEMMA VersionSteps == ASSUME [Next]_vars PROVE Written \/ Unwritten
<1>1. CASE UNCHANGED vars \/ ReadClock \/ Environment
  BY <1>1 DEF vars, ReadClock, Environment, Tick, SetClock, Restart, Unwritten
<1>2. ASSUME NEW h \in Hosts, OpenSession(h) PROVE Written
  BY <1>2 DEF OpenSession, Bump, Written
<1>3. ASSUME NEW h \in Hosts, NEW i \in Instances, NEW p \in Samples,
             NEW at \in 0 .. MaxTime, NEW s \in 1 .. MaxVersion,
             NEW n \in 1 .. MaxSequence, Observe(h, i, p, at, s, n)
      PROVE Written
  BY <1>3 DEF Observe, Bump, Written
<1>4. ASSUME NEW h \in Hosts, NEW o \in OperationIds, NEW q \in ReceiptIds,
             Claim(h, o, q) \/ \E outcome \in Outcomes : Finish(h, o, q, outcome)
      PROVE Written
  BY <1>4 DEF Claim, Finish, Bump, Written
<1>5. ASSUME NEW c \in Controllers, NEW r \in RequestIds, NEW w \in Workloads,
             NEW v \in Revisions, NEW h \in Hosts, NEW i \in Instances,
             NEW g \in 0 .. MaxVersion, Assign(c, r, w, v, h, i, g)
      PROVE Written
  BY <1>5 DEF Assign, Record, Bump, Written
<1>6. ASSUME NEW c \in Controllers, NEW r \in RequestIds, NEW w \in Workloads,
             NEW g \in 0 .. MaxVersion, Publish(c, r, w, g) \/ Withdraw(c, r, w, g)
      PROVE Written
  BY <1>6 DEF Publish, Withdraw, Record, Bump, Written
<1>7. ASSUME NEW c \in Controllers, NEW r \in RequestIds, NEW w \in Workloads,
             NEW h \in Hosts, NEW g \in 0 .. MaxVersion, NEW e \in Evidences,
             Fence(c, r, w, g, h, e)
      PROVE Written
  BY <1>7 DEF Fence, Record, Bump, Written
<1>8. ASSUME NEW c \in Controllers, NEW r \in RequestIds, NEW w \in Workloads,
             NEW o \in OperationIds, NEW h \in Hosts, NEW g \in 0 .. MaxVersion,
             NEW step \in Steps, PostOperation(c, r, o, w, h, g, step)
      PROVE Written
  BY <1>8 DEF PostOperation, Record, Bump, Written
<1> QED BY <1>1, <1>2, <1>3, <1>4, <1>5, <1>6, <1>7, <1>8
        DEF Next, HostCall, ControllerCall

(* Fences, instances, requests, claims and outcomes are decided once: no   *)
(* call, retry or restart rewrites one (the INSERTs of registry.py and the *)
(* status checks of operation_receipt).  The version never goes back, and  *)
(* no table changes without it.                                            *)
THEOREM FinalHolds == Spec => Final
<1> DEFINE A ==
       /\ version <= version'
       /\ version' = version =>
            UNCHANGED <<operationSequence, placements, instances, sessions,
                        observations, fences, requests, operations>>
       /\ fences \subseteq fences'
       /\ \A i \in Instances : instances[i] # None => instances'[i] = instances[i]
       /\ \A r \in RequestIds : requests[r] # None => requests'[r] = requests[r]
       /\ \A w \in Workloads :
            placements'[w].generation \in
              {placements[w].generation, placements[w].generation + 1}
       /\ \A o \in OperationIds : operations[o] # None =>
            /\ operations'[o] # None
            /\ operations[o].claim # None =>
                 operations'[o].claim = operations[o].claim
            /\ operations[o].final # None => operations'[o] = operations[o]
<1>1. TypeOK /\ Unclaimed /\ [Next]_vars => A
  <2> SUFFICES ASSUME TypeOK, Unclaimed, [Next]_vars PROVE A
    OBVIOUS
  <2>1. fences \subseteq fences'
    BY StepKinds DEF FenceStep
  <2>2. \A i \in Instances : instances[i] # None => instances'[i] = instances[i]
    BY RowsStay DEF RowsKept
  <2>3. /\ \A r \in RequestIds : requests[r] # None => requests'[r] = requests[r]
        /\ \A w \in Workloads :
            placements'[w].generation \in
              {placements[w].generation, placements[w].generation + 1}
    BY TablesGrow DEF RequestsKept
  <2>4. ASSUME NEW o \in OperationIds, operations[o] # None
        PROVE  /\ operations'[o] # None
               /\ operations[o].claim # None =>
                    operations'[o].claim = operations[o].claim
               /\ operations[o].final # None => operations'[o] = operations[o]
    <3>1. CASE operations' = operations
      BY <2>4, <3>1
    <3>2. CASE Posted
      BY <2>4, <3>2 DEF Posted
    <3>3. CASE Claimed
      BY <2>4, <3>3 DEF Claimed, Unclaimed
    <3>4. CASE Finished
      BY <2>4, <3>4 DEF Finished
    <3> QED BY <3>1, <3>2, <3>3, <3>4, OperationSteps
  <2>5. /\ version <= version'
        /\ version' = version =>
             UNCHANGED <<operationSequence, placements, instances, sessions,
                         observations, fences, requests, operations>>
    BY VersionSteps DEF Written, Unwritten, TypeOK
  <2> QED BY <2>1, <2>2, <2>3, <2>4, <2>5
<1>2. Init => Unclaimed
  BY DEF Init, Unclaimed
<1>3. Spec => [][A]_vars
  <2> HIDE DEF A
  <2> QED BY <1>1, <1>2, UnclaimedStep, TypeCorrect, PTL DEF Spec
<1> QED BY <1>3 DEF Final

-----------------------------------------------------------------------------
(* Dependencies.                                                           *)

Reported(d) == \E i \in Instances : /\ instances[i] # None
                                    /\ instances[i].workload = d
                                    /\ observations[i] # None

LEMMA DependenciesStep ==
    RegistryInv /\ RegistryInv' /\ DependenciesPlaced /\ [Next]_vars => DependenciesPlaced'
<1> SUFFICES ASSUME RegistryInv, RegistryInv', DependenciesPlaced, [Next]_vars
             PROVE  DependenciesPlaced'
  OBVIOUS
<1> USE RegistryAssumption, NoneAssumption
<1>1. TypeOK /\ Lineage /\ Sealed
  BY DEF RegistryInv
<1>2. /\ RowsKept
      /\ \A i \in Instances : observations[i] # None => observations'[i] # None
  BY <1>1, RowsStay
<1>3. \A d \in Workloads : Placed(d) => Placed(d)'
  BY <1>1, TablesGrow DEF TypeOK, PlacementRow, Placed
<1>4. \A d : Reported(d) => Reported(d)'
  BY <1>2 DEF Reported, RowsKept
<1>5. \A w \in Workloads : Placed(w) => /\ Incumbent(w) \in Instances
                                        /\ instances[Incumbent(w)] # None
                                        /\ instances[Incumbent(w)].workload = w
                                        /\ instances[Incumbent(w)] \in InstanceRow
  BY <1>1 DEF Lineage, TypeOK, PlacementRow, Incumbent
<1>6. SUFFICES ASSUME NEW w \in Workloads, Placed(w)',
                      NEW d \in Dependencies[<<w, instances'[placements'[w].instance].revision>>]
               PROVE  Placed(d)' /\ Reported(d)'
  BY DEF DependenciesPlaced, Reported, Incumbent
<1>7. ASSUME Placed(w), placements'[w].instance = placements[w].instance
      PROVE Placed(d)' /\ Reported(d)'
  <2>1. instances'[placements'[w].instance] = instances[Incumbent(w)]
    BY <1>2, <1>5, <1>7 DEF RowsKept, Incumbent
  <2>2. <<w, instances[Incumbent(w)].revision>> \in Definitions
    BY <1>1, <1>5, <1>7 DEF Sealed
  <2>3. d \in Workloads
    BY <1>6, <2>1, <2>2
  <2>4. Placed(d) /\ Reported(d)
    BY <1>6, <1>7, <2>1 DEF DependenciesPlaced, Reported
  <2> QED BY <1>3, <1>4, <2>3, <2>4
<1>8. CASE SameLineage
  <2>1. Placed(w) /\ placements'[w].instance = placements[w].instance
    BY <1>6, <1>8 DEF SameLineage, Placed
  <2> QED BY <1>7, <2>1
<1>9. CASE AssignStep
  <2>1. PICK x \in Workloads, v \in Revisions, h \in Hosts, i \in Instances :
          /\ <<x, v>> \in Definitions
          /\ DependenciesReady(x, v, wall)
          /\ instances' = [instances EXCEPT ![i] =
                 [workload |-> x, revision |-> v, host |-> h,
                  generation |-> placements[x].generation + 1]]
          /\ placements' = [placements EXCEPT ![x] =
                 [generation |-> placements[x].generation + 1, instance |-> i,
                  published |-> FALSE]]
    BY <1>9 DEF AssignStep
  <2>2. CASE w # x
    <3>1. placements'[w] = placements[w]
      BY <1>1, <2>1, <2>2 DEF TypeOK
    <3> QED BY <1>6, <1>7, <3>1 DEF Placed
  <2>3. CASE w = x
    <3>1. placements'[w].instance = i /\ instances'[i].revision = v
      BY <1>1, <2>1, <2>3 DEF TypeOK
    <3>2. d \in Dependencies[<<w, v>>] /\ <<w, v>> \in Definitions
      BY <1>6, <2>1, <2>3, <3>1
    <3>3. d \in Workloads
      BY <3>2
    <3>4. Placed(d) /\ observations[Incumbent(d)] # None
      BY <2>1, <2>3, <3>2 DEF DependenciesReady, Ready, Fresh
    <3>5. Reported(d)
      BY <1>5, <3>3, <3>4 DEF Reported
    <3> QED BY <1>3, <1>4, <3>3, <3>4, <3>5
  <2> QED BY <2>2, <2>3
<1> QED BY <1>1, <1>8, <1>9, StepKinds

(* A workload never stands without its dependencies: the gate of assign    *)
(* (_dependencies_ready) saw each of them placed and reported, and neither *)
(* a placement nor an observation is ever removed.                         *)
THEOREM DependenciesPlacedHolds == Spec => []DependenciesPlaced
<1>1. Init => DependenciesPlaced
  BY DEF Init, DependenciesPlaced, Placed, NotPlaced
<1> QED BY <1>1, DependenciesStep, RegistryInvariant, PTL DEF Spec

-----------------------------------------------------------------------------
(* What a handover rests on.                                               *)

\* The reporter session a row names is the one its host opened: a token is
\* never used twice.
SessionRows == \A i \in Instances :
    LET session == sessions[instances[i].host] IN
    observations[i] # None /\ observations[i].session = session.session =>
      /\ observations[i].epoch = session.epoch
      /\ observations[i].sequence <= session.sequence

LEMMA SessionRowsStep ==
    TypeOK /\ Past /\ SessionRows /\ [Next]_vars => SessionRows'
<1> SUFFICES ASSUME TypeOK, Past, SessionRows, [Next]_vars PROVE SessionRows'
  OBVIOUS
<1> USE NoneAssumption DEF SessionRow, ObservationRow, InstanceRow
<1>1. \A i \in Instances : observations[i] # None =>
        /\ instances[i] # None /\ instances[i].host \in Hosts
        /\ observations[i] \in ObservationRow
        /\ observations[i].session <= sessions[instances[i].host].session
  BY DEF Past, TypeOK
<1>2. CASE OpenStep
  <2>1. PICK h \in Hosts :
          /\ sessions' = [sessions EXCEPT ![h] =
                 [session |-> version', epoch |-> epoch, sequence |-> 0]]
          /\ version' = version + 1
          /\ UNCHANGED <<instances, observations>>
    BY <1>2 DEF OpenStep
  <2>2. \A k \in Hosts : sessions[k].session \in Nat /\ sessions[k].session <= version
    BY DEF Past, TypeOK
  <2>3. /\ sessions'[h].session = version + 1
        /\ \A k \in Hosts \ {h} : sessions'[k] = sessions[k]
    BY <2>1 DEF TypeOK
  <2>4. version \in Nat
    BY DEF TypeOK
  <2>5. ASSUME NEW i \in Instances, observations[i] # None,
               observations[i].session = sessions'[instances[i].host].session
        PROVE  instances[i].host # h
    BY <1>1, <2>2, <2>3, <2>4, <2>5
  <2> QED BY <1>1, <2>1, <2>3, <2>5 DEF SessionRows
<1>3. CASE ObserveStep
  <2>1. PICK h \in Hosts, i \in Instances, at \in Nat, n \in Nat,
             row \in ObservationRow :
          /\ row.epoch = epoch
          /\ row.session = sessions[h].session
          /\ row.observedAt = at
          /\ row.receivedMono = mono
          /\ at <= wall
          /\ sessions[h].epoch = epoch
          /\ n > sessions[h].sequence /\ row.sequence = n
          /\ instances[i] # None
          /\ instances[i].host = h
          /\ observations' = [observations EXCEPT ![i] = row]
          /\ sessions' = [sessions EXCEPT ![h].sequence = n]
          /\ lastWall' = wall
          /\ (lastWall # None => wall >= lastWall)
          /\ version' >= version
          /\ UNCHANGED <<mono, epoch, instances>>
    BY <1>3 DEF ObserveStep
  <2>2. /\ \A k \in Hosts : /\ sessions'[k].session = sessions[k].session
                            /\ sessions'[k].epoch = sessions[k].epoch
                            /\ sessions[k].sequence \in Nat
                            /\ sessions[k].sequence <= sessions'[k].sequence
        /\ sessions'[h].sequence = n
    BY <2>1 DEF TypeOK
  <2>3. ASSUME NEW j \in Instances, observations'[j] # None,
               observations'[j].session = sessions'[instances[j].host].session
        PROVE  /\ observations'[j].epoch = sessions'[instances[j].host].epoch
               /\ observations'[j].sequence <= sessions'[instances[j].host].sequence
    <3>1. CASE j = i
      BY <2>1, <2>2, <3>1 DEF TypeOK
    <3>2. CASE j # i
      <4>1. observations'[j] = observations[j]
        BY <2>1, <3>2 DEF TypeOK
      <4>2. instances[j].host \in Hosts /\ observations[j].sequence \in Nat
        BY <1>1, <2>3, <4>1
      <4>3. /\ observations[j].epoch = sessions[instances[j].host].epoch
            /\ observations[j].sequence <= sessions[instances[j].host].sequence
        BY <2>2, <2>3, <4>1, <4>2 DEF SessionRows
      <4>4. /\ sessions[instances[j].host].sequence \in Nat
            /\ sessions'[instances[j].host].sequence \in Nat
            /\ sessions[instances[j].host].sequence <= sessions'[instances[j].host].sequence
        BY <2>1, <2>2, <4>2 DEF TypeOK
      <4> QED BY <2>2, <4>1, <4>2, <4>3, <4>4
    <3> QED BY <3>1, <3>2
  <2> QED BY <2>1, <2>3 DEF SessionRows
<1>4. CASE RestartStep
  BY <1>4 DEF RestartStep, SessionRows
<1>5. CASE OtherStep
  <2>1. \A i \in Instances : observations[i] # None => instances'[i] = instances[i]
    BY <1>1, <1>5 DEF OtherStep, RowsKept
  <2> QED BY <1>5, <2>1 DEF OtherStep, SessionRows
<1> QED BY <1>2, <1>3, <1>4, <1>5, ClockSteps

\* What the gates call fresh at the clock reading is what SaidNow asks.
LEMMA FreshIsSaidNow ==
    ASSUME SessionRows, NEW i \in Instances, Fresh(i, wall)
    PROVE  SaidNow(i)
  BY DEF SessionRows, Fresh, WithinAge, SaidNow

LEMMA RestsStep ==
    ASSUME RegistryInv, SessionRows, [Next]_vars, NEW w \in Workloads
    PROVE  /\ SucceedsOnEvidence(w)
           /\ DependsOnEvidence(w)
           /\ Publication(w) => ServesNow(w)
<1> USE RegistryAssumption, NoneAssumption
<1>1. TypeOK /\ Lineage
  BY DEF RegistryInv
<1>2. \A x \in Workloads : Placed(x) => /\ Incumbent(x) \in Instances
                                        /\ instances[Incumbent(x)] # None
                                        /\ instances[Incumbent(x)].workload = x
                                        /\ instances[Incumbent(x)] \in InstanceRow
  BY <1>1 DEF Lineage, TypeOK, PlacementRow, Incumbent
<1>3. \A x \in Workloads :
        Placed(x) /\ Ready(Incumbent(x), RoutedServices(x), wall) => ServesNow(x)
  BY <1>2, FreshIsSaidNow DEF Ready, ServesNow
<1>4. ASSUME placements'[w].generation = placements[w].generation,
             placements'[w].published => placements[w].published
      PROVE  ~Handover(w) /\ ~Publication(w)
  BY <1>4 DEF Handover, Publication
<1>5. ASSUME UNCHANGED placements PROVE ~Handover(w) /\ ~Publication(w)
  BY <1>4, <1>5
<1>6. ASSUME NEW c \in Controllers, NEW r \in RequestIds, NEW x \in Workloads,
             NEW v \in Revisions, NEW h \in Hosts, NEW i \in Instances,
             NEW g \in 0 .. MaxVersion, Assign(c, r, x, v, h, i, g)
      PROVE  /\ SucceedsOnEvidence(w)
             /\ DependsOnEvidence(w)
             /\ Publication(w) => ServesNow(w)
  <2>1. /\ Replaceable(x) /\ DependenciesReady(x, v, wall) /\ <<x, v>> \in Definitions
        /\ instances' = [instances EXCEPT ![i] =
              [workload |-> x, revision |-> v, host |-> h,
               generation |-> placements[x].generation + 1]]
        /\ placements' = [placements EXCEPT ![x] =
              [generation |-> placements[x].generation + 1, instance |-> i,
               published |-> FALSE]]
    BY <1>6 DEF Assign
  <2>2. CASE w # x
    <3>1. placements'[w] = placements[w]
      BY <1>1, <2>1, <2>2 DEF TypeOK
    <3>2. ~Handover(w) /\ ~Publication(w)
      BY <1>4, <3>1
    <3> QED BY <3>2 DEF SucceedsOnEvidence, DependsOnEvidence
  <2>3. CASE w = x
    <3>1. /\ ~placements'[w].published
          /\ instances'[placements'[w].instance].revision = v
      BY <1>1, <2>1, <2>3 DEF TypeOK
    <3>2. SucceedsOnEvidence(w)
      <4>1. CASE Retired(Incumbent(w), wall) /\ Placed(w)
        BY <1>2, <4>1, FreshIsSaidNow DEF Retired, SucceedsOnEvidence
      <4>2. CASE ~Placed(w)
        BY <4>2 DEF SucceedsOnEvidence
      <4>3. CASE Fenced(w, placements[w].generation, instances[Incumbent(w)].host)
        BY <4>3 DEF Fenced, SucceedsOnEvidence
      <4> QED BY <2>1, <2>3, <4>1, <4>2, <4>3 DEF Replaceable
    <3>3. DependsOnEvidence(w)
      <4>1. \A d \in Dependencies[<<w, v>>] : d \in Workloads
        BY <2>1, <2>3
      <4> QED BY <1>3, <2>1, <2>3, <3>1, <4>1 DEF DependenciesReady, DependsOnEvidence
    <3> QED BY <3>1, <3>2, <3>3 DEF Publication
  <2> QED BY <2>2, <2>3
<1>7. ASSUME NEW c \in Controllers, NEW r \in RequestIds, NEW x \in Workloads,
             NEW g \in 0 .. MaxVersion, Publish(c, r, x, g)
      PROVE  /\ SucceedsOnEvidence(w)
             /\ DependsOnEvidence(w)
             /\ Publication(w) => ServesNow(w)
  <2>1. /\ Placed(x) /\ Ready(Incumbent(x), RoutedServices(x), wall)
        /\ DependenciesReady(x, instances[Incumbent(x)].revision, wall)
        /\ placements' = [placements EXCEPT ![x].published = TRUE]
        /\ UNCHANGED instances
    BY <1>7 DEF Publish
  <2>2. /\ placements'[w].generation = placements[w].generation
        /\ placements'[w].instance = placements[w].instance
        /\ w # x => placements'[w] = placements[w]
    BY <1>1, <2>1 DEF TypeOK, PlacementRow
  <2>3. SucceedsOnEvidence(w)
    BY <2>2 DEF SucceedsOnEvidence, Handover
  <2>4. CASE w # x
    BY <1>4, <2>2, <2>3, <2>4 DEF DependsOnEvidence
  <2>5. CASE w = x
    <3>1. <<w, instances[Incumbent(w)].revision>> \in Definitions
      BY <1>2, <2>1, <2>5 DEF RegistryInv, Sealed
    <3>2. \A d \in Dependencies[<<w, instances[Incumbent(w)].revision>>] : d \in Workloads
      BY <3>1
    <3>3. instances'[placements'[w].instance].revision = instances[Incumbent(w)].revision
      BY <2>1, <2>2 DEF Incumbent
    <3> QED BY <1>3, <2>1, <2>3, <2>5, <3>2, <3>3 DEF DependenciesReady, DependsOnEvidence
  <2> QED BY <2>4, <2>5
<1>8. ASSUME NEW c \in Controllers, NEW r \in RequestIds, NEW x \in Workloads,
             NEW g \in 0 .. MaxVersion, Withdraw(c, r, x, g)
      PROVE  ~Handover(w) /\ ~Publication(w)
  <2>1. placements' = [placements EXCEPT ![x].published = FALSE]
    BY <1>8 DEF Withdraw
  <2>2. /\ placements'[w].generation = placements[w].generation
        /\ placements'[w].published => placements[w].published
    BY <1>1, <2>1 DEF TypeOK, PlacementRow
  <2> QED BY <1>4, <2>2
<1>9. ASSUME \/ UNCHANGED vars \/ ReadClock \/ Environment \/ HostCall
             \/ \E c \in Controllers, r \in RequestIds, x \in Workloads, h \in Hosts,
                   g \in 0 .. MaxVersion :
                  \/ \E e \in Evidences : Fence(c, r, x, g, h, e)
                  \/ \E o \in OperationIds, step \in Steps :
                       PostOperation(c, r, o, x, h, g, step)
      PROVE  ~Handover(w) /\ ~Publication(w)
  <2>1. CASE UNCHANGED vars \/ ReadClock \/ Environment
    BY <1>5, <2>1 DEF vars, ReadClock, Environment, Tick, SetClock, Restart
  <2>2. CASE HostCall
    <3>1. ASSUME NEW h \in Hosts, NEW i \in Instances, NEW p \in Samples,
                 NEW at \in 0 .. MaxTime, NEW s \in 1 .. MaxVersion,
                 NEW n \in 1 .. MaxSequence, Observe(h, i, p, at, s, n)
          PROVE  UNCHANGED placements
      BY <3>1 DEF Observe
    <3>2. ASSUME NEW h \in Hosts, NEW o \in OperationIds, NEW q \in ReceiptIds,
                 Claim(h, o, q) \/ \E outcome \in Outcomes : Finish(h, o, q, outcome)
          PROVE  UNCHANGED placements
      BY <3>2 DEF Claim, Finish
    <3>3. ASSUME NEW h \in Hosts, OpenSession(h) PROVE UNCHANGED placements
      BY <3>3 DEF OpenSession
    <3> QED BY <1>5, <2>2, <3>1, <3>2, <3>3 DEF HostCall
  <2>3. ASSUME NEW c \in Controllers, NEW r \in RequestIds, NEW x \in Workloads,
               NEW h \in Hosts, NEW g \in 0 .. MaxVersion, NEW e \in Evidences,
               Fence(c, r, x, g, h, e)
        PROVE  UNCHANGED placements
    BY <2>3 DEF Fence
  <2>4. ASSUME NEW c \in Controllers, NEW r \in RequestIds, NEW x \in Workloads,
               NEW o \in OperationIds, NEW h \in Hosts, NEW g \in 0 .. MaxVersion,
               NEW step \in Steps, PostOperation(c, r, o, x, h, g, step)
        PROVE  UNCHANGED placements
    BY <2>4 DEF PostOperation
  <2> QED BY <1>5, <1>9, <2>1, <2>2, <2>3, <2>4
<1>10. ASSUME ~Handover(w) /\ ~Publication(w)
       PROVE  /\ SucceedsOnEvidence(w)
              /\ DependsOnEvidence(w)
              /\ Publication(w) => ServesNow(w)
  BY <1>10 DEF SucceedsOnEvidence, DependsOnEvidence
<1>11. CASE ControllerCall
  BY <1>6, <1>7, <1>8, <1>9, <1>10, <1>11 DEF ControllerCall
<1> QED BY <1>9, <1>10, <1>11 DEF Next

(* Every handover and every publication rests on what a host says now, or  *)
(* on a fence of exactly the incumbent (assign, _publish_withdraw and the  *)
(* gates _retired_drained, _fenced, _ready, _dependencies_ready): no token *)
(* of a reporter session is used twice, so no report of an earlier process *)
(* passes for a current one.                                               *)
THEOREM RestsOnEvidenceHolds == Spec => RestsOnEvidence
<1> DEFINE A == \A w \in Workloads : /\ SucceedsOnEvidence(w)
                                     /\ DependsOnEvidence(w)
                                     /\ Publication(w) => ServesNow(w)
<1>1. RegistryInv /\ SessionRows /\ [Next]_vars => A
  BY RestsStep
<1>2. Init => SessionRows
  BY DEF Init, SessionRows
<1>3. Spec => [][A]_vars
  <2> HIDE DEF A
  <2> QED BY <1>1, <1>2, SessionRowsStep, PastInvariant, TypeCorrect, RegistryInvariant,
             PTL DEF Spec
<1> QED BY <1>3 DEF RestsOnEvidence

-----------------------------------------------------------------------------
(* The word of /v2/state and the commit gates.                             *)

LEMMA WordStep == TypeOK /\ Past /\ RegistryInv => WordAgrees
<1> SUFFICES ASSUME TypeOK, Past, RegistryInv, ClockAccepted, NEW w \in Workloads,
                    Placed(w), observations[Incumbent(w)] # None,
                    observations[Incumbent(w)].epoch = epoch
             PROVE  LET i == Incumbent(w)
                        report == observations[i].report
                    IN  /\ ControllerReady(report, Word(i), RoutedServices(w))
                             <=> Ready(i, RoutedServices(w), wall)
                        /\ ControllerRetired(report, Word(i)) <=> Retired(i, wall)
  BY DEF WordAgrees
<1> DEFINE i == Incumbent(w)
           report == observations[i].report
           age == wall - observations[i].observedAt
<1>1. i \in Instances
  BY DEF RegistryInv, Lineage, TypeOK, PlacementRow, Incumbent
<1>2. observations[i] \in ObservationRow
  BY <1>1 DEF TypeOK
<1>3. report \in Reports /\ observations[i].observedAt \in Nat
  BY <1>2 DEF ObservationRow
<1>4. age \in Int /\ age >= 0
  <2>1. lastWall # None /\ observations[i].observedAt <= lastWall
    BY <1>1 DEF Past
  <2>2. wall >= lastWall /\ wall \in Nat /\ lastWall \in Nat
    BY <2>1 DEF ClockAccepted, TypeOK
  <2> QED BY <1>3, <2>1, <2>2
<1>5. Fresh(i, wall) \in BOOLEAN
  BY DEF Fresh
<1>6. Word(i) = ObservedState(report, age, Fresh(i, wall))
  BY DEF Word
<1>7. RoutedServices(w) \in SUBSET Services
  BY DEF RoutedServices
<1> HIDE DEF i, report, age
<1>8. ControllerReady(report, Word(i), RoutedServices(w)) <=> Ready(i, RoutedServices(w), wall)
  <2>1. ControllerReady(report, Word(i), RoutedServices(w))
          <=> Fresh(i, wall) /\ ReadyFor(report, RoutedServices(w))
    BY <1>3, <1>4, <1>5, <1>6, <1>7, ReadyAgreement
  <2> QED BY <2>1 DEF Ready, report
<1>9. ControllerRetired(report, Word(i)) <=> Retired(i, wall)
  <2>1. CASE ~Fresh(i, wall)
    <3>1. Word(i) \in {"stale", "lost"}
      BY <1>4, <1>6, <2>1 DEF ObservedState
    <3> QED BY <2>1, <3>1 DEF ControllerRetired, TakenAsFresh, Retired
  <2>2. CASE Fresh(i, wall)
    <3>1. Word(i) = ObservedState(report, age, TRUE)
      BY <1>5, <1>6, <2>2
    <3>2. CASE RetiredDrained(report)
      BY <1>3, <1>4, <2>2, <3>1, <3>2, RetiredAgreement DEF Retired, report
    <3>3. CASE ~RetiredDrained(report)
      BY <3>3 DEF ControllerRetired, Retired, report
    <3> QED BY <3>2, <3>3
  <2> QED BY <2>1, <2>2
<1> QED BY <1>8, <1>9 DEF i, report

(* The word of /v2/state and the commit gates decide alike (_observed_state*)
(* against _ready and _retired_drained): a report of this process is never *)
(* stamped after the last clock reading, so its age is never negative and  *)
(* the word hides nothing the gate would accept.                           *)
THEOREM WordAgreesHolds == Spec => []WordAgrees
<1> QED BY WordStep, PastInvariant, TypeCorrect, RegistryInvariant, PTL

-----------------------------------------------------------------------------
(* The window of a route snapshot.                                         *)

LEMMA LeastIsLeast ==
    ASSUME NEW S \in SUBSET Nat, S # {}
    PROVE  Least(S) \in S /\ \A y \in S : Least(S) <= y
<1> DEFINE R == OpToRel(<, Nat)
<1>1. IsWellFoundedOn(R, Nat)
  BY NatLessThanWellFounded
<1>2. \A m, n \in Nat : m < n => <<m, n>> \in R
  BY DEF OpToRel
<1> HIDE DEF R
<1>3. \E m \in S : \A n \in S : ~(<<n, m>> \in R)
  BY <1>1, WFMin
<1>4. PICK m \in S : \A n \in S : ~(<<n, m>> \in R)
  BY <1>3
<1>5. \A n \in S : n \in Nat /\ m \in Nat /\ ~(n < m)
  BY <1>2, <1>4
<1>6. \A n \in S : m <= n
  BY <1>5
<1> QED BY <1>6 DEF Least

\* A backed route has evidence on both clocks, and room left on both.
LEMMA BackedExpiry ==
    ASSUME RegistryInv, NEW route \in Routes, Backed(route)
    PROVE  LET i == Incumbent(route[1]) IN
           /\ observations[i].observedAt \in Nat /\ observations[i].receivedMono \in Nat
           /\ observations[i].observedAt <= wall /\ observations[i].receivedMono <= mono
           /\ BackendExpiry(i) \in Nat /\ wall <= BackendExpiry(i)
           /\ BackendExpiry(i) <= observations[i].observedAt + MaxAge
           /\ BackendExpiry(i) <= wall + (MaxAge - (mono - observations[i].receivedMono))
<1> DEFINE i == Incumbent(route[1])
           a == observations[i].observedAt
           m == observations[i].receivedMono
           S == {a + MaxAge, wall + (MaxAge - (mono - m))}
<1> USE RegistryAssumption, NoneAssumption, AgeAssumption
<1>1. route[1] \in Workloads /\ Placed(route[1]) /\ Fresh(i, wall)
  BY DEF Backed, Ready
<1>2. i \in Instances
  BY <1>1 DEF RegistryInv, Lineage, TypeOK, PlacementRow, Incumbent
<1>3. observations[i] \in ObservationRow
  BY <1>1, <1>2 DEF Fresh, RegistryInv, TypeOK
<1>4. a \in Nat /\ m \in Nat /\ wall \in Nat /\ mono \in Nat
  BY <1>3 DEF ObservationRow, RegistryInv, TypeOK
<1>5. wall - a \in 0 .. MaxAge /\ mono - m \in 0 .. MaxAge
  BY <1>1 DEF Fresh, WithinAge
<1>6. BackendExpiry(i) = Least(S)
  BY DEF BackendExpiry
<1> HIDE DEF i, a, m
<1>7. a <= wall /\ m <= mono /\ S \in SUBSET Nat /\ S # {} /\ \A y \in S : wall <= y
  BY <1>4, <1>5
<1>8. Least(S) \in S /\ Least(S) <= a + MaxAge
      /\ Least(S) <= wall + (MaxAge - (mono - m))
  BY <1>7, LeastIsLeast
<1> QED BY <1>4, <1>6, <1>7, <1>8 DEF i, a, m

LEMMA WindowHolds == RegistryInv => RouteWindow
<1> SUFFICES ASSUME RegistryInv,
                    NEW b \in RouteSnapshot.backends,
                    NEW t \in RouteSnapshot.generatedAt .. RouteSnapshot.validUntil
             PROVE  WithinAge(t - observations[b.instance].observedAt,
                              mono + (t - wall) - observations[b.instance].receivedMono)
  BY DEF RouteWindow
<1> DEFINE backed == {route \in Routes : Backed(route)}
           S == {wall + RouteTTL} \cup {BackendExpiry(Incumbent(route[1])) : route \in backed}
<1>1. /\ RouteSnapshot.generatedAt = wall
      /\ RouteSnapshot.validUntil = Least(S)
      /\ RouteSnapshot.backends =
           {[route |-> route, instance |-> Incumbent(route[1])] : route \in backed}
  BY DEF RouteSnapshot
<1>2. PICK route \in Routes : Backed(route) /\ b.instance = Incumbent(route[1])
  BY <1>1
<1>3. wall \in Nat /\ mono \in Nat /\ RouteTTL \in Nat /\ MaxAge \in Nat
  BY RegistryAssumption, AgeAssumption DEF RegistryInv, TypeOK
<1>4. S \in SUBSET Nat /\ S # {}
  <2>1. \A r \in backed : BackendExpiry(Incumbent(r[1])) \in Nat
    BY BackedExpiry
  <2> QED BY <1>3, <2>1
<1>5. Least(S) \in Nat /\ Least(S) <= BackendExpiry(Incumbent(route[1]))
  <2>1. BackendExpiry(Incumbent(route[1])) \in S
    BY <1>2
  <2> HIDE DEF S
  <2> QED BY <1>4, <2>1, LeastIsLeast
<1> HIDE DEF S
<1>6. t \in Int /\ wall <= t /\ t <= BackendExpiry(Incumbent(route[1]))
  <2>1. t \in wall .. Least(S)
    BY <1>1
  <2>2. BackendExpiry(Incumbent(route[1])) \in Nat
    BY <1>2, BackedExpiry
  <2> QED BY <1>3, <1>5, <2>1, <2>2
<1> DEFINE i == Incumbent(route[1])
<1>7. /\ observations[i].observedAt \in Nat /\ observations[i].receivedMono \in Nat
      /\ observations[i].observedAt <= wall /\ observations[i].receivedMono <= mono
      /\ BackendExpiry(i) \in Nat
      /\ BackendExpiry(i) <= observations[i].observedAt + MaxAge
      /\ BackendExpiry(i) <= wall + (MaxAge - (mono - observations[i].receivedMono))
  BY <1>2, BackedExpiry
<1> HIDE DEF i
<1>8. /\ t - observations[i].observedAt \in 0 .. MaxAge
      /\ mono + (t - wall) - observations[i].receivedMono \in 0 .. MaxAge
  BY <1>3, <1>6, <1>7 DEF i
<1> QED BY <1>2, <1>8 DEF WithinAge, i

(* Whatever number of backends a snapshot has, the evidence behind each is *)
(* within its age on both clocks until validUntil (routes).                *)
THEOREM RouteWindowHolds == Spec => []RouteWindow
  BY WindowHolds, RegistryInvariant, PTL
=============================================================================
