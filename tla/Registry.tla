------------------------------ MODULE Registry ------------------------------
(***************************************************************************)
(* The durable placement registry (registry.py).  One process owns one     *)
(* SQLite database; a re-entrant lock and BEGIN IMMEDIATE make every call  *)
(* one atomic step, so each handler is one action.  What survives a        *)
(* restart is the database (placements, instances, sessions, observations, *)
(* fences, requests, operations, version); what does not is the epoch and  *)
(* the last clock reading.                                                 *)
(*                                                                         *)
(* Callers are not modelled here: every input a controller or a host could *)
(* send is enumerated.  A call the code refuses, and a replay of a recorded*)
(* request, leave the database alone: both are ReadClock, the step that    *)
(* only consumes a clock reading (the queue calls do not even do that).    *)
(***************************************************************************)
EXTENDS Evidence, FiniteSets

CONSTANTS
    Workloads, Revisions, Hosts,
    Instances,      \* instance ids controllers draw from
    Controllers,    \* identities holding the controller role
    RequestIds,     \* requestId values of controller writes
    OperationIds,   \* ids of dispatched operations
    ReceiptIds,     \* requestId values of reporter receipts
    Steps,          \* operation steps (prepare, start, retire, ...)
    Evidences,      \* fence evidence kinds: quorum-attested, operator
    Samples,        \* the reports hosts may post
    None,
    Definitions,    \* <<workload, revision>> sealed and executable
    Eligible,       \* [Definitions -> SUBSET Hosts]: architecture matches
    Dependencies,   \* [Definitions -> SUBSET Workloads]: direct dependencies
    Routes,         \* <<workload, service>> pairs the config routes
    RouteTTL,       \* registry.py _ROUTE_TTL (10 s)
    QueueMax,       \* registry.py _OPERATION_PENDING_MAX (256)
    \* bounds of the model
    MaxVersion,     \* database writes
    MaxTime,        \* wall and monotonic clock
    MaxEpoch,       \* registry restarts
    MaxSequence     \* observation sequence numbers

ASSUME RegistryAssumption ==
    /\ Samples \subseteq Reports
    /\ Definitions \subseteq Workloads \X Revisions
    /\ Eligible \in [Definitions -> SUBSET Hosts]
    /\ Dependencies \in [Definitions -> SUBSET Workloads]
    /\ Routes \subseteq Workloads \X Services
    /\ RouteTTL \in Nat
    /\ QueueMax \in Nat
    /\ MaxVersion \in Nat /\ MaxTime \in Nat /\ MaxEpoch \in Nat
    /\ MaxSequence \in Nat

VARIABLES
    wall, mono,     \* the registry host's wall and monotonic clocks
    epoch,          \* this process's epoch token
    lastWall,       \* _last_wall: highest wall reading of this process
    version,        \* meta.version
    operationSequence,  \* meta.operationSequence
    placements, instances, sessions, observations, fences, requests,
    operations

clockVars == <<wall, mono, epoch>>
placementVars == <<placements, instances>>
vars == <<wall, mono, epoch, lastWall, version, operationSequence,
          placements, instances, sessions, observations, fences, requests, operations>>

-----------------------------------------------------------------------------
(* The tables, one row type each; None is an absent row.                   *)

PlacementRow == [generation : Nat, instance : Instances \cup {None},
                 published : BOOLEAN]
InstanceRow == [workload : Workloads, revision : Revisions, host : Hosts,
                generation : Nat \ {0}]
SessionRow == [session : Nat, epoch : Nat, sequence : Nat]
ObservationRow == [report : Reports, observedAt : Nat, session : Nat,
                   epoch : Nat, sequence : Nat, receivedMono : Nat]
FenceRow == [workload : Workloads, generation : Nat, host : Hosts,
             evidence : Evidences]

AssignRequest == [action : {"assign"}, workload : Workloads,
                  revision : Revisions, host : Hosts, instance : Instances,
                  expected : Nat]
PlacementRequest == [action : {"publish", "withdraw"}, workload : Workloads,
                     expected : Nat]
FenceRequest == [action : {"fence"}, workload : Workloads, generation : Nat,
                 host : Hosts, evidence : Evidences]
OperationRequest == [action : {"operation"}, operation : OperationIds,
                     workload : Workloads, host : Hosts, generation : Nat,
                     step : Steps]
Request == AssignRequest \cup PlacementRequest \cup FenceRequest
             \cup OperationRequest

\* `receipt` is the number the receipt carries: the generation, or the seq.
RequestRow == [caller : Controllers, request : Request, receipt : Nat]

Outcomes == {"completed", "failed"}
OperationRow == [seq : Nat, host : Hosts, workload : Workloads,
                 generation : Nat, step : Steps, request : RequestIds,
                 status : {"pending", "claimed"} \cup Outcomes,
                 claim : ReceiptIds \cup {None},
                 final : ReceiptIds \cup {None}]

NotPlaced == [generation |-> 0, instance |-> None, published |-> FALSE]
NoSession == [session |-> 0, epoch |-> 0, sequence |-> 0]

ASSUME NoneAssumption ==
    /\ None \notin Nat
    /\ None \notin Instances
    /\ None \notin ReceiptIds
    /\ None \notin InstanceRow
    /\ None \notin ObservationRow
    /\ None \notin RequestRow
    /\ None \notin OperationRow

TypeOK ==
    /\ wall \in Nat /\ mono \in Nat /\ epoch \in Nat /\ version \in Nat
    /\ lastWall \in Nat \cup {None} /\ operationSequence \in Nat
    /\ placements \in [Workloads -> PlacementRow]
    /\ instances \in [Instances -> InstanceRow \cup {None}]
    /\ sessions \in [Hosts -> SessionRow]
    /\ observations \in [Instances -> ObservationRow \cup {None}]
    /\ fences \subseteq FenceRow
    /\ requests \in [RequestIds -> RequestRow \cup {None}]
    /\ operations \in [OperationIds -> OperationRow \cup {None}]

Init ==
    /\ wall = 0
    /\ mono = 0
    /\ epoch = 1
    /\ lastWall = None
    /\ version = 0
    /\ operationSequence = 0
    /\ placements = [w \in Workloads |-> NotPlaced]
    /\ instances = [i \in Instances |-> None]
    /\ sessions = [h \in Hosts |-> NoSession]
    /\ observations = [i \in Instances |-> None]
    /\ fences = {}
    /\ requests = [r \in RequestIds |-> None]
    /\ operations = [o \in OperationIds |-> None]

-----------------------------------------------------------------------------
(* Reading the tables.                                                     *)

Placed(w) == placements[w].generation # 0
Incumbent(w) == placements[w].instance

MutFreshAnyEpoch(i, now) ==
    /\ observations[i] # None
    /\ instances[i] # None
    /\ sessions[instances[i].host].session = observations[i].session
    /\ WithinAge(now - observations[i].observedAt,
                 mono - observations[i].receivedMono)

\* _fresh: the row was stored in this epoch, under the host's current
\* session, and is within age on both clocks.
Fresh(i, now) ==
    /\ observations[i] # None
    /\ observations[i].epoch = epoch
    /\ instances[i] # None
    /\ sessions[instances[i].host].session = observations[i].session
    /\ WithinAge(now - observations[i].observedAt,
                 mono - observations[i].receivedMono)

Retired(i, now) == Fresh(i, now) /\ RetiredDrained(observations[i].report)

RoutedServices(w) == {s \in Services : <<w, s>> \in Routes}

Ready(i, needed, now) ==
    Fresh(i, now) /\ ReadyFor(observations[i].report, needed)

MutFencedEarlier(w, g, h) == \E f \in fences : f.workload = w /\ f.generation <= g

\* _fenced: a fence row for exactly this incumbent.
Fenced(w, g, h) ==
    \E f \in fences : f.workload = w /\ f.generation = g /\ f.host = h

DependenciesReady(w, r, now) ==
    \A d \in Dependencies[<<w, r>>] :
        Placed(d) /\ Ready(Incumbent(d), RoutedServices(d), now)

Outstanding(h) ==
    {o \in OperationIds :
        /\ operations[o] # None
        /\ operations[o].host = h
        /\ operations[o].status \in {"pending", "claimed"}}

\* post_operation: pending and claimed operations both count.
MutQueueOpenPending(h) ==
    Cardinality({o \in Outstanding(h) : operations[o].status = "pending"}) < QueueMax

QueueOpen(h) == Cardinality(Outstanding(h)) < QueueMax

\* An instance id is used once, whatever became of the instance.
MutUnusedNow(i) == \A w \in Workloads : Incumbent(w) # i

Unused(i) == instances[i] = None

\* state: the word shown for an instance (_observed_state).
Word(i) == ObservedState(observations[i].report, wall - observations[i].observedAt,
                         Fresh(i, wall))

-----------------------------------------------------------------------------
(* Clocks and process.                                                     *)

ClockAccepted == lastWall # None => wall >= lastWall

\* _now: a reading below the last one of this process is clock-unavailable,
\* and the call fails before it touches the database.
Now == /\ ClockAccepted
       /\ lastWall' = wall

Tick == /\ wall < MaxTime /\ mono < MaxTime
        /\ wall' = wall + 1
        /\ mono' = mono + 1
        /\ UNCHANGED <<epoch, lastWall, version, operationSequence, placements,
                       instances, sessions, observations, fences, requests,
                       operations>>

\* The wall clock is set, forward or back; the monotonic clock is not.
SetClock == \E t \in 0 .. MaxTime :
    /\ wall' = t
    /\ UNCHANGED <<mono, epoch, lastWall, version, operationSequence,
                   placements, instances, sessions, observations, fences,
                   requests, operations>>

\* _check_compat: what a start-up demands of the database it finds.
Compatible ==
    /\ \A i \in Instances : instances[i] # None =>
         LET row == instances[i] IN
         /\ <<row.workload, row.revision>> \in Definitions
         /\ row.host \in Eligible[<<row.workload, row.revision>>]
    /\ \A w \in Workloads : Placed(w) =>
         Incumbent(w) # None /\ instances[Incumbent(w)] # None
    /\ \A o \in OperationIds : operations[o] # None =>
         \E i \in Instances : /\ instances[i] # None
                              /\ instances[i].workload = operations[o].workload
                              /\ instances[i].generation = operations[o].generation
    /\ \A f \in fences :
         \E i \in Instances : /\ instances[i] # None
                              /\ instances[i].workload = f.workload
                              /\ instances[i].generation = f.generation

\* A process (or its host) dies and the registry opens the database again:
\* a new epoch, no remembered clock reading; a reboot also resets the
\* monotonic clock.  Every committed row is still there.
Restart == /\ epoch < MaxEpoch
           /\ Compatible
           /\ epoch' = epoch + 1
           /\ lastWall' = None
           /\ mono' \in {mono, 0}
           /\ UNCHANGED <<wall, version, operationSequence, placements,
                          instances, sessions, observations, fences, requests,
                          operations>>

\* A read (state, routes), a refused write or a replayed request: the clock
\* is read, the database is not written.
ReadClock == /\ Now
             /\ UNCHANGED <<wall, mono, epoch, version, operationSequence,
                            placements, instances, sessions, observations,
                            fences, requests, operations>>

Bump == /\ version < MaxVersion
        /\ version' = version + 1

-----------------------------------------------------------------------------
(* Host calls.                                                             *)

\* open_session: a token never used before.  The clock is not read.
OpenSession(h) ==
    /\ Bump
    /\ sessions' = [sessions EXCEPT ![h] =
           [session |-> version', epoch |-> epoch, sequence |-> 0]]
    /\ UNCHANGED <<wall, mono, epoch, lastWall, operationSequence, placements,
                   instances, observations, fences, requests, operations>>

\* observe: host h reports p about instance i, stamped at `at` by its own
\* clock, under session s with sequence number n.
Observe(h, i, p, at, s, n) ==
    /\ Now
    /\ at <= wall /\ wall - at <= MaxAge
    /\ instances[i] # None /\ instances[i].host = h
    /\ sessions[h].session = s /\ sessions[h].epoch = epoch
    /\ n > sessions[h].sequence
    /\ sessions' = [sessions EXCEPT ![h].sequence = n]
    /\ observations' = [observations EXCEPT ![i] =
           [report |-> p, observedAt |-> at, session |-> s, epoch |-> epoch,
            sequence |-> n, receivedMono |-> mono]]
    /\ Bump
    /\ UNCHANGED <<wall, mono, epoch, operationSequence, placements, instances,
                   fences, requests, operations>>

-----------------------------------------------------------------------------
(* Controller writes: requestId r of caller c.                             *)

MutRecordAgain(c, r, request, receipt) ==
    /\ requests' = [requests EXCEPT ![r] =
           [caller |-> c, request |-> request, receipt |-> receipt]]
    /\ Bump

\* _request_replay found nothing; _record_request stores request and receipt.
Record(c, r, request, receipt) ==
    /\ requests[r] = None
    /\ requests' = [requests EXCEPT ![r] =
           [caller |-> c, request |-> request, receipt |-> receipt]]
    /\ Bump

\* The evidence without which a placed workload gets no successor.
Replaceable(w) ==
    Placed(w) =>
      \/ Retired(Incumbent(w), wall)
      \/ Fenced(w, placements[w].generation, instances[Incumbent(w)].host)

Assign(c, r, w, v, h, i, expected) ==
    LET generation == placements[w].generation + 1 IN
    /\ Now
    /\ Record(c, r, [action |-> "assign", workload |-> w, revision |-> v,
                     host |-> h, instance |-> i, expected |-> expected],
              generation)
    /\ <<w, v>> \in Definitions
    /\ h \in Eligible[<<w, v>>]
    /\ expected = placements[w].generation
    /\ Replaceable(w)
    /\ DependenciesReady(w, v, wall)
    /\ Unused(i)
    /\ instances' = [instances EXCEPT ![i] =
           [workload |-> w, revision |-> v, host |-> h,
            generation |-> generation]]
    /\ placements' = [placements EXCEPT ![w] =
           [generation |-> generation, instance |-> i, published |-> FALSE]]
    /\ UNCHANGED <<wall, mono, epoch, operationSequence, sessions,
                   observations, fences, operations>>

\* _publish_withdraw, the publish branch.
Publish(c, r, w, expected) ==
    /\ Now
    /\ Record(c, r, [action |-> "publish", workload |-> w,
                     expected |-> expected], placements[w].generation)
    /\ Placed(w)
    /\ expected = placements[w].generation
    /\ Ready(Incumbent(w), RoutedServices(w), wall)
    /\ DependenciesReady(w, instances[Incumbent(w)].revision, wall)
    /\ placements' = [placements EXCEPT ![w].published = TRUE]
    /\ UNCHANGED <<wall, mono, epoch, operationSequence, instances, sessions,
                   observations, fences, operations>>

\* _publish_withdraw, the withdraw branch: no evidence needed.
Withdraw(c, r, w, expected) ==
    /\ Now
    /\ Record(c, r, [action |-> "withdraw", workload |-> w,
                     expected |-> expected], placements[w].generation)
    /\ Placed(w)
    /\ expected = placements[w].generation
    /\ placements' = [placements EXCEPT ![w].published = FALSE]
    /\ UNCHANGED <<wall, mono, epoch, operationSequence, instances, sessions,
                   observations, fences, operations>>

MutHoldsUpTo(w, g, h) == /\ Placed(w)
                         /\ placements[w].generation >= g
                         /\ instances[Incumbent(w)].host = h

\* The placement row names generation g and its instance sits on host h.
Holds(w, g, h) == /\ Placed(w)
                  /\ placements[w].generation = g
                  /\ instances[Incumbent(w)].host = h

\* fence: an attestation about the current generation on the host holding
\* it.  A second one must say the same; the row is written once.
Fence(c, r, w, g, h, e) ==
    /\ Now
    /\ Record(c, r, [action |-> "fence", workload |-> w, generation |-> g,
                     host |-> h, evidence |-> e], g)
    /\ Holds(w, g, h)
    /\ \A f \in fences : f.workload = w /\ f.generation = g
                           => f.host = h /\ f.evidence = e
    /\ fences' = fences \cup
           {[workload |-> w, generation |-> g, host |-> h, evidence |-> e]}
    /\ UNCHANGED <<wall, mono, epoch, operationSequence, placements, instances,
                   sessions, observations, operations>>

\* post_operation.  The clock is not read.
PostOperation(c, r, o, w, h, g, step) ==
    /\ Record(c, r, [action |-> "operation", operation |-> o, workload |-> w,
                     host |-> h, generation |-> g, step |-> step],
              operationSequence + 1)
    /\ Holds(w, g, h)
    /\ operations[o] = None
    /\ QueueOpen(h)
    /\ operationSequence' = operationSequence + 1
    /\ operations' = [operations EXCEPT ![o] =
           [seq |-> operationSequence + 1, host |-> h, workload |-> w,
            generation |-> g, step |-> step, request |-> r,
            status |-> "pending", claim |-> None, final |-> None]]
    /\ UNCHANGED <<wall, mono, epoch, lastWall, placements, instances,
                   sessions, observations, fences>>

-----------------------------------------------------------------------------
(* Receipts: reporter of host h, receipt requestId q.                      *)

\* poll_operations: the pending operations of a host past a sequence number.
\* Nothing is asked about the generation.
Pollable(h, after) ==
    {o \in OperationIds : /\ operations[o] # None
                          /\ operations[o].host = h
                          /\ operations[o].status = "pending"
                          /\ operations[o].seq > after}

MutClaimStolen(h, o, q) ==
    /\ operations[o] # None
    /\ operations[o].host = h
    /\ operations[o].status \in {"pending", "claimed"}
    /\ operations' = [operations EXCEPT ![o] =
           [@ EXCEPT !.status = "claimed", !.claim = q]]
    /\ Bump
    /\ UNCHANGED <<wall, mono, epoch, lastWall, operationSequence, placements,
                   instances, sessions, observations, fences, requests>>

\* operation_receipt, status "claimed": the first claim wins.
Claim(h, o, q) ==
    /\ operations[o] # None
    /\ operations[o].host = h
    /\ operations[o].status = "pending"
    /\ operations' = [operations EXCEPT ![o] =
           [@ EXCEPT !.status = "claimed", !.claim = q]]
    /\ Bump
    /\ UNCHANGED <<wall, mono, epoch, lastWall, operationSequence, placements,
                   instances, sessions, observations, fences, requests>>

\* operation_receipt, status completed or failed: once, after a claim.
Finish(h, o, q, outcome) ==
    /\ operations[o] # None
    /\ operations[o].host = h
    /\ operations[o].status = "claimed"
    /\ operations[o].final = None
    /\ operations' = [operations EXCEPT ![o] =
           [@ EXCEPT !.status = outcome, !.final = q]]
    /\ Bump
    /\ UNCHANGED <<wall, mono, epoch, lastWall, operationSequence, placements,
                   instances, sessions, observations, fences, requests>>

-----------------------------------------------------------------------------
(* routes: what the ingress is told, computed at the current reading.      *)

Backed(route) ==
    LET w == route[1] IN
    /\ Placed(w)
    /\ placements[w].published
    /\ Ready(Incumbent(w), {route[2]}, wall)

Least(S) == CHOOSE x \in S : \A y \in S : x <= y

MutBackendExpiry(i) == observations[i].observedAt + MaxAge

\* Until when one backend may be used.
BackendExpiry(i) ==
    Least({observations[i].observedAt + MaxAge,
           wall + (MaxAge - (mono - observations[i].receivedMono))})

RouteSnapshot ==
    LET backed == {route \in Routes : Backed(route)} IN
    [backends    |-> {[route |-> route, instance |-> Incumbent(route[1])] :
                        route \in backed},
     generatedAt |-> wall,
     validUntil  |-> Least({wall + RouteTTL} \cup
                           {BackendExpiry(Incumbent(route[1])) : route \in backed})]

-----------------------------------------------------------------------------
HostCall ==
    \E h \in Hosts :
      \/ OpenSession(h)
      \/ \E i \in Instances, p \in Samples, at \in 0 .. MaxTime,
            s \in 1 .. MaxVersion, n \in 1 .. MaxSequence :
            Observe(h, i, p, at, s, n)
      \/ \E o \in OperationIds, q \in ReceiptIds :
            \/ Claim(h, o, q)
            \/ \E outcome \in Outcomes : Finish(h, o, q, outcome)

ControllerCall ==
    \E c \in Controllers, r \in RequestIds, w \in Workloads :
      \/ \E v \in Revisions, h \in Hosts, i \in Instances, g \in 0 .. MaxVersion :
            Assign(c, r, w, v, h, i, g)
      \/ \E g \in 0 .. MaxVersion : Publish(c, r, w, g) \/ Withdraw(c, r, w, g)
      \/ \E h \in Hosts, g \in 0 .. MaxVersion, e \in Evidences :
            Fence(c, r, w, g, h, e)
      \/ \E o \in OperationIds, h \in Hosts, g \in 0 .. MaxVersion, step \in Steps :
            PostOperation(c, r, o, w, h, g, step)

Environment == Tick \/ SetClock \/ Restart

Next == HostCall \/ ControllerCall \/ ReadClock \/ Environment

Spec == Init /\ [][Next]_vars

-----------------------------------------------------------------------------
(* Properties.                                                             *)

GenerationsOf(w) ==
    {instances[i].generation : i \in {j \in Instances :
        instances[j] # None /\ instances[j].workload = w}}

(***************************************************************************)
(* One lineage per workload: the instances ever assigned to it carry the   *)
(* generations 1 .. current, no generation twice, and the placement row    *)
(* names the one with the highest.  Two controllers racing assign, a       *)
(* replay, or a restart between two assigns would break it by skipping or  *)
(* reusing a generation number, the fencing token everything below trusts. *)
(***************************************************************************)
Lineage ==
    \A w \in Workloads :
      /\ GenerationsOf(w) = 1 .. placements[w].generation
      /\ \A i, j \in Instances :
           /\ instances[i] # None /\ instances[j] # None
           /\ instances[i].workload = w /\ instances[j].workload = w
           /\ instances[i].generation = instances[j].generation
           => i = j
      /\ Placed(w) =>
           /\ Incumbent(w) # None
           /\ instances[Incumbent(w)] # None
           /\ instances[Incumbent(w)].workload = w
           /\ instances[Incumbent(w)].generation = placements[w].generation

(***************************************************************************)
(* A database this program wrote is a database this program opens: the     *)
(* start-up check refuses nothing that any sequence of accepted calls      *)
(* produced, so a restart never ends in registry-config-incompatible under *)
(* an unchanged configuration.                                             *)
(***************************************************************************)
Reopenable == Compatible

(***************************************************************************)
(* Fences and operations name a generation together with the host that     *)
(* held it, and one (workload, generation) has at most one fence: a        *)
(* tombstone never excuses a host that was not the incumbent, and an       *)
(* operation is never addressed to a bystander.                            *)
(***************************************************************************)
HeldBy(w, g, h) == \E i \in Instances : /\ instances[i] # None
                                        /\ instances[i].workload = w
                                        /\ instances[i].generation = g
                                        /\ instances[i].host = h

Scoped ==
    /\ \A f \in fences : HeldBy(f.workload, f.generation, f.host)
    /\ \A f, g \in fences :
         f.workload = g.workload /\ f.generation = g.generation => f = g
    /\ \A o \in OperationIds : operations[o] # None =>
         HeldBy(operations[o].workload, operations[o].generation,
                operations[o].host)

(***************************************************************************)
(* Every effect has its request: a generation of a workload was made by    *)
(* exactly one recorded assign, and a published placement by a recorded    *)
(* publish of that same generation.  A requestId that took effect twice,   *)
(* or a publication that survived a handover, would leave an effect        *)
(* without its own row.                                                    *)
(***************************************************************************)
Attributed ==
    /\ \A i \in Instances : instances[i] # None =>
         \E r \in RequestIds :
           /\ requests[r] # None
           /\ requests[r].request.action = "assign"
           /\ requests[r].request.instance = i
           /\ requests[r].request.workload = instances[i].workload
           /\ requests[r].receipt = instances[i].generation
    /\ \A r, q \in RequestIds :
         /\ requests[r] # None /\ requests[q] # None
         /\ requests[r].request.action = "assign"
         /\ requests[q].request.action = "assign"
         /\ requests[r].request.workload = requests[q].request.workload
         /\ requests[r].receipt = requests[q].receipt
         => r = q
    /\ \A w \in Workloads : placements[w].published =>
         \E r \in RequestIds :
           /\ requests[r] # None
           /\ requests[r].request.action = "publish"
           /\ requests[r].request.workload = w
           /\ requests[r].receipt = placements[w].generation

(***************************************************************************)
(* A handover rests on what a host says now.  A placed workload gets a     *)
(* successor (assign) only if a fence row names exactly the generation and *)
(* the host being replaced, or its instance is reported retired and        *)
(* drained; a revision is assigned or published only while every direct    *)
(* dependency is reported ready, and published only while its own instance *)
(* is.  Each report comes from the session now open on the host that runs  *)
(* the instance, a session this process opened, and is within the maximum  *)
(* age on both clocks: no fence of an earlier generation, no report from   *)
(* before a restart of the registry or of the reporter, no aged one.       *)
(***************************************************************************)
SaidNow(i) ==
    LET row == observations[i]
        session == sessions[instances[i].host]
    IN  /\ row # None
        /\ session.epoch = epoch /\ row.session = session.session
        /\ row.sequence <= session.sequence
        /\ wall - row.observedAt \in 0 .. MaxAge
        /\ mono - row.receivedMono \in 0 .. MaxAge

Handover(w) == placements'[w].generation # placements[w].generation

Publication(w) == placements'[w].published /\ ~placements[w].published

SucceedsOnEvidence(w) ==
    Placed(w) /\ Handover(w) =>
      \/ \E f \in fences : /\ f.workload = w
                           /\ f.generation = placements[w].generation
                           /\ f.host = instances[Incumbent(w)].host
      \/ SaidNow(Incumbent(w)) /\ RetiredDrained(observations[Incumbent(w)].report)

ServesNow(w) == /\ Placed(w)
                /\ SaidNow(Incumbent(w))
                /\ ReadyFor(observations[Incumbent(w)].report, RoutedServices(w))

DependsOnEvidence(w) ==
    Handover(w) \/ Publication(w) =>
      \A d \in Dependencies[<<w, instances'[placements'[w].instance].revision>>] :
        ServesNow(d)

RestsOnEvidence ==
    [][\A w \in Workloads : /\ SucceedsOnEvidence(w)
                            /\ DependsOnEvidence(w)
                            /\ Publication(w) => ServesNow(w)]_vars

(***************************************************************************)
(* A workload never stands without what it depends on: every direct        *)
(* dependency of the revision it is placed with has a placement, and some  *)
(* host reported an instance of that dependency at some time.  Placements  *)
(* are never removed, so this outlives any later loss of the dependency.   *)
(***************************************************************************)
DependenciesPlaced ==
    \A w \in Workloads : Placed(w) =>
      \A d \in Dependencies[<<w, instances[Incumbent(w)].revision>>] :
        /\ Placed(d)
        /\ \E i \in Instances : /\ instances[i] # None
                                /\ instances[i].workload = d
                                /\ observations[i] # None

(***************************************************************************)
(* Evidence never revives: once the registry has read its clock and found  *)
(* a stored observation no longer fresh, no later reading of the same row  *)
(* finds it fresh, whatever happens to the wall clock, the process or the  *)
(* sessions.  Within a process it is the refusal of a clock that went back,*)
(* across processes the epoch, across reporter restarts the session.       *)
(***************************************************************************)
FreshAsRead(i) == lastWall # None /\ Fresh(i, lastWall)

NeverRevived ==
    [][\A i \in Instances :
         /\ observations[i] # None
         /\ observations'[i] = observations[i]
         /\ ~FreshAsRead(i)
         => ~FreshAsRead(i)']_vars

(***************************************************************************)
(* Through the whole window of a route snapshot, on both clocks, the       *)
(* evidence behind every backend stays within the maximum age: the ingress *)
(* may use it until validUntil without asking again.                       *)
(***************************************************************************)
RouteWindow ==
    ClockAccepted =>
      \A b \in RouteSnapshot.backends :
        \A t \in RouteSnapshot.generatedAt .. RouteSnapshot.validUntil :
          WithinAge(t - observations[b.instance].observedAt,
                    mono + (t - wall) - observations[b.instance].receivedMono)

(***************************************************************************)
(* The controller decides from the word and the report of /v2/state, the   *)
(* commit gates from the row itself.  For a report of this process, and    *)
(* while the clock is not refused, both conclude the same: a word that     *)
(* shows a workload ready or retired is never one the gate refuses, and a  *)
(* workload the gate would accept is never shown as stale, lost or unknown.*)
(***************************************************************************)
WordAgrees ==
    ClockAccepted =>
      \A w \in Workloads :
        LET i == Incumbent(w)
            report == observations[i].report
        IN  Placed(w) /\ observations[i] # None /\ observations[i].epoch = epoch =>
              /\ ControllerReady(report, Word(i), RoutedServices(w))
                   <=> Ready(i, RoutedServices(w), wall)
              /\ ControllerRetired(report, Word(i)) <=> Retired(i, wall)

(***************************************************************************)
(* What is written is final: fences, instance rows and request rows are    *)
(* never changed or removed, generations never go back, and an operation's *)
(* claim and outcome are each decided once.  The version never goes back   *)
(* either, and stands still only while every table does.                   *)
(***************************************************************************)
Final ==
    [][/\ version <= version'
       /\ version' = version =>
            UNCHANGED <<operationSequence, placements, instances, sessions,
                        observations, fences, requests, operations>>
       /\ fences \subseteq fences'
       /\ \A i \in Instances : instances[i] # None => instances'[i] = instances[i]
       /\ \A r \in RequestIds : requests[r] # None => requests'[r] = requests[r]
       /\ \A w \in Workloads :
            placements'[w].generation \in
              {placements[w].generation, placements[w].generation + 1}
       /\ \A o \in OperationIds : operations[o] # None =>
            /\ operations'[o] # None
            /\ operations[o].claim # None =>
                 operations'[o].claim = operations[o].claim
            /\ operations[o].final # None => operations'[o] = operations[o]]_vars

(***************************************************************************)
(* The outstanding operations of a host never exceed the limit, whatever   *)
(* the interleaving of posts, claims and outcomes.                         *)
(***************************************************************************)
QueueBound == \A h \in Hosts : Cardinality(Outstanding(h)) <= QueueMax
=============================================================================
