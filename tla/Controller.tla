----------------------------- MODULE Controller -----------------------------
(***************************************************************************)
(* The controller's journalled jobs (console/controller.py): a move takes  *)
(* a workload from the host it runs on to another one by freeze, capture,  *)
(* thaw, retire, assign, restore, start and publish; a failover fences a   *)
(* lost incumbent and starts a replica.  The journal has one record per    *)
(* job, saved before and after every step, so a call can be cut short      *)
(* anywhere and the next one resumes.                                      *)
(*                                                                         *)
(* One workload.  Around the controller stand, as little as its steps need *)
(* of them: the registry's placement, fences and requests, the row it      *)
(* shows, its operation queue, the reporters that empty the queue, and the *)
(* workers, whose operations have a commit and a completion (Worker has    *)
(* the detail), and the data the instances write.                          *)
(***************************************************************************)
EXTENDS Integers, Sequences, SequencesExt

CONSTANTS
    Jobs, Instances, Hosts,
    Home,           \* the controller's own host: steps there are local
    Origin,         \* the instance placed at the start
    ActionOf,       \* "plan" (a move) or "failover"
    EvidenceOf,     \* the fence evidence a failover carries
    SourceOf,       \* the incumbent of a job
    TargetOf,       \* the successor: its id derives from the operation id
    HostOf, GenOf,
    Dependent,      \* the workload declares a dependency
    MaxWrites,      \* bound: what an instance writes
    MaxFaults,      \* bound: interruptions, lost evidence, starts by hand
    None

ASSUME JobAssumption ==
    /\ ActionOf \in [Jobs -> {"plan", "failover"}]
    /\ EvidenceOf \in [Jobs -> {"operator", "quorum-attested"}]
    /\ SourceOf \in [Jobs -> Instances]
    /\ TargetOf \in [Jobs -> Instances]
    /\ HostOf \in [Instances -> Hosts]
    /\ GenOf \in [Instances -> Nat \ {0}]
    /\ Origin \in Instances /\ GenOf[Origin] = 1
    /\ \A j \in Jobs : GenOf[TargetOf[j]] = GenOf[SourceOf[j]] + 1
    /\ \A j, k \in Jobs : TargetOf[j] = TargetOf[k] => j = k
    /\ Dependent \in BOOLEAN
    /\ MaxWrites \in Nat /\ MaxFaults \in Nat
    /\ None \notin Jobs \cup Nat

VARIABLES
    job,        \* the journal: phase, and the state of that phase's checkpoint
    call,       \* the invocation that holds the controller's lock
    placement,  \* the registry's row: generation, instance, published
    fences,     \* generations with a committed fence
    requests,   \* <<job, label>> pairs the registry recorded
    shown,      \* the observed state of the placed instance in /v2/state
    ready,      \* the dependency's row shows it serving
    queue,      \* dispatched operations in the registry
    receipt,    \* the worker's (backup's, restore's) record of an operation
    proc,       \* the instances on their hosts
    barrier,    \* the capture a job holds over its source
    snapshot,   \* what the capture of a job holds
    faults,     \* history: failures so far
    byHand,     \* history: a source was started by hand after its thaw, or
                \* a target
    heard       \* history: the row was fresh all through the present call

registry == <<placement, fences, requests>>
evidence == <<shown, ready, heard>>
hosts == <<receipt, proc, barrier, snapshot>>
env == <<faults, byHand>>
vars == <<job, call, registry, evidence, queue, hosts, env>>

MoveSteps == <<"validate", "freeze", "capture", "thaw", "retire-source",
               "assign", "install-target", "await-ready", "publish", "retain">>
FailoverSteps == <<"refresh", "fence", "assign", "adopt", "ready", "publish">>

\* _step_order
StepsOf(j) == IF ActionOf[j] = "plan" THEN MoveSteps ELSE FailoverSteps

\* Mutant: the fence step relies on the evidence of the refresh step.
MutScript(step) ==
    CASE step = "retire-source" -> <<"retire", "await-retired">>
      [] step = "install-target" -> <<"prepare", "observe", "stage", "commit", "start">>
      [] step = "fence" -> <<"fence", "verify">>
      [] step = "adopt" -> <<"adopt", "observe", "start">>
      [] step = "ready" -> <<"await-ready">>
      [] OTHER -> <<step>>

\* Mutant: the retire step leaves the wait to the gate of assign.
MutScriptUnawaited(step) ==
    CASE step = "retire-source" -> <<"retire">>
      [] step = "install-target" -> <<"prepare", "observe", "stage", "commit", "start">>
      [] step = "fence" -> <<"incumbent", "fence", "verify">>
      [] step = "adopt" -> <<"adopt", "observe", "start">>
      [] step = "ready" -> <<"await-ready">>
      [] OTHER -> <<step>>

\* What a step asks for, in the order of its _step_ method.
Script(step) ==
    CASE step = "retire-source" -> <<"retire", "await-retired">>
      [] step = "install-target" -> <<"prepare", "observe", "stage", "commit", "start">>
      [] step = "fence" -> <<"incumbent", "fence", "verify">>
      [] step = "adopt" -> <<"adopt", "observe", "start">>
      [] step = "ready" -> <<"await-ready">>
      [] OTHER -> <<step>>

\* Labels carried out on the host of the source or of the target.
OnSource == {"freeze", "capture", "thaw", "retire"}
OnTarget == {"prepare", "adopt", "observe", "stage", "commit", "start"}
HostLabels == OnSource \cup OnTarget

\* The worker keeps a receipt for ever; the backup and restore commands and
\* observe can be asked again.
Journalled == {"freeze", "thaw", "retire", "prepare", "adopt", "start"}

Subject(j, l) == IF l \in OnSource THEN SourceOf[j] ELSE TargetOf[j]
Local(j, l) == HostOf[Subject(j, l)] = Home

Marks == {"none", "deferred", "completed"}
JobPhases == {"none", "planned", "completed", "aborted"}
               \cup ToSet(MoveSteps) \cup ToSet(FailoverSteps)
ProcPhases == {"none", "prepared", "running", "stopping", "stopped"}
Words == {"stale", "prepared", "running", "stopping", "stopped", "retired"}

Idle == [at |-> "idle", job |-> None, next |-> 0]

TypeOK ==
    /\ job \in [Jobs -> [phase : JobPhases, mark : Marks]]
    /\ call \in [at : {"idle", "gate", "step", "view", "save", "advance"},
                 job : Jobs \cup {None}, next : 0 .. 5]
    /\ placement \in [generation : Nat, instance : Instances, published : BOOLEAN]
    /\ fences \subseteq Nat
    /\ requests \subseteq Jobs \X {"assign", "publish", "fence"}
    /\ shown \in Words /\ ready \in BOOLEAN /\ heard \in BOOLEAN
    /\ queue \in [Jobs -> [HostLabels -> {"none", "open", "completed", "failed"}]]
    /\ receipt \in [Jobs -> [HostLabels -> {"none", "begun", "completed", "failed"}]]
    /\ proc \in [Instances -> [phase : ProcPhases, retired : BOOLEAN,
                               pending : BOOLEAN, data : 0 .. MaxWrites]]
    /\ barrier \in [Jobs -> {"none", "held", "released"}]
    /\ snapshot \in [Jobs -> Nat \cup {None}]
    /\ faults \in Nat /\ byHand \in BOOLEAN

NotPrepared == [phase |-> "none", retired |-> FALSE, pending |-> FALSE, data |-> 0]

Init ==
    /\ job = [j \in Jobs |-> [phase |-> "none", mark |-> "none"]]
    /\ call = Idle
    /\ placement = [generation |-> 1, instance |-> Origin, published |-> TRUE]
    /\ fences = {}
    /\ requests = {}
    /\ shown = "running"
    /\ ready = TRUE
    /\ heard = TRUE
    /\ queue = [j \in Jobs |-> [l \in HostLabels |-> "none"]]
    /\ receipt = [j \in Jobs |-> [l \in HostLabels |-> "none"]]
    /\ proc = [i \in Instances |->
                 IF i = Origin THEN [NotPrepared EXCEPT !.phase = "running"]
                 ELSE NotPrepared]
    /\ barrier = [j \in Jobs |-> "none"]
    /\ snapshot = [j \in Jobs |-> None]
    /\ faults = 0
    /\ byHand = FALSE

-----------------------------------------------------------------------------
(* What the controller reads                                               *)

\* _fresh_observation of the placed instance's row
Fresh == shown # "stale"

\* The row is the job's incumbent, or its successor.
ShowsSource(j) == placement.instance = SourceOf[j]
ShowsTarget(j) == placement.instance = TargetOf[j]

\* _require_dependencies, _verify_dependencies
DependenciesServe == Dependent => ready

\* _require_failover_evidence, and the second look of _step_fence
MayFence(j) == Fresh => EvidenceOf[j] = "operator"

-----------------------------------------------------------------------------
(* Plan, execute and abort                                                 *)

\* _plan and _new_failover_job: the record is saved, nothing else happens.
Plan(j) ==
    /\ call.at = "idle" /\ job[j].phase = "none"
    /\ ShowsSource(j) /\ DependenciesServe
    /\ IF ActionOf[j] = "plan" THEN Fresh ELSE MayFence(j)
    /\ job' = [job EXCEPT ![j].phase = "planned"]
    /\ UNCHANGED <<call, registry, evidence, queue, hosts, env>>

\* _execute and _failover: the record is loaded and _run_phases begins.
Execute(j) ==
    /\ call.at = "idle"
    /\ job[j].phase \notin {"none", "aborted", "completed"}
    /\ job' = [job EXCEPT ![j].phase =
                  IF job[j].phase = "planned" THEN Head(StepsOf(j)) ELSE job[j].phase]
    /\ call' = [at |-> "gate", job |-> j, next |-> 1]
    /\ heard' = (Fresh /\ ShowsSource(j))
    /\ UNCHANGED <<registry, shown, ready, queue, hosts, env>>

\* _abort
Abort(j) ==
    /\ call.at = "idle"
    /\ job[j].phase \notin {"none", "aborted", "completed", "retain"}
    /\ ~(job[j].phase = "publish" /\ job[j].mark = "completed")
    /\ job' = [job EXCEPT ![j] = [phase |-> "aborted", mark |-> "none"]]
    /\ UNCHANGED <<call, registry, evidence, queue, hosts, env>>

-----------------------------------------------------------------------------
(* The loop of _run_phases                                                 *)

J == call.job
Step == job[J].phase
Label == Script(Step)[call.next]
Doing(labels) == call.at = "step" /\ Label \in labels

\* _Deferred
Defer == /\ job' = [job EXCEPT ![J].mark = "deferred"]
         /\ call' = Idle

\* ControllerError: the answer is "blocked", and nothing is saved.
Blocked == call' = Idle /\ UNCHANGED job

Proceed ==
    /\ call' = IF call.next = Len(Script(Step)) THEN [call EXCEPT !.at = "save"]
               ELSE [call EXCEPT !.at = "step", !.next = @ + 1]
    /\ UNCHANGED job

\* The checkpoint's state, then _require_dependencies.
Gate ==
    /\ call.at = "gate"
    /\ \/ /\ job[J].mark = "completed"
          /\ call' = [call EXCEPT !.at = "advance"]
          /\ UNCHANGED job
       \/ /\ job[J].mark # "completed"
          /\ IF Step = "retain" \/ DependenciesServe
             THEN call' = [call EXCEPT !.at = "step"] /\ UNCHANGED job
             ELSE Defer
    /\ UNCHANGED <<registry, evidence, queue, hosts, env>>

Save ==
    /\ call.at = "save"
    /\ job' = [job EXCEPT ![J].mark = "completed"]
    /\ call' = [call EXCEPT !.at = "advance"]
    /\ UNCHANGED <<registry, evidence, queue, hosts, env>>

\* _advance and the save that follows it
Advance ==
    /\ call.at = "advance"
    /\ IF Step = Last(StepsOf(J))
       THEN /\ job' = [job EXCEPT ![J] = [phase |-> "completed", mark |-> "none"]]
            /\ call' = Idle
       ELSE /\ \E n \in 1 .. Len(StepsOf(J)) - 1 :
                 /\ StepsOf(J)[n] = Step
                 /\ job' = [job EXCEPT ![J] =
                              [phase |-> StepsOf(J)[n + 1], mark |-> "none"]]
            /\ call' = [call EXCEPT !.at = "gate", !.next = 1]
    /\ UNCHANGED <<registry, evidence, queue, hosts, env>>

-----------------------------------------------------------------------------
(* Steps that read /v2/state                                               *)

Unless(good) == IF good THEN Proceed ELSE Blocked
Await(good) == IF good THEN Proceed ELSE Defer

\* _step_validate, _step_refresh, _step_fence before and after the post,
\* _retired_evidence, _ready_detail.  Whether the target's host has a session
\* is shown by rows of other workloads: a refusal is an Interrupt here.
Look ==
    /\ \/ Doing({"validate"}) /\ Unless(ShowsSource(J) /\ Fresh)
       \/ Doing({"refresh", "incumbent"}) /\ Unless(ShowsSource(J) /\ MayFence(J))
       \/ Doing({"verify"}) /\ Unless(GenOf[SourceOf[J]] \in fences)
       \/ Doing({"await-retired"}) /\ Await(ShowsSource(J) /\ shown = "retired")
       \/ Doing({"await-ready"}) /\ Await(ShowsTarget(J) /\ shown = "running")
       \/ Doing({"retain"}) /\ Proceed
    /\ UNCHANGED <<registry, evidence, queue, hosts, env>>

-----------------------------------------------------------------------------
(* Steps that write to the registry: one request id each, replayed         *)

\* registry.py assign
Assignable(j) ==
    /\ placement.generation = GenOf[SourceOf[j]]
    /\ shown = "retired" \/ placement.generation \in fences
    /\ DependenciesServe

\* What an accepted request does; the fence is for the placement of now.
Commit(j, label) ==
    \/ /\ label = "assign"
       /\ placement' = [generation |-> GenOf[TargetOf[j]],
                        instance |-> TargetOf[j], published |-> FALSE]
       /\ shown' = "stale"
       /\ UNCHANGED fences
    \/ /\ label = "fence"
       /\ fences' = fences \cup {placement.generation}
       /\ UNCHANGED <<placement, shown>>
    \/ /\ label = "publish"
       /\ placement' = [placement EXCEPT !.published = TRUE]
       /\ UNCHANGED <<fences, shown>>

Post(j, label, accepts) ==
    \/ /\ <<j, label>> \in requests
       /\ Proceed
       /\ UNCHANGED <<registry, shown>>
    \/ /\ <<j, label>> \notin requests /\ ~accepts
       /\ Blocked
       /\ UNCHANGED <<registry, shown>>
    \/ /\ <<j, label>> \notin requests /\ accepts
       /\ requests' = requests \cup {<<j, label>>}
       /\ Proceed
       /\ Commit(j, label)

RegistryStep ==
    /\ \/ Doing({"assign"}) /\ Post(J, "assign", Assignable(J))
       \/ Doing({"fence"}) /\ Post(J, "fence",
                               placement.generation = GenOf[SourceOf[J]])
       \/ Doing({"publish"}) /\ Post(J, "publish",
                               /\ placement.generation = GenOf[TargetOf[J]]
                               /\ shown = "running" /\ DependenciesServe)
    /\ UNCHANGED <<ready, heard, queue, hosts, env>>

-----------------------------------------------------------------------------
(* Operations on a host: worker, backup and restore                        *)

\* Mutant: a held capture does not stop a start.
MutFrozen(i) == \E j \in Jobs : barrier[j] = "held" /\ TargetOf[j] = i

Frozen(i) == \E j \in Jobs : /\ barrier[j] = "held"
                             /\ HostOf[SourceOf[j]] = HostOf[i]

\* What the operation demands when it starts.
Admits(j, l) ==
    LET i == Subject(j, l)
        p == proc[i]
    IN  /\ l = "freeze" => /\ p.phase \in {"running", "stopped"}
                           /\ barrier[j] = "none" /\ ~Frozen(i)
        /\ l = "capture" => barrier[j] = "held" /\ p.phase = "stopped"
        /\ l = "thaw" => barrier[j] # "none" /\ p.phase = "stopped"
        /\ l \in {"retire", "observe"} => p.phase # "none"
        /\ l \in {"prepare", "adopt"} =>
              /\ p.phase = "none" /\ ~Frozen(i)
              /\ \A k \in Instances \ {i} : HostOf[k] = HostOf[i] =>
                    proc[k].phase \notin {"running", "stopping"}
        /\ l = "stage" => p.phase = "prepared" /\ snapshot[j] # None
        /\ l = "commit" => p.phase = "prepared" /\ p.pending
        /\ l = "start" => /\ p.phase \in {"prepared", "stopped", "running"}
                          /\ ~p.retired /\ ~p.pending /\ ~Frozen(i)

\* These commit first, and complete when the unit is down.
TwoPhased == {"freeze", "retire"}

Receive(j, l, status) == receipt' = [receipt EXCEPT ![j][l] = status]

\* What the commit of `freeze` or `retire` leaves of an instance: its permit
\* is revoked, before `systemctl stop`.
Revoked(p, l) ==
    [p EXCEPT !.phase = IF p.phase = "stopped" THEN "stopped" ELSE "stopping",
              !.retired = p.retired \/ l = "retire"]

\* What a completed operation leaves, the capture's data in the case of `commit`.
Carried(p, l, copy) ==
    CASE l \in {"prepare", "adopt"} -> [p EXCEPT !.phase = "prepared"]
      [] l = "stage" -> [p EXCEPT !.pending = TRUE]
      [] l = "commit" -> [p EXCEPT !.pending = FALSE, !.data = copy]
      [] l = "start" -> [p EXCEPT !.phase = "running"]
      [] OTHER -> p

HostBegins(j, l) ==
    LET i == Subject(j, l) IN
    /\ receipt[j][l] = "none" /\ l \in TwoPhased /\ Admits(j, l)
    /\ proc' = [proc EXCEPT ![i] = Revoked(proc[i], l)]
    /\ barrier' = IF l = "freeze" THEN [barrier EXCEPT ![j] = "held"] ELSE barrier
    /\ Receive(j, l, "begun")
    /\ UNCHANGED snapshot

HostCompletes(j, l) ==
    LET i == Subject(j, l) IN
    /\ IF l \in TwoPhased THEN receipt[j][l] = "begun" /\ proc[i].phase = "stopped"
       ELSE receipt[j][l] = "none" /\ Admits(j, l)
    /\ proc' = [proc EXCEPT ![i] = Carried(proc[i], l, snapshot[j])]
    /\ snapshot' = IF l = "capture" THEN [snapshot EXCEPT ![j] = proc[i].data]
                   ELSE snapshot
    /\ barrier' = IF l = "thaw" THEN [barrier EXCEPT ![j] = "released"] ELSE barrier
    /\ Receive(j, l, "completed")

\* A refusal, at any time before the first commit, becomes the receipt.
HostRefuses(j, l) ==
    /\ receipt[j][l] = "none" /\ l \in Journalled
    /\ Receive(j, l, "failed")
    /\ UNCHANGED <<proc, barrier, snapshot>>

HostWorks(j, l) == HostBegins(j, l) \/ HostCompletes(j, l) \/ HostRefuses(j, l)

\* `stopping` instances go down; any instance may stop by itself.
Down(i) ==
    /\ proc[i].phase \in {"running", "stopping"}
    /\ proc' = [proc EXCEPT ![i].phase = "stopped"]
    /\ UNCHANGED <<job, call, registry, evidence, queue, receipt, barrier,
                   snapshot, env>>

-----------------------------------------------------------------------------
(* A host label of a step                                                  *)

\* Mutant: no local step asks again once its checkpoint is deferred.
MutSkipsLocal == job[J].mark = "deferred"

\* _step_retire_source asks the worker unless the checkpoint is deferred.
SkipsLocal == Label = "retire" /\ job[J].mark = "deferred"

LocalStep ==
    /\ Doing(HostLabels) /\ Local(J, Label)
    /\ \/ /\ SkipsLocal \/ receipt[J][Label] = "completed"
          /\ Proceed /\ UNCHANGED hosts
       \/ /\ ~SkipsLocal /\ receipt[J][Label] = "failed"
          /\ Blocked /\ UNCHANGED hosts
       \/ /\ ~SkipsLocal /\ HostWorks(J, Label)
          /\ UNCHANGED <<job, call>>
       \/ /\ ~SkipsLocal /\ Label \notin Journalled
          /\ receipt[J][Label] = "none" /\ ~Admits(J, Label)
          /\ Blocked /\ UNCHANGED hosts
    /\ UNCHANGED <<registry, evidence, queue, env>>

\* _remote_step, the post: bound to the current placement and its host.
Dispatch ==
    /\ Doing(HostLabels) /\ ~Local(J, Label)
    /\ \/ /\ queue[J][Label] = "none"
          /\ placement.instance # Subject(J, Label)
          /\ Blocked /\ UNCHANGED queue
       \/ /\ queue[J][Label] = "none"
          /\ placement.instance = Subject(J, Label)
          /\ queue' = [queue EXCEPT ![J][Label] = "open"]
          /\ call' = [call EXCEPT !.at = "view"] /\ UNCHANGED job
       \/ /\ queue[J][Label] # "none"
          /\ call' = [call EXCEPT !.at = "view"] /\ UNCHANGED <<job, queue>>
    /\ UNCHANGED <<registry, evidence, hosts, env>>

\* _remote_step, the last of its looks at the operation.
View ==
    /\ call.at = "view"
    /\ \/ queue[J][Label] = "completed" /\ Proceed
       \/ queue[J][Label] = "failed" /\ Blocked
       \/ queue[J][Label] = "open" /\ Defer
    /\ UNCHANGED <<registry, evidence, queue, hosts, env>>

-----------------------------------------------------------------------------
(* Everybody else                                                          *)

\* The reporter of the host works on a queued operation (reporter.py
\* _execute_entry) ...
Reporter(j, l) ==
    /\ ~Local(j, l) /\ queue[j][l] = "open"
    /\ \/ HostWorks(j, l)
       \/ /\ l \notin Journalled /\ receipt[j][l] = "none"
          /\ Receive(j, l, "failed")
          /\ UNCHANGED <<proc, barrier, snapshot>>
    /\ UNCHANGED <<job, call, registry, evidence, queue, env>>

\* _worker_result: "uncertain" keeps the claim for the next cycle.
Settled == {"completed", "failed"}

\* ... and posts its receipt.
PostReceipt(j, l) ==
    /\ ~Local(j, l) /\ queue[j][l] = "open"
    /\ receipt[j][l] \in Settled
    /\ queue' = [queue EXCEPT ![j][l] = receipt[j][l]]
    /\ UNCHANGED <<job, call, registry, evidence, hosts, env>>

\* registry.py _observed_state of a fresh report
WordOf(i) ==
    IF proc[i].retired /\ proc[i].phase = "stopped" THEN "retired" ELSE proc[i].phase

Report ==
    /\ proc[placement.instance].phase # "none"
    /\ shown # WordOf(placement.instance)
    /\ shown' = WordOf(placement.instance)
    /\ UNCHANGED <<job, call, registry, ready, heard, queue, hosts, env>>

Write(i) ==
    /\ proc[i].phase \in {"running", "stopping"} /\ proc[i].data < MaxWrites
    /\ proc' = [proc EXCEPT ![i].data = proc[i].data + 1]
    /\ UNCHANGED <<job, call, registry, evidence, queue, receipt, barrier,
                   snapshot, env>>

Fault == faults < MaxFaults /\ faults' = faults + 1

\* The host stops reporting, or the registry restarts.
GoStale ==
    /\ Fault /\ Fresh
    /\ shown' = "stale" /\ heard' = FALSE
    /\ UNCHANGED <<job, call, registry, ready, queue, hosts, byHand>>

LoseDependency ==
    /\ Fault /\ Dependent /\ ready
    /\ ready' = FALSE
    /\ UNCHANGED <<job, call, registry, shown, heard, queue, hosts, byHand>>

RegainDependency ==
    /\ ~ready
    /\ ready' = TRUE
    /\ UNCHANGED <<job, call, registry, shown, heard, queue, hosts, env>>

\* The controller dies, loses an answer, or a read or a program fails.
Interrupt ==
    /\ Fault /\ call.at # "idle"
    /\ call' = Idle
    /\ UNCHANGED <<job, registry, evidence, queue, hosts, byHand>>

\* Somebody starts a stopped instance through the worker, by hand.
StartByHand(i) ==
    /\ Fault
    /\ proc[i].phase \in {"prepared", "stopped"}
    /\ ~proc[i].retired /\ ~proc[i].pending /\ ~Frozen(i)
    /\ proc' = [proc EXCEPT ![i].phase = "running"]
    /\ byHand' = (byHand \/ \E j \in Jobs :
                     \/ TargetOf[j] = i
                     \/ SourceOf[j] = i /\ barrier[j] = "released")
    /\ UNCHANGED <<job, call, registry, evidence, queue, receipt, barrier, snapshot>>

-----------------------------------------------------------------------------

Run == \/ Gate \/ Save \/ Advance \/ Look \/ RegistryStep
       \/ LocalStep \/ Dispatch \/ View

Hosted == \E j \in Jobs, l \in HostLabels : Reporter(j, l) \/ PostReceipt(j, l)

Next == \/ \E j \in Jobs : Plan(j) \/ Execute(j) \/ Abort(j)
        \/ Run
        \/ Hosted
        \/ \E i \in Instances : Down(i) \/ Write(i) \/ StartByHand(i)
        \/ Report \/ GoStale \/ LoseDependency \/ RegainDependency
        \/ Interrupt

Spec == Init /\ [][Next]_vars

Stops(i) == proc[i].phase = "stopping" /\ Down(i)

\* The operator executes a deferred or blocked job again; a call, a reporter
\* and a stop take their steps; a host reports; dependencies come back.
Fairness == /\ \A j \in Jobs : SF_vars(Execute(j))
            /\ WF_vars(Run)
            /\ WF_vars(Report) /\ WF_vars(RegainDependency)
            /\ \A j \in Jobs, l \in HostLabels :
                  WF_vars(Reporter(j, l)) /\ WF_vars(PostReceipt(j, l))
            /\ \A i \in Instances : WF_vars(Stops(i))

FairSpec == Spec /\ Fairness

-----------------------------------------------------------------------------
(* Properties                                                              *)

Alive(i) == proc[i].phase \in {"running", "stopping"}

\* Only moves have placed a successor; a failover may be under way, aborted,
\* or refused, and may have left its fence behind.
MovedByMoves == \A j \in Jobs : <<j, "assign">> \in requests => ActionOf[j] = "plan"

\* controller.py, module docstring: "the source can never run again once
\* retired, so no overlap is possible".  However many moves of the workload
\* are under way, wherever their calls were cut short, and whatever fence a
\* failover that came to nothing left under the incumbent's generation, at
\* most one instance has processes: a move retires its source by itself and
\* never rests on a fence it did not post.  (Once a failover has assigned,
\* instances may overlap: its caller answers for the fence.)
NoOverlap ==
    MovedByMoves => \A i, k \in Instances : Alive(i) /\ Alive(k) => i = k

\* The target of a move starts from all the source ever wrote: what is
\* written while the source goes down is in the capture, and a resumed job
\* never restores an older one, although anybody may start the source by hand
\* before the freeze and try to during the barrier.  Between thaw and retire
\* the barrier is gone and a start by hand is a loss the code does not prevent.
NothingLost ==
    \A j \in Jobs :
        ActionOf[j] = "plan" /\ Alive(TargetOf[j]) /\ ~byHand =>
            /\ proc[SourceOf[j]].data = snapshot[j]
            /\ proc[TargetOf[j]].data >= snapshot[j]

\* A step of the job lies behind it: a later one is in the journal, or its
\* own checkpoint is completed.
Behind(j, step) ==
    LET steps == StepsOf(j)
        p == job[j].phase
    IN  /\ step \in ToSet(steps)
        /\ \/ p = "completed"
           \/ p = step /\ job[j].mark = "completed"
           \/ \E n \in 1 .. Len(steps) :
                 steps[n] = p /\ \E m \in 1 .. n - 1 : steps[m] = step

\* The journal never runs ahead of the world: what lies behind a job has
\* happened on the hosts and in the registry, and is not undone, whatever
\* calls were cut short between a save and the action it describes.
JournalHonest ==
    \A j \in Jobs :
        /\ Behind(j, "freeze") => barrier[j] # "none"
        /\ Behind(j, "capture") => snapshot[j] # None
        /\ Behind(j, "thaw") => barrier[j] = "released"
        /\ Behind(j, "retire-source") =>
              proc[SourceOf[j]].retired /\ ~Alive(SourceOf[j])
        /\ Behind(j, "fence") => GenOf[SourceOf[j]] \in fences
        /\ Behind(j, "assign") => placement.generation >= GenOf[TargetOf[j]]
        /\ Behind(j, "install-target") \/ Behind(j, "adopt") =>
              proc[TargetOf[j]].phase \notin {"none", "prepared"}
        /\ Behind(j, "publish") =>
              placement.published \/ placement.generation > GenOf[TargetOf[j]]

\* controller.py _step_fence: "a revived incumbent must never be fenced by
\* replay".  A call all through which the incumbent's row was fresh commits
\* no fence, unless the operator overrides.
RevivedNotFenced ==
    [][fences' # fences => ~heard \/ EvidenceOf[call.job] = "operator"]_vars

\* controller.py _abort: "Route ownership moved once publish completed";
\* docstring: "abortable until publish".  A job that was aborted had not
\* moved the routes.
AbortBeforePublish ==
    [][\A j \in Jobs :
          job[j].phase # "aborted" /\ job'[j].phase = "aborted"
          => ~(placement.instance = TargetOf[j] /\ placement.published)]_vars

\* One of the job's operations failed for good, its target stopped or was
\* started by somebody else, or another job moved the workload.
Hopeless(j) ==
    \/ byHand
    \/ \E l \in HostLabels : receipt[j][l] = "failed"
    \/ proc[TargetOf[j]].phase = "stopped"
    \/ placement.instance \notin {SourceOf[j], TargetOf[j]}

\* Every planned job is completed or aborted in the end, unless it is
\* hopeless: a deferral (a lost dependency, evidence not yet there, a remote
\* operation under way) ends once what it waits for is there (_run_phases,
\* module docstring; test_controller.py "recovers when the dep comes back").
JobEnds ==
    \A j \in Jobs :
        (job[j].phase # "none")
          ~> (job[j].phase \in {"completed", "aborted"} \/ Hopeless(j))
=============================================================================
