------------------------------- MODULE Worker -------------------------------
(***************************************************************************)
(* The local worker of one host (console/worker.py): a journal of          *)
(* operations and of instances in SQLite, systemd units that the worker    *)
(* starts and stops, and the permit guard that systemd runs as the unit's  *)
(* ExecCondition.                                                          *)
(*                                                                         *)
(* Three actors interleave.  One worker call at a time holds the host lock *)
(* and goes through reconcile, serve, probe, act, issue, wait, settle and  *)
(* finish; every commit of the code is a step, so a crash can fall between *)
(* any two of them.  systemd runs units at its own pace.  The guard takes  *)
(* no lock: it reads the row (GuardRead) and later consumes the permit     *)
(* (GuardConsume), and the worker may act in between.                      *)
(***************************************************************************)
EXTENDS Integers, FiniteSets

CONSTANTS
    Workloads, Instances, Captures, Operations,
    WorkloadOf,     \* the workload of an instance
    GenOf,          \* the generation of an instance
    ActionOf,       \* the action an operation requests
    InstanceOf,     \* the instance an operation names
    CaptureOf,      \* the capture a freeze or a thaw names, None otherwise
    MaxFaults,      \* bound: crashes, reboots, timeouts, failed looks, strays
    None

ASSUME RequestAssumption ==
    /\ WorkloadOf \in [Instances -> Workloads]
    /\ GenOf \in [Instances -> Nat \ {0}]
    /\ ActionOf \in [Operations -> {"prepare", "adopt", "start", "stop",
                                    "retire", "freeze", "thaw"}]
    /\ InstanceOf \in [Operations -> Instances]
    /\ CaptureOf \in [Operations -> Captures \cup {None}]
    /\ \A o \in Operations :
          ActionOf[o] \in {"freeze", "thaw"} => CaptureOf[o] \in Captures
    /\ None \notin Instances \cup Operations \cup Captures
    /\ MaxFaults \in Nat

VARIABLES
    row,        \* instances table; phase "none" when there is no row
    known,      \* generations table: the highest generation seen, 0 if none
    capture,    \* captures table
    ops,        \* operations table: status and the phase its receipt names
    unit,       \* what systemd does with the unit of an instance
    call,       \* the worker call that holds the lock
    activations,\* times the guard let an instance through (history)
    faults      \* failures so far, at most MaxFaults

vars == <<row, known, capture, ops, unit, call, activations, faults>>

Phases == {"preparing", "prepared", "starting", "running", "stopping",
           "stopped", "unknown"}

\* "down" is inactive or failed with an empty cgroup, "lingering" the same
\* with processes left; "queued" is a start job not yet run, "condition" the
\* guard of the unit at work.
UnitStates == {"down", "queued", "condition", "activating", "active",
               "deactivating", "lingering"}

\* Processes of the workload may exist.
Alive == {"activating", "active", "deactivating", "lingering"}

\* What `systemctl show` and cgroup.events tell of a unit; "unreadable" is
\* the None of _show, "undetermined" an inactive unit whose cgroup cannot be
\* read.
Views == {"down", "activating", "active", "deactivating", "lingering",
          "undetermined", "unreadable"}

ViewOf(u) == IF u = "queued" THEN "down"
             ELSE IF u = "condition" THEN "activating" ELSE u

\* Mutant: an inactive unit counts as drained when its cgroup is unreadable.
MutDrainedOf(view) == CASE view \in {"down", "undetermined"} -> "yes"
                        [] view = "unreadable" -> "unknown"
                        [] OTHER -> "no"

\* _unit_drained: True, False or None.
DrainedOf(view) == CASE view = "down" -> "yes"
                     [] view \in {"undetermined", "unreadable"} -> "unknown"
                     [] OTHER -> "no"

NoRow == [phase |-> "none", permit |-> FALSE, live |-> FALSE,
          retired |-> FALSE, adopted |-> FALSE]

\* `live`: boot_id is the host's and the permit deadline lies ahead.
Rows == [phase : Phases \cup {"none"}, permit : BOOLEAN, live : BOOLEAN,
         retired : BOOLEAN, adopted : BOOLEAN]

CaptureRows == [status : {"none", "held", "released"},
                instance : Instances \cup {None}]

AppliedPhases == Phases \cup {"unchanged"}

Journal == [status : {"new", "pending", "completed", "failed"},
            phase : AppliedPhases]

Stages == {"idle", "reconcile", "serve", "probe", "act", "render",
           "issue-start", "issue-stop", "wait-start", "wait-stop",
           "look-start", "look-stop", "settle-start", "settle-stop", "finish"}

Calls == [at      : Stages,
          op      : Operations \cup {None},  \* the request; None: observe
          cur     : Operations \cup {None},  \* the operation worked on
          resumed : BOOLEAN,                 \* _resume rather than _run
          todo    : SUBSET Instances,        \* rows left to reconcile
          who     : Instances \cup {None},   \* row looked at by _reconcile
          seen    : Views \cup {None},       \* the last look at a unit
          permit  : BOOLEAN,                 \* rec['permit'] when looked at
          out     : Journal \cup {None}]     \* the receipt _finish will write

Idle == [at |-> "idle", op |-> None, cur |-> None, resumed |-> FALSE,
         todo |-> {}, who |-> None, seen |-> None, permit |-> FALSE,
         out |-> None]

Siblings(i) == {j \in Instances : WorkloadOf[j] = WorkloadOf[i]}

TypeOK ==
    /\ row \in [Instances -> Rows]
    /\ known \in [Workloads -> Nat]
    /\ capture \in [Captures -> CaptureRows]
    /\ ops \in [Operations -> Journal]
    /\ unit \in [Instances -> UnitStates]
    /\ call \in Calls
    /\ activations \in [Instances -> Nat]
    /\ faults \in Nat

Init ==
    /\ row = [i \in Instances |-> NoRow]
    /\ known = [w \in Workloads |-> 0]
    /\ capture = [c \in Captures |-> [status |-> "none", instance |-> None]]
    /\ ops = [o \in Operations |-> [status |-> "new", phase |-> "unchanged"]]
    /\ unit = [i \in Instances |-> "down"]
    /\ call = Idle
    /\ activations = [i \in Instances |-> 0]
    /\ faults = 0

-----------------------------------------------------------------------------
(* Helpers of the code                                                     *)

tables == <<row, known, capture, ops>>
host == <<unit, activations>>

Current == {"preparing", "prepared", "starting", "running", "stopping",
            "unknown"}

\* The unique index current_workload: one row per workload in these phases.
IndexAllows(i, phase) ==
    phase \in Current =>
        \A j \in Siblings(i) \ {i} : row[j].phase \notin Current

\* Mutant: a capture is looked up by instance, not by workload.
MutFrozen(i) == \E c \in Captures : capture[c] = [status |-> "held", instance |-> i]

\* _held_capture
Frozen(i) == \E c \in Captures :
                /\ capture[c].status = "held"
                /\ WorkloadOf[capture[c].instance] = WorkloadOf[i]

\* _check_generation_current
GenerationCurrent(i) == known[WorkloadOf[i]] = GenOf[i]

\* _set_highest_generation
RaiseGeneration(i) ==
    LET w == WorkloadOf[i]
    IN  known' = [known EXCEPT ![w] = IF GenOf[i] > @ THEN GenOf[i] ELSE @]

\* A look at a unit; losing the answer is a fault.
Look(i, view) ==
    \/ view = ViewOf(unit[i]) /\ UNCHANGED faults
    \/ /\ faults < MaxFaults
       /\ faults' = faults + 1
       /\ \/ view = "unreadable"
          \/ view = "undetermined" /\ ViewOf(unit[i]) \in {"down", "lingering"}

At(stage) == call.at = stage
Target == InstanceOf[call.cur]
Asks(actions) == call.cur # None /\ ActionOf[call.cur] \in actions

Goto(stage) == call' = [call EXCEPT !.at = stage]

\* The receipt to write next; the row is committed before it.
Conclude(status, phase) ==
    call' = [call EXCEPT !.at = "finish",
                         !.out = [status |-> status, phase |-> phase]]

\* WorkerError inside _run or _resume
Refuse == Conclude("failed", "unchanged") /\ UNCHANGED <<row, known, capture>>

\* UncertainError and the internal errors: the answer is "uncertain" and the
\* operation stays pending.
Uncertain == call' = Idle /\ UNCHANGED <<row, known, capture>>

SetPhase(i, phase) == row' = [row EXCEPT ![i].phase = phase]
Settle(i, phase) ==
    row' = [row EXCEPT ![i] = [@ EXCEPT !.phase = phase, !.permit = FALSE]]

-----------------------------------------------------------------------------
(* execute: the lock, reconcile, and the choice of what to work on         *)

Reconcilable == {"starting", "stopping", "running", "unknown"}

Submit(o) ==
    /\ At("idle")
    /\ call' = [Idle EXCEPT !.at = "reconcile", !.op = o, !.cur = o,
                  !.todo = {i \in Instances : row[i].phase \in Reconcilable}]
    /\ UNCHANGED <<tables, host, faults>>

ReconcileLook(i) ==
    /\ At("reconcile") /\ call.who = None /\ i \in call.todo
    /\ \E view \in Views :
          /\ Look(i, view)
          /\ call' = [call EXCEPT !.who = i, !.seen = view]
    /\ UNCHANGED <<tables, host>>

\* What _reconcile makes of a row, from its phase and the look at its unit.
Reconciled(r, view) ==
    LET drained == DrainedOf(view)
        to(phase, permit) == [r EXCEPT !.phase = phase, !.permit = permit]
    IN  CASE r.phase = "starting" /\ view = "active" -> to("running", FALSE)
          [] r.phase = "starting" /\ drained = "yes" -> to("stopped", FALSE)
          [] r.phase = "starting" /\ view # "unreadable" /\ ~r.live ->
                to("unknown", FALSE)
          [] r.phase = "stopping" /\ drained = "yes" -> to("stopped", r.permit)
          [] r.phase = "stopping" /\ drained = "no" -> to("unknown", r.permit)
          [] r.phase = "running" /\ drained = "yes" -> to("stopped", r.permit)
          [] r.phase = "running" /\ view \notin {"active", "down", "unreadable"} ->
                to("unknown", r.permit)
          [] r.phase = "unknown" /\ view = "active" -> to("running", FALSE)
          [] r.phase = "unknown" /\ drained = "yes" -> to("stopped", r.permit)
          [] OTHER -> r

ReconcileApply ==
    /\ At("reconcile") /\ call.who # None
    /\ row' = [row EXCEPT ![call.who] = Reconciled(@, call.seen)]
    /\ call' = [call EXCEPT !.todo = @ \ {call.who}, !.who = None, !.seen = None]
    /\ UNCHANGED <<known, capture, ops, host, faults>>

\* An observe, or the receipt of a settled operation, ends the call here.
Answer ==
    /\ At("reconcile") /\ call.todo = {} /\ call.who = None
    /\ \/ call.op = None
       \/ call.op # None /\ ops[call.op].status \in {"completed", "failed"}
    /\ call' = Idle
    /\ UNCHANGED <<tables, host, faults>>

WorkOn(o, resumed) ==
    call' = [call EXCEPT !.at = "probe", !.cur = o, !.resumed = resumed]

\* Pending operations of the same workload (an instance has one workload).
InTheWay(o) == {p \in Operations \ {o} :
                  /\ ops[p].status = "pending"
                  /\ InstanceOf[p] \in Siblings(InstanceOf[o])}

\* Resume the operation itself, or one that is in its way, or journal it.
Serve ==
    /\ \/ At("reconcile") /\ call.todo = {} /\ call.who = None
       \/ At("serve")
    /\ call.op # None
    /\ LET o == call.op IN
       \/ /\ ops[o].status = "pending" /\ WorkOn(o, TRUE)
          /\ UNCHANGED ops
       \/ /\ ops[o].status = "new"
          /\ \E p \in InTheWay(o) : WorkOn(p, TRUE)
          /\ UNCHANGED ops
       \/ /\ ops[o].status = "new" /\ InTheWay(o) = {}
          /\ ops' = [ops EXCEPT ![o].status = "pending"]
          /\ WorkOn(o, FALSE)
    /\ UNCHANGED <<row, known, capture, host, faults>>

\* The look that precedes a decision: the unit of the instance, or, for a new
\* instance, those of every instance of the workload (_check_workload_drained).
Probe ==
    /\ At("probe")
    /\ \E view \in Views :
          /\ IF Asks({"prepare", "adopt"})
             THEN \/ /\ view = "down"
                     /\ \A j \in Siblings(Target) :
                           row[j].phase # "none" => ViewOf(unit[j]) = "down"
                     /\ UNCHANGED faults
                  \/ /\ view # "down"
                     /\ \E j \in Siblings(Target) :
                           row[j].phase # "none" /\ Look(j, view)
             ELSE Look(Target, view)
          /\ call' = [call EXCEPT !.at = "act", !.seen = view,
                                  !.permit = row[Target].permit]
    /\ UNCHANGED <<tables, host>>

-----------------------------------------------------------------------------
(* The actions of a request.  A gate that reads the configuration, the     *)
(* bundles, the mount, the capacity or the disk may refuse at any time.    *)

Unknown(i) == row[i].phase = "none"

\* Mutant: only a unit seen active stops a new instance.
MutOthersDrained == call.seen # "active"

\* _check_workload_drained
OthersDrained == call.seen = "down"

\* _prepare up to the journal of the row
Prepare ==
    /\ At("act") /\ Asks({"prepare", "adopt"})
    /\ LET i == Target
           adopt == ActionOf[call.cur] = "adopt"
           fresh == /\ Unknown(i)
                    /\ GenOf[i] > known[WorkloadOf[i]]
                    /\ OthersDrained
                    /\ IndexAllows(i, "preparing")
           again == /\ row[i].phase \in {"preparing", "prepared"}
                    /\ ~row[i].retired
                    /\ row[i].adopted = adopt
       IN  \/ Refuse
           \/ /\ fresh /\ ~Frozen(i)
              /\ row' = [row EXCEPT ![i] =
                           [NoRow EXCEPT !.phase = "preparing", !.adopted = adopt]]
              /\ RaiseGeneration(i)
              /\ Goto("render")
              /\ UNCHANGED capture
           \/ /\ again /\ ~Frozen(i)
              /\ IF row[i].phase = "prepared"
                 THEN Conclude("completed", "prepared") ELSE Goto("render")
              /\ UNCHANGED <<row, known, capture>>
    /\ UNCHANGED <<ops, host, faults>>

\* Directories, secrets and runtime files; an error leaves the row preparing.
Render ==
    /\ At("render")
    /\ \/ Refuse
       \/ /\ SetPhase(Target, "prepared")
          /\ RaiseGeneration(Target)
          /\ Conclude("completed", "prepared")
          /\ UNCHANGED capture
    /\ UNCHANGED <<ops, host, faults>>

\* _start up to the commit of the permit.
GrantPermit(i) ==
    /\ row' = [row EXCEPT ![i] = [@ EXCEPT !.phase = "starting",
                                    !.permit = TRUE, !.live = TRUE]]
    /\ Goto("issue-start")
    /\ UNCHANGED <<known, capture>>

StartBody(i) ==
    \/ Refuse
    \/ /\ ~row[i].retired /\ GenerationCurrent(i) /\ ~Frozen(i)
       /\ \/ /\ row[i].phase = "running" /\ call.seen = "unreadable" /\ Uncertain
          \/ /\ row[i].phase = "running" /\ call.seen = "active"
             /\ Conclude("completed", "running")
             /\ UNCHANGED <<row, known, capture>>
          \/ /\ row[i].phase = "running"
             /\ call.seen \notin {"unreadable", "active", "down"}
             /\ SetPhase(i, "unknown") /\ call' = Idle
             /\ UNCHANGED <<known, capture>>
          \/ /\ row[i].phase = "running" /\ call.seen = "down"
             /\ SetPhase(i, "stopped")          \* and on as from stopped
             /\ UNCHANGED <<known, capture, call>>
          \/ /\ row[i].phase \in {"prepared", "stopped"}
             /\ IF IndexAllows(i, "starting") THEN GrantPermit(i) ELSE Uncertain

Start ==
    /\ At("act") /\ Asks({"start"}) /\ ~call.resumed
    /\ StartBody(Target)
    /\ UNCHANGED <<ops, host, faults>>

\* Mutant: the word of the answer is recorded as the phase.
MutStartUnclear(i) == Settle(i, "uncertain") /\ call' = Idle

\* The outcome of a start read off the unit, and its commit.
StartedIt(i) == Settle(i, "running") /\ Conclude("completed", "running")
StartFailed(i) == Settle(i, "stopped") /\ Conclude("failed", "stopped")
StartUnclear(i) == Settle(i, "unknown") /\ call' = Idle

PermitLive(i) == call.permit /\ row[i].live

ResumeStart ==
    /\ At("act") /\ Asks({"start"}) /\ call.resumed
    /\ LET i == Target
           phase == row[i].phase
           view == call.seen
           hidden == view \in {"unreadable", "activating"}
           down == view = "down"
       IN  IF \/ row[i].retired \/ Frozen(i)
              \/ phase \in {"none", "preparing", "stopping"}
           THEN Refuse
           ELSE \/ phase = "prepared" /\ StartBody(i)
                \/ /\ phase = "stopped" /\ Conclude("failed", "stopped")
                   /\ UNCHANGED <<row, known, capture>>
                \/ /\ phase \in {"running", "unknown", "starting"}
                   /\ \/ view = "active" /\ StartedIt(i)
                      \/ /\ down /\ (phase = "starting" => ~PermitLive(i))
                         /\ StartFailed(i)
                      \/ /\ phase = "starting" /\ ~PermitLive(i)
                         /\ ~hidden /\ view # "active" /\ ~down
                         /\ StartUnclear(i)
                      \/ /\ view # "active"
                         /\ \/ hidden
                            \/ phase = "starting" /\ PermitLive(i)
                            \/ phase # "starting" /\ ~down
                         /\ UNCHANGED row /\ call' = Idle
                   /\ UNCHANGED <<known, capture>>
    /\ UNCHANGED <<ops, host, faults>>

\* Commit "stopping" before the stop is issued, unless the unique index
\* refuses the row (an internal error: the operation stays pending).
BeginStop(i, retire) ==
    IF IndexAllows(i, "stopping")
    THEN /\ row' = [row EXCEPT ![i] = [@ EXCEPT !.phase = "stopping",
                        !.permit = FALSE, !.retired = row[i].retired \/ retire]]
         /\ Goto("issue-stop")
         /\ UNCHANGED <<known, capture>>
    ELSE Uncertain

Stop ==
    /\ At("act") /\ Asks({"stop"}) /\ ~call.resumed
    /\ LET i == Target IN
       \/ Refuse
       \/ /\ row[i].phase = "stopped" /\ call.seen = "down"
          /\ Conclude("completed", "stopped")
          /\ UNCHANGED <<row, known, capture>>
       \/ /\ row[i].phase \notin {"none", "preparing", "starting"}
          /\ row[i].phase = "stopped" => call.seen # "down"
          /\ BeginStop(i, FALSE)
    /\ UNCHANGED <<ops, host, faults>>

\* Mutant: a resumed stop only looks, and does not issue the stop again.
MutStopAgain(i) ==
    IF row[i].phase \in {"none", "preparing", "starting"}
    THEN Refuse
    ELSE \/ /\ call.seen = "down"
            /\ Settle(i, "stopped") /\ Conclude("completed", "stopped")
            /\ UNCHANGED <<known, capture>>
         \/ call.seen # "down" /\ Uncertain

\* _resume_stop
StopAgain(i) ==
    IF row[i].phase \in {"none", "preparing", "starting"}
    THEN Refuse
    ELSE \/ /\ call.seen = "down"
            /\ Settle(i, "stopped") /\ Conclude("completed", "stopped")
            /\ UNCHANGED <<known, capture>>
         \/ call.seen = "unreadable" /\ Uncertain
         \/ call.seen \notin {"down", "unreadable"} /\ BeginStop(i, FALSE)

ResumeStop ==
    /\ At("act") /\ Asks({"stop"}) /\ call.resumed
    /\ StopAgain(Target)
    /\ UNCHANGED <<ops, host, faults>>

\* _retire and _resume_retire
Retire ==
    /\ At("act") /\ Asks({"retire"})
    /\ LET i == Target IN
       IF call.resumed /\ row[i].retired
       THEN StopAgain(i)
       ELSE \/ Refuse
            \/ ~Unknown(i) /\ BeginStop(i, TRUE)
    /\ UNCHANGED <<ops, host, faults>>

\* _freeze and _resume_freeze: both begin at the capture's row.
Freeze ==
    /\ At("act") /\ Asks({"freeze"})
    /\ LET i == Target
           c == CaptureOf[call.cur]
       IN  \/ Refuse
           \/ /\ ~Unknown(i) /\ GenerationCurrent(i)
              /\ capture[c] = [status |-> "held", instance |-> i]
              /\ StopAgain(i)
           \/ /\ ~Unknown(i) /\ GenerationCurrent(i)
              /\ capture[c].status = "none" /\ ~Frozen(i)
              /\ row[i].phase \in {"running", "stopped"}
              /\ IF IndexAllows(i, "stopping")
                 THEN /\ capture' = [capture EXCEPT ![c] =
                                       [status |-> "held", instance |-> i]]
                      /\ Settle(i, "stopping")
                      /\ Goto("issue-stop")
                      /\ UNCHANGED known
                 ELSE Uncertain
    /\ UNCHANGED <<ops, host, faults>>

Thaw ==
    /\ At("act") /\ Asks({"thaw"})
    /\ LET i == Target
           c == CaptureOf[call.cur]
           drained == DrainedOf(call.seen)
       IN  \/ Refuse
           \/ /\ capture[c] = [status |-> "released", instance |-> i]
              /\ Conclude("completed", row[i].phase)
              /\ UNCHANGED <<row, known, capture>>
           \/ /\ capture[c] = [status |-> "held", instance |-> i]
              /\ \/ row[i].phase = "unknown" /\ Uncertain
                 \/ /\ row[i].phase = "stopped" /\ ~row[i].permit
                    /\ \/ drained = "unknown" /\ Uncertain
                       \/ /\ drained = "yes"
                          /\ capture' = [capture EXCEPT ![c].status = "released"]
                          /\ Conclude("completed", "stopped")
                          /\ UNCHANGED <<row, known>>
    /\ UNCHANGED <<ops, host, faults>>

-----------------------------------------------------------------------------
(* The systemctl call, the look after it, and the commit of its outcome    *)

\* `systemctl start` queues a job; a unit on its way keeps its own.
IssueStart ==
    /\ At("issue-start")
    /\ unit' = [unit EXCEPT ![Target] =
                  IF @ \in {"down", "lingering"} THEN "queued" ELSE @]
    /\ Goto("wait-start")
    /\ UNCHANGED <<tables, activations, faults>>

\* `systemctl stop` cancels a job whose guard has not passed and stops
\* a unit that is up.
IssueStop ==
    /\ At("issue-stop")
    /\ unit' = [unit EXCEPT ![Target] =
                  CASE @ \in {"queued", "condition"} -> "down"
                    [] @ \in {"activating", "active"} -> "deactivating"
                    [] OTHER -> @]
    /\ Goto("wait-stop")
    /\ UNCHANGED <<tables, activations, faults>>

\* systemctl returns when its job has ended.
JobEnded ==
    /\ \/ /\ At("wait-start") /\ Goto("look-start")
          /\ unit[Target] \notin {"queued", "condition", "activating"}
       \/ /\ At("wait-stop") /\ Goto("look-stop")
          /\ unit[Target] # "deactivating"
    /\ UNCHANGED <<tables, host, faults>>

LookAfter ==
    /\ call.at \in {"look-start", "look-stop"}
    /\ \E view \in Views :
          /\ Look(Target, view)
          /\ call' = [call EXCEPT !.seen = view, !.at =
                        IF @ = "look-start" THEN "settle-start" ELSE "settle-stop"]
    /\ UNCHANGED <<tables, host>>

SettleStart ==
    /\ At("settle-start")
    /\ CASE call.seen = "active" -> StartedIt(Target)
         [] call.seen = "down" -> StartFailed(Target)
         [] OTHER -> StartUnclear(Target)
    /\ UNCHANGED <<known, capture, ops, host, faults>>

SettleStop ==
    /\ At("settle-stop")
    /\ IF DrainedOf(call.seen) = "yes"
       THEN Settle(Target, "stopped") /\ Conclude("completed", "stopped")
       ELSE Settle(Target, "unknown") /\ call' = Idle
    /\ UNCHANGED <<known, capture, ops, host, faults>>

\* _finish: the receipt is written once.  A call that resumed an operation
\* in its way goes on to its own.
Finish ==
    /\ At("finish") /\ ops[call.cur].status = "pending"
    /\ ops' = [ops EXCEPT ![call.cur] = call.out]
    /\ call' = IF call.cur = call.op THEN Idle
               ELSE [Idle EXCEPT !.at = "serve", !.op = call.op, !.cur = call.op]
    /\ UNCHANGED <<row, known, capture, host, faults>>

-----------------------------------------------------------------------------
(* guard, the unit's ExecCondition: no lock, one read and one update       *)

\* The row as the guard first reads it.
GuardAdmits(i) ==
    /\ ~row[i].retired /\ row[i].phase = "starting"
    /\ row[i].permit /\ row[i].live
    /\ ~Frozen(i)

\* Mutant: the update trusts the row that GuardRead saw.
MutConsumable(i) == GenerationCurrent(i) /\ ~Frozen(i)

\* The WHERE clause of the update that consumes the permit.
Consumable(i) ==
    /\ row[i].permit /\ row[i].phase = "starting" /\ row[i].live
    /\ GenerationCurrent(i)
    /\ ~Frozen(i)

GuardRead(i) ==
    /\ unit[i] = "queued"
    /\ \/ GuardAdmits(i) /\ unit' = [unit EXCEPT ![i] = "condition"]
       \/ unit' = [unit EXCEPT ![i] = "down"]       \* refused, by a gate or so
    /\ UNCHANGED <<tables, call, activations, faults>>

\* Mutant: the guard tests the permit and does not consume it.
MutGuardConsume(i) ==
    /\ unit[i] = "condition"
    /\ IF Consumable(i)
       THEN /\ unit' = [unit EXCEPT ![i] = "activating"]
            /\ activations' = [activations EXCEPT ![i] = @ + 1]
       ELSE /\ unit' = [unit EXCEPT ![i] = "down"]
            /\ UNCHANGED activations
    /\ UNCHANGED <<tables, call, faults>>

GuardConsume(i) ==
    /\ unit[i] = "condition"
    /\ IF Consumable(i)
       THEN /\ row' = [row EXCEPT ![i].permit = FALSE]
            /\ unit' = [unit EXCEPT ![i] = "activating"]
            /\ activations' = [activations EXCEPT ![i] = @ + 1]
       ELSE /\ unit' = [unit EXCEPT ![i] = "down"]
            /\ UNCHANGED <<row, activations>>
    /\ UNCHANGED <<known, capture, ops, call, faults>>

-----------------------------------------------------------------------------
(* systemd and the rest of the host (external)                             *)

Becomes(i, before, after) ==
    /\ unit[i] \in before
    /\ \E u \in after : unit' = [unit EXCEPT ![i] = u]
    /\ UNCHANGED <<tables, call, activations, faults>>

Started(i) == Becomes(i, {"activating"}, {"active", "deactivating"})
Exits(i) == Becomes(i, {"active"}, {"deactivating"})
Stopped(i) == Becomes(i, {"deactivating"}, {"down", "lingering"})
Drains(i) == Becomes(i, {"lingering"}, {"down"})

\* The permit's deadline passes.
Expire(i) ==
    /\ row[i].live
    /\ row' = [row EXCEPT ![i].live = FALSE]
    /\ UNCHANGED <<known, capture, ops, host, call, faults>>

Fault == faults < MaxFaults /\ faults' = faults + 1

\* The worker process dies, or systemctl outlasts its timeout, or an internal
\* error ends the call: the lock is free, what was committed stays.
Interrupt ==
    /\ Fault /\ ~At("idle")
    /\ call' = Idle
    /\ UNCHANGED <<tables, host>>

Reboot ==
    /\ Fault
    /\ call' = Idle
    /\ unit' = [i \in Instances |-> "down"]
    /\ row' = [i \in Instances |-> [row[i] EXCEPT !.live = FALSE]]
    /\ UNCHANGED <<known, capture, ops, activations>>

\* Somebody runs `systemctl start` by hand.
StrayStart(i) ==
    /\ Fault /\ unit[i] \in {"down", "lingering"} /\ row[i].phase # "none"
    /\ unit' = [unit EXCEPT ![i] = "queued"]
    /\ UNCHANGED <<tables, call, activations>>

-----------------------------------------------------------------------------

Act == \/ Prepare \/ Render \/ Start \/ ResumeStart \/ Stop \/ ResumeStop
       \/ Retire \/ Freeze \/ Thaw

Step == \/ \E i \in Instances : ReconcileLook(i)
        \/ ReconcileApply \/ Answer \/ Serve \/ Probe \/ Act
        \/ IssueStart \/ IssueStop \/ JobEnded \/ LookAfter
        \/ SettleStart \/ SettleStop \/ Finish

Systemd(i) == \/ GuardRead(i) \/ GuardConsume(i)
              \/ Started(i) \/ Stopped(i) \/ Drains(i)

Next == \/ \E o \in Operations \cup {None} : Submit(o)
        \/ Step
        \/ \E i \in Instances : Systemd(i) \/ Exits(i) \/ Expire(i) \/ StrayStart(i)
        \/ Interrupt \/ Reboot

Spec == Init /\ [][Next]_vars

\* The reporter dispatches what is claimed and not executed again on every
\* cycle; a call takes its steps; systemd ends every job (TimeoutStartSec,
\* and the kill signals of a stop); time passes.
Resubmit(o) == ops[o].status = "pending" /\ Submit(o)

Fairness == /\ \A o \in Operations : SF_vars(Resubmit(o))
            /\ WF_vars(Step)
            /\ \A i \in Instances : WF_vars(Systemd(i)) /\ WF_vars(Expire(i))

FairSpec == Spec /\ Fairness

-----------------------------------------------------------------------------
(* Properties                                                              *)

\* Processes of an instance exist only while its generation is the highest
\* the host has seen of the workload: a host never runs an old generation
\* after the new one was prepared, and so never two instances of a workload
\* (_check_workload_drained, the unique index and the guard's update).
OnlyCurrentRuns ==
    \A i \in Instances : unit[i] \in Alive => GenerationCurrent(i)

\* README.md: a retired instance is unable to start and the marker cannot be
\* undone.  Once its unit is down, no later step brings processes back,
\* whatever the guard had read before the retirement (_retire, guard).
RetiredStaysDown ==
    [][\A i \in Instances :
          row[i].retired =>
             /\ row'[i].retired
             /\ (unit[i] \notin Alive => unit'[i] \notin Alive)]_vars

\* While a capture whose freeze was acknowledged is held, nothing of the
\* workload runs on the host: across crashes, reboots, other operations and
\* units started by hand (_freeze, _held_capture, guard).
FrozenIsQuiet ==
    \A o \in Operations :
        /\ ActionOf[o] = "freeze" /\ ops[o].status = "completed"
        /\ capture[CaptureOf[o]].status = "held"
        => \A j \in Siblings(InstanceOf[o]) : unit[j] \notin Alive

\* A stop, a retire or a freeze is acknowledged only over a unit with no
\* process left at the moment the receipt is written, although the look the
\* receipt rests on is some commits old by then (_settle_stop, _finish).
AcknowledgedDown ==
    [][\A o \in Operations :
          /\ ActionOf[o] \in {"stop", "retire", "freeze"}
          /\ ops[o].status = "pending" /\ ops'[o].status = "completed"
          => unit[InstanceOf[o]] \notin Alive]_vars

\* Exactly once: the guard lets an instance through at most once for every
\* start operation journalled for it, however often the call is cut short
\* and resumed and the unit started by hand (worker.py, "crashes replay
\* rather than double-execute").
StartsOnce ==
    \A i \in Instances :
        activations[i] <= Cardinality({o \in Operations :
                            /\ ActionOf[o] = "start" /\ InstanceOf[o] = i
                            /\ ops[o].status # "new"})

\* A row recorded as stopped has no process.
StoppedIsDown ==
    \A i \in Instances : row[i].phase = "stopped" => unit[i] \notin Alive

\* Every journalled operation gets its receipt.
PendingSettles ==
    \A o \in Operations :
        (ops[o].status = "pending") ~> (ops[o].status \in {"completed", "failed"})
=============================================================================
