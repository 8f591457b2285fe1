------------------------------ MODULE Dispatch ------------------------------
(***************************************************************************)
(* The host reporter (console/reporter.py) between the registry and the    *)
(* worker of its host.  A cycle opens a session if there is none, posts    *)
(* what the worker observes, and then carries out operations: first those  *)
(* in its own journal, then the pending ones of the registry's queue.      *)
(*                                                                         *)
(* One host, one workload, one sample per cycle.  Every exchange with the  *)
(* registry can be lost on the way, lose its answer, or arrive after the   *)
(* cycle gave it up.  The process can die between any two writes; the      *)
(* reporter's state file, its journal and the worker's receipts stay.      *)
(***************************************************************************)
EXTENDS Integers

CONSTANTS
    Operations,
    KindOf,         \* "worker", or "cli" for capture, stage and commit
    GenOf,          \* the generation an operation is for
    MaxGeneration,  \* bound: placements of the workload
    MaxReports,     \* bound: samples taken
    MaxFaults,      \* bound: lost and late messages, deaths, lost sessions
    None

ASSUME OperationAssumption ==
    /\ KindOf \in [Operations -> {"worker", "cli"}]
    /\ GenOf \in [Operations -> Nat \ {0}]
    /\ MaxGeneration \in Nat \ {0} /\ MaxReports \in Nat /\ MaxFaults \in Nat

VARIABLES
    posted,     \* the registry's operationSequence: operations posted so far
    seq,        \* the registry's seq of an operation, 0 if it has none
    status,     \* the registry's status of an operation
    placement,  \* the registry's placement: its generation, and whether here
    assigned,   \* generations the registry ever placed here
    session,    \* the registry's session of the host, 0 if none: id, sequence
    report,     \* the sample of the registry's observation, 0 if none
    state,      \* reporter-state.json: sessionId and nextSequence
    journal,    \* the dispatch directory: phase of an entry and its outcome
    cycle,      \* where the cycle is
    late,       \* messages under way that nobody waits for
    worker,     \* the worker's receipt, or what the program got done
    taken,      \* samples so far
    faults

queue == <<posted, seq, status>>
placing == <<placement, assigned>>
reports == <<session, report, state, taken>>
vars == <<queue, placing, reports, journal, cycle, late, worker, faults>>

Final == {"completed", "failed"}
Stages == {"idle", "open", "sample", "post", "resume", "fetch", "entry", "claim",
           "authorize", "run", "receipt"}

Messages == [kind : {"claim"}, op : Operations]
              \cup [kind : {"final"}, op : Operations, verdict : Final]
              \cup [kind : {"report"}, session : Nat, sequence : Nat, sample : Nat]

ASSUME NoneAssumption ==
    /\ None \notin Operations
    /\ None \notin Final
    /\ None \notin Messages

\* `todo`: entries left, of the journal or `fetched`; `message`: the
\* observation to post; `again`: it was posted before under a lost session.
Idle == [at |-> "idle", todo |-> {}, fetched |-> FALSE, message |-> None,
         again |-> FALSE]

TypeOK ==
    /\ posted \in Nat /\ seq \in [Operations -> 0 .. posted]
    /\ status \in [Operations -> {"none", "pending", "claimed"} \cup Final]
    /\ placement \in [generation : 1 .. MaxGeneration, here : BOOLEAN]
    /\ assigned \subseteq 1 .. MaxGeneration
    /\ session \in [id : Nat, sequence : Nat]
    /\ report \in 0 .. taken
    /\ state \in [session : 0 .. session.id, next : Nat]
    /\ journal \in [Operations -> [phase : {"none", "claiming", "claimed", "executed"},
                                   verdict : Final \cup {None}]]
    /\ cycle \in [at : Stages, todo : SUBSET Operations, fetched : BOOLEAN,
                  message : Messages \cup {None}, again : BOOLEAN]
    /\ late \subseteq Messages
    /\ worker \in [Operations -> {"none", "pending"} \cup Final]
    /\ taken \in 0 .. MaxReports
    /\ faults \in 0 .. MaxFaults

NoEntry == [phase |-> "none", verdict |-> None]

Init ==
    /\ posted = 0
    /\ seq = [o \in Operations |-> 0]
    /\ status = [o \in Operations |-> "none"]
    /\ placement = [generation |-> 1, here |-> TRUE]
    /\ assigned = {1}
    /\ session = [id |-> 0, sequence |-> 0]
    /\ report = 0
    /\ state = [session |-> 0, next |-> 1]
    /\ journal = [o \in Operations |-> NoEntry]
    /\ cycle = Idle
    /\ late = {}
    /\ worker = [o \in Operations |-> "none"]
    /\ taken = 0
    /\ faults = 0

-----------------------------------------------------------------------------
(* The registry                                                            *)

\* post_operation: for the placement of now, and only where it is.
Post(o) ==
    /\ status[o] = "none"
    /\ placement = [generation |-> GenOf[o], here |-> TRUE]
    /\ posted' = posted + 1
    /\ seq' = [seq EXCEPT ![o] = posted + 1]
    /\ status' = [status EXCEPT ![o] = "pending"]
    /\ UNCHANGED <<placing, reports, journal, cycle, late, worker, faults>>

\* assign: the succession, on its own evidence or after a fence.
Assign(here) ==
    /\ placement.generation < MaxGeneration
    /\ placement' = [generation |-> placement.generation + 1, here |-> here]
    /\ assigned' = IF here THEN assigned \cup {placement'.generation} ELSE assigned
    /\ UNCHANGED <<queue, reports, journal, cycle, late, worker, faults>>

Fault == faults < MaxFaults /\ faults' = faults + 1

\* A new process has a new epoch and accepts no session of the old one.
LoseSession ==
    /\ Fault
    /\ session' = [id |-> session.id + 1, sequence |-> 0]
    /\ UNCHANGED <<queue, placing, report, state, taken, journal, cycle, late, worker>>

\* Mutant: a sample of the present session is taken in any order.
MutAccepts(m) == m.kind = "report" => m.session = session.id

\* operation_receipt and observe: whether the answer is "accepted".  Request
\* ids derive from the operation, so a repeated receipt is a replay.
Accepts(m) ==
    /\ m.kind = "final" => status[m.op] \in {"claimed", m.verdict}
    /\ m.kind = "report" => m.session = session.id /\ m.sequence > session.sequence

TakeClaim(o) ==
    /\ status' = [status EXCEPT ![o] = IF @ = "pending" THEN "claimed" ELSE @]
    /\ UNCHANGED <<session, report>>

TakeFinal(o, verdict) ==
    /\ status' = [status EXCEPT ![o] = verdict]
    /\ UNCHANGED <<session, report>>

TakeReport(sequence, sample) ==
    /\ session' = [session EXCEPT !.sequence = sequence]
    /\ report' = sample
    /\ UNCHANGED status

\* What a message does to the registry.
Handle(m) ==
    \/ ~Accepts(m) /\ UNCHANGED <<status, session, report>>
    \/ /\ Accepts(m)
       /\ \/ m.kind = "claim" /\ TakeClaim(m.op)
          \/ m.kind = "final" /\ TakeFinal(m.op, m.verdict)
          \/ m.kind = "report" /\ TakeReport(m.sequence, m.sample)

\* A message given up arrives after all.
Arrive(m) ==
    /\ m \in late
    /\ Handle(m)
    /\ late' = late \ {m}
    /\ UNCHANGED <<posted, seq, placing, state, taken, journal, cycle, worker, faults>>

\* The exchange fails for the reporter, which ends the cycle: the request was
\* lost, or is late, or its answer was lost.
NoAnswer(m) ==
    /\ Fault
    /\ \/ UNCHANGED <<status, session, report, late>>
       \/ late' = late \cup {m} /\ UNCHANGED <<status, session, report>>
       \/ Handle(m) /\ UNCHANGED late
    /\ cycle' = Idle

-----------------------------------------------------------------------------
(* run_once: the session and the observation                               *)

At(stage) == cycle.at = stage
Goto(stage) == cycle' = [cycle EXCEPT !.at = stage]

Begin ==
    /\ At("idle")
    /\ Goto(IF state.session = 0 THEN "open" ELSE "sample")
    /\ UNCHANGED <<queue, placing, reports, journal, late, worker, faults>>

\* _open_session: the answer is saved with a sequence that starts again.
Open ==
    /\ At("open")
    /\ session' = [id |-> session.id + 1, sequence |-> 0]
    /\ \/ /\ state' = [session |-> session'.id, next |-> 1]
          /\ Goto("sample")
          /\ UNCHANGED faults
       \/ Fault /\ cycle' = Idle /\ UNCHANGED state
    /\ UNCHANGED <<queue, placing, report, taken, journal, late, worker>>

\* _observe_instance and _allocate_sequence: the successor is saved before
\* the post.  A sample can be skipped; one posted before is posted again.
Sample ==
    /\ At("sample")
    /\ \/ /\ ~cycle.again
          /\ Goto("resume")
          /\ UNCHANGED <<state, taken>>
       \/ /\ cycle.again \/ taken < MaxReports
          /\ taken' = IF cycle.again THEN taken ELSE taken + 1
          /\ state' = [state EXCEPT !.next = @ + 1]
          /\ cycle' = [cycle EXCEPT !.at = "post", !.message =
                         [kind |-> "report", session |-> state.session,
                          sequence |-> state.next,
                          sample |-> IF cycle.again THEN cycle.message.sample
                                     ELSE taken + 1]]
    /\ UNCHANGED <<queue, placing, session, report, journal, late, worker, faults>>

\* _post_observation, and the one retry of run_once after SessionLost.
PostObservation ==
    /\ At("post")
    /\ LET m == cycle.message IN
       \/ /\ Handle(m)
          /\ CASE Accepts(m) -> cycle' = [Idle EXCEPT !.at = "resume"]
               [] ~Accepts(m) /\ ~cycle.again ->
                     cycle' = [cycle EXCEPT !.at = "open", !.again = TRUE]
               [] OTHER -> cycle' = Idle
          /\ UNCHANGED <<late, faults>>
       \/ NoAnswer(m)
    /\ UNCHANGED <<posted, seq, placing, state, taken, journal, worker>>

-----------------------------------------------------------------------------
(* _dispatch_cycle and _dispatch_entry                                     *)

\* The entries are taken in the order of seq.
Op == CHOOSE o \in cycle.todo : \A p \in cycle.todo : seq[o] <= seq[p]
Journaled == {o \in Operations : journal[o].phase # "none"}
Pending == {o \in Operations : status[o] = "pending"}

\* _dispatch_journal, sorted by seq
Resume ==
    /\ At("resume")
    /\ cycle' = [Idle EXCEPT !.at = "entry", !.todo = Journaled]
    /\ UNCHANGED <<queue, placing, reports, journal, late, worker, faults>>

\* _fetch_operations
Fetch ==
    /\ At("fetch")
    /\ \/ /\ cycle' = [Idle EXCEPT !.at = "entry", !.fetched = TRUE,
                                   !.todo = Pending \ Journaled]
          /\ UNCHANGED faults
       \/ Fault /\ cycle' = Idle
    /\ UNCHANGED <<queue, placing, reports, journal, late, worker>>

\* Where the entry stands, from its phase.
NextStage(phase) == IF phase = "claimed" THEN "authorize"
                    ELSE IF phase = "executed" THEN "receipt" ELSE "claim"

\* Mutant: the entry is saved once the claim is answered.
MutEntry ==
    /\ At("entry")
    /\ IF cycle.todo = {}
       THEN cycle' = IF cycle.fetched THEN Idle ELSE [Idle EXCEPT !.at = "fetch"]
       ELSE Goto(NextStage(journal[Op].phase))
    /\ UNCHANGED <<queue, placing, reports, late, worker, faults, journal>>

\* The next entry: a new one is journaled before anything is done about it.
\* After the journal the queue is fetched, after the queue the cycle ends.
Entry ==
    /\ At("entry")
    /\ IF cycle.todo = {}
       THEN /\ cycle' = IF cycle.fetched THEN Idle ELSE [Idle EXCEPT !.at = "fetch"]
            /\ UNCHANGED journal
       ELSE /\ journal' = [journal EXCEPT ![Op] =
                             IF @.phase = "none" THEN [@ EXCEPT !.phase = "claiming"] ELSE @]
            /\ Goto(NextStage(journal[Op].phase))
    /\ UNCHANGED <<queue, placing, reports, late, worker, faults>>

\* Mutant: the entry says "claimed" before the registry does.
MutClaim ==
    /\ At("claim")
    /\ journal' = [journal EXCEPT ![Op].phase = "claimed"]
    /\ LET m == [kind |-> "claim", op |-> Op] IN
       \/ Handle(m) /\ Goto("authorize") /\ UNCHANGED <<late, faults>>
       \/ NoAnswer(m)
    /\ UNCHANGED <<posted, seq, placing, state, taken, worker>>

Claim ==
    /\ At("claim")
    /\ LET m == [kind |-> "claim", op |-> Op] IN
       \/ /\ Handle(m)
          /\ journal' = [journal EXCEPT ![Op].phase = "claimed"]
          /\ Goto("authorize")
          /\ UNCHANGED <<late, faults>>
       \/ NoAnswer(m) /\ UNCHANGED journal
    /\ UNCHANGED <<posted, seq, placing, state, taken, worker>>

Executed(verdict) ==
    /\ journal' = [journal EXCEPT ![Op] = [phase |-> "executed", verdict |-> verdict]]
    /\ Goto("receipt")

\* _execute_entry up to the call: a fresh look at the assignments, among
\* which the registry keeps those of superseded generations.  A payload that
\* is refused is refused for good.
Authorize ==
    /\ At("authorize")
    /\ \/ GenOf[Op] \in assigned /\ Goto("run") /\ UNCHANGED <<journal, faults>>
       \/ worker[Op] = "none" /\ Executed("failed") /\ UNCHANGED faults
       \/ Fault /\ cycle' = Idle /\ UNCHANGED journal
    /\ UNCHANGED <<queue, placing, reports, late, worker>>

\* What the worker makes of an operation: an operation with a receipt is not
\* carried out again.
Outcomes(o) == IF worker[o] \in Final THEN {worker[o]} ELSE {"pending"} \cup Final

Skip == /\ cycle' = [cycle EXCEPT !.at = "entry", !.todo = @ \ {Op}]
        /\ UNCHANGED journal

\* Mutant: an uncertain operation is left for the next cycle.
MutUncertain == Skip

\* ReporterError: the claim survives, the cycle ends.
Uncertain == cycle' = Idle /\ UNCHANGED journal

\* Mutant: what is not completed has failed.
MutRunWorker ==
    /\ At("run") /\ KindOf[Op] = "worker"
    /\ \E outcome \in Outcomes(Op) :
          /\ worker' = [worker EXCEPT ![Op] = outcome]
          /\ Executed(IF outcome = "completed" THEN outcome ELSE "failed")
    /\ UNCHANGED <<queue, placing, reports, late, faults>>

\* _worker_result
RunWorker ==
    /\ At("run") /\ KindOf[Op] = "worker"
    /\ \E outcome \in Outcomes(Op) :
          /\ worker' = [worker EXCEPT ![Op] = outcome]
          /\ IF outcome \in Final THEN Executed(outcome) ELSE Uncertain
    /\ UNCHANGED <<queue, placing, reports, late, faults>>

\* _cli: a program can be run again; a timeout keeps the claim, any other
\* failure is final, whatever the program got done.
RunProgram ==
    /\ At("run") /\ KindOf[Op] = "cli"
    /\ \E outcome \in Outcomes(Op) :
          /\ worker' = [worker EXCEPT ![Op] = IF outcome = "failed" THEN @ ELSE outcome]
          /\ \/ outcome = "pending" /\ Uncertain
             \/ outcome = "completed" /\ Executed("completed")
             \/ Executed("failed")
    /\ UNCHANGED <<queue, placing, reports, late, faults>>

\* The receipt: accepted or in conflict, the entry is dropped; of an operation
\* that is not claimed it is an error.
PostReceipt ==
    /\ At("receipt")
    /\ LET m == [kind |-> "final", op |-> Op, verdict |-> journal[Op].verdict] IN
       \/ /\ status[Op] = "pending" /\ Uncertain
          /\ UNCHANGED <<status, session, report, late, faults>>
       \/ /\ status[Op] # "pending" /\ Handle(m)
          /\ journal' = [journal EXCEPT ![Op] = NoEntry]
          /\ cycle' = [cycle EXCEPT !.at = "entry", !.todo = @ \ {Op}]
          /\ UNCHANGED <<late, faults>>
       \/ NoAnswer(m) /\ UNCHANGED journal
    /\ UNCHANGED <<posted, seq, placing, state, taken, worker>>

-----------------------------------------------------------------------------
(* The rest of the host                                                    *)

\* Another caller of the worker resumes what is pending there.
Resumed(o) ==
    /\ KindOf[o] = "worker" /\ worker[o] = "pending"
    /\ \E outcome \in Final : worker' = [worker EXCEPT ![o] = outcome]
    /\ UNCHANGED <<queue, placing, reports, journal, cycle, late, faults>>

\* The reporter dies and starts again, or an error ends the cycle.
Die ==
    /\ Fault /\ ~At("idle")
    /\ cycle' = Idle
    /\ UNCHANGED <<queue, placing, reports, journal, late, worker>>

-----------------------------------------------------------------------------

Cycle == \/ Begin \/ Open \/ Sample \/ PostObservation \/ Resume \/ Fetch \/ Entry
         \/ Claim \/ Authorize \/ RunWorker \/ RunProgram \/ PostReceipt

Next == \/ \E o \in Operations : Post(o) \/ Resumed(o)
        \/ \E here \in BOOLEAN : Assign(here)
        \/ LoseSession \/ Die
        \/ Cycle
        \/ \E m \in late : Arrive(m)

Spec == Init /\ [][Next]_vars

\* The cycle is run again and again, and no operation is uncertain for ever.
Decided == At("run") /\ Cycle /\ ~At("idle")'

Fairness == WF_vars(Cycle) /\ SF_vars(Decided)
FairSpec == Spec /\ Fairness

-----------------------------------------------------------------------------
(* Properties                                                              *)

\* What the registry shows as settled is settled on the host: "completed" was
\* done, and what "failed" of the worker's operations is not pending there
\* and will not be done later, whatever was lost, late or asked again
\* (_worker_result, _dispatch_entry).
HonestReceipt ==
    \A o \in Operations :
        /\ status[o] = "completed" => worker[o] = "completed"
        /\ status[o] = "failed" /\ KindOf[o] = "worker" =>
              worker[o] \in {"none", "failed"}

\* Nothing was begun that the registry still shows as pending: an operation
\* that no host claimed had no effect (_dispatch_entry).
ClaimedFirst ==
    \A o \in Operations : worker[o] # "none" => status[o] \in {"claimed"} \cup Final

Before(p, o) == 0 < seq[p] /\ seq[p] < seq[o]

\* The host begins an operation only when those posted to it before have their
\* receipts, through every death and uncertain answer: the next step of a job
\* never overtakes one that may still have effects (_dispatch_cycle).
InOrder ==
    \A o, p \in Operations :
        Before(p, o) /\ worker[o] # "none" => status[p] \in Final

\* The registry never replaces the observation of an instance by an older one,
\* although posts arrive late and sessions are lost (_allocate_sequence,
\* "a crash can skip a sequence but never reuse or regress one").
NoOlderReport == [][report' >= report]_report

\* reporter.py:31: an operation whose generation "does not match an assignment
\* this host currently holds is refused"; held is what the registry places here
\* when the assignments are read (_held).
OnlyHeldRun ==
    [][At("authorize") /\ At("run")' =>
          placement = [generation |-> GenOf[Op], here |-> TRUE]]_cycle

\* Every operation that is posted gets its receipt (run, _dispatch_cycle).
Served == \A o \in Operations : (status[o] = "pending") ~> (status[o] \in Final)
=============================================================================
