-------------------------- MODULE ControllerProofs --------------------------
(***************************************************************************)
(* What Controller guarantees for any jobs, instances and hosts: moves     *)
(* never let two instances run, the target of a move starts from all the   *)
(* source wrote, the journal never runs ahead of the world, and a revived  *)
(* incumbent is not fenced.                                                *)
(*                                                                         *)
(* The proof has one idea: a label that is finished is finished for ever.  *)
(* A call finishes the labels of a step in order (Progress), a step that   *)
(* lies behind a job has finished its last one (Journal), and so whatever  *)
(* a host is asked to do was earned by what was done before (Earned).      *)
(* Moves says what one step can do to the hosts, the queue, the registry   *)
(* and the call; every part of the invariant is kept by whatever Moves.    *)
(***************************************************************************)
EXTENDS Controller, TLAPS

-----------------------------------------------------------------------------
(* The steps of a job and their labels.                                    *)

MoveSet == {"validate", "freeze", "capture", "thaw", "retire-source",
            "assign", "install-target", "await-ready", "publish", "retain"}
FailoverSet == {"refresh", "fence", "assign", "adopt", "ready", "publish"}

LEMMA MoveFacts ==
    /\ Len(MoveSteps) = 10 /\ DOMAIN MoveSteps = 1 .. 10
    /\ MoveSteps[1] = "validate" /\ MoveSteps[2] = "freeze"
    /\ MoveSteps[3] = "capture" /\ MoveSteps[4] = "thaw"
    /\ MoveSteps[5] = "retire-source" /\ MoveSteps[6] = "assign"
    /\ MoveSteps[7] = "install-target" /\ MoveSteps[8] = "await-ready"
    /\ MoveSteps[9] = "publish" /\ MoveSteps[10] = "retain"
    /\ ToSet(MoveSteps) = MoveSet
    /\ Head(MoveSteps) = "validate" /\ Last(MoveSteps) = "retain"
<1>1. Len(MoveSteps) = 10 /\ DOMAIN MoveSteps = 1 .. 10
  BY DEF MoveSteps
<1>2. ToSet(MoveSteps) = MoveSet
  <2>1. \A n \in 1 .. 10 : MoveSteps[n] \in MoveSet
    BY DEF MoveSteps, MoveSet
  <2>2. \A s \in MoveSet : \E n \in 1 .. 10 : MoveSteps[n] = s
    BY DEF MoveSteps, MoveSet
  <2> QED BY <1>1, <2>1, <2>2 DEF ToSet
<1> QED BY <1>1, <1>2 DEF MoveSteps, Last

LEMMA FailoverFacts ==
    /\ Len(FailoverSteps) = 6 /\ DOMAIN FailoverSteps = 1 .. 6
    /\ FailoverSteps[1] = "refresh" /\ FailoverSteps[2] = "fence"
    /\ FailoverSteps[3] = "assign" /\ FailoverSteps[4] = "adopt"
    /\ FailoverSteps[5] = "ready" /\ FailoverSteps[6] = "publish"
    /\ ToSet(FailoverSteps) = FailoverSet
    /\ Head(FailoverSteps) = "refresh" /\ Last(FailoverSteps) = "publish"
<1>1. Len(FailoverSteps) = 6 /\ DOMAIN FailoverSteps = 1 .. 6
  BY DEF FailoverSteps
<1>2. ToSet(FailoverSteps) = FailoverSet
  <2>1. \A n \in 1 .. 6 : FailoverSteps[n] \in FailoverSet
    BY DEF FailoverSteps, FailoverSet
  <2>2. \A s \in FailoverSet : \E n \in 1 .. 6 : FailoverSteps[n] = s
    BY DEF FailoverSteps, FailoverSet
  <2> QED BY <1>1, <2>1, <2>2 DEF ToSet
<1> QED BY <1>1, <1>2 DEF FailoverSteps, Last

StepSet(j) == IF ActionOf[j] = "plan" THEN MoveSet ELSE FailoverSet

\* No step occurs twice in an order.
LEMMA OrderFacts ==
    ASSUME NEW j \in Jobs
    PROVE  /\ Len(StepsOf(j)) \in Nat \ {0}
           /\ DOMAIN StepsOf(j) = 1 .. Len(StepsOf(j))
           /\ ToSet(StepsOf(j)) = StepSet(j)
           /\ \A n \in 1 .. Len(StepsOf(j)) : StepsOf(j)[n] \in StepSet(j)
           /\ \A m, n \in 1 .. Len(StepsOf(j)) :
                 StepsOf(j)[m] = StepsOf(j)[n] => m = n
           /\ Head(StepsOf(j)) = StepsOf(j)[1]
           /\ Last(StepsOf(j)) = StepsOf(j)[Len(StepsOf(j))]
<1>1. CASE ActionOf[j] = "plan"
  <2>1. StepsOf(j) = MoveSteps /\ StepSet(j) = MoveSet
    BY <1>1 DEF StepsOf, StepSet
  <2>2. \A m, n \in 1 .. 10 : MoveSteps[m] = MoveSteps[n] => m = n
    BY MoveFacts
  <2>3. \A n \in 1 .. 10 : MoveSteps[n] \in MoveSet
    BY MoveFacts DEF MoveSet
  <2> QED BY <2>1, <2>2, <2>3, MoveFacts
<1>2. CASE ActionOf[j] # "plan"
  <2>1. StepsOf(j) = FailoverSteps /\ StepSet(j) = FailoverSet
    BY <1>2 DEF StepsOf, StepSet
  <2>2. \A m, n \in 1 .. 6 : FailoverSteps[m] = FailoverSteps[n] => m = n
    BY FailoverFacts
  <2>3. \A n \in 1 .. 6 : FailoverSteps[n] \in FailoverSet
    BY FailoverFacts DEF FailoverSet
  <2> QED BY <2>1, <2>2, <2>3, FailoverFacts
<1> QED BY <1>1, <1>2

LEMMA ScriptFacts ==
    ASSUME NEW s \in MoveSet \cup FailoverSet
    PROVE  /\ Len(Script(s)) \in 1 .. 5
           /\ DOMAIN Script(s) = 1 .. Len(Script(s))
           /\ \A n \in 1 .. Len(Script(s)) :
                /\ Script(s)[n] \in OnTarget => s \in {"install-target", "adopt"}
                /\ Script(s)[n] = "retire" => s = "retire-source"
                /\ Script(s)[n] = "start" /\ s = "install-target" => n = 5
                /\ Script(s)[n] = "fence" => s = "fence" /\ n = 2
                /\ Script(s)[n] \in {"incumbent", "verify"} => s = "fence"
                /\ Script(s)[n] = "assign" => s = "assign"
                /\ Script(s)[n] = "publish" => s = "publish"
                /\ s = "fence" /\ n = 1 => Script(s)[n] = "incumbent"
           /\ s = "install-target" => Script(s)[4] = "commit"
<1> USE DEF OnTarget
<1>1. CASE s = "retire-source"
  <2>1. Script(s) = <<"retire", "await-retired">>
    BY <1>1 DEF Script
  <2> QED BY <1>1, <2>1
<1>2. CASE s = "install-target"
  <2>1. Script(s) = <<"prepare", "observe", "stage", "commit", "start">>
    BY <1>2 DEF Script
  <2> QED BY <1>2, <2>1
<1>3. CASE s = "fence"
  <2>1. Script(s) = <<"incumbent", "fence", "verify">>
    BY <1>3 DEF Script
  <2> QED BY <1>3, <2>1
<1>4. CASE s = "adopt"
  <2>1. Script(s) = <<"adopt", "observe", "start">>
    BY <1>4 DEF Script
  <2> QED BY <1>4, <2>1
<1>5. CASE s = "ready"
  <2>1. Script(s) = <<"await-ready">>
    BY <1>5 DEF Script
  <2> QED BY <1>5, <2>1
<1>6. CASE s \notin {"retire-source", "install-target", "fence", "adopt", "ready"}
  <2>1. Script(s) = <<s>>
    BY <1>6 DEF Script
  <2>2. s \in {"validate", "freeze", "capture", "thaw", "assign", "await-ready",
               "publish", "retain", "refresh"}
    BY <1>6 DEF MoveSet, FailoverSet
  <2> QED BY <2>1, <2>2
<1> QED BY <1>1, <1>2, <1>3, <1>4, <1>5, <1>6

LEMMA LabelFacts ==
    ASSUME NEW s \in MoveSet \cup FailoverSet, NEW n \in 1 .. Len(Script(s)),
           NEW l, l = Script(s)[n]
    PROVE  /\ l \in OnTarget => s \in {"install-target", "adopt"}
           /\ l = "retire" => s = "retire-source"
           /\ l = "start" /\ s = "install-target" => n = 5
           /\ l = "fence" => s = "fence" /\ n = 2
           /\ l \in {"incumbent", "verify"} => s = "fence"
           /\ l = "assign" => s = "assign"
           /\ l = "publish" => s = "publish"
           /\ s = "fence" /\ n = 1 => l = "incumbent"
<1>1. Script(s)[n] \in OnTarget => s \in {"install-target", "adopt"}
  BY ScriptFacts
<1>2. Script(s)[n] = "retire" => s = "retire-source"
  BY ScriptFacts
<1>3. Script(s)[n] = "start" /\ s = "install-target" => n = 5
  BY ScriptFacts
<1>4. Script(s)[n] = "fence" => s = "fence" /\ n = 2
  BY ScriptFacts
<1>5. Script(s)[n] \in {"incumbent", "verify"} => s = "fence"
  BY ScriptFacts
<1>6. /\ Script(s)[n] = "assign" => s = "assign"
      /\ Script(s)[n] = "publish" => s = "publish"
      /\ s = "fence" /\ n = 1 => Script(s)[n] = "incumbent"
  BY ScriptFacts
<1> QED BY <1>1, <1>2, <1>3, <1>4, <1>5, <1>6

-----------------------------------------------------------------------------
(* The inductive invariant.                                                *)

Places == {"idle", "gate", "step", "view", "save", "advance"}
JobRow == [phase : JobPhases, mark : Marks]
CallRow == [at : Places, job : Jobs \cup {None}, next : 0 .. 5]
ProcRow == [phase : ProcPhases, retired : BOOLEAN, pending : BOOLEAN,
            data : 0 .. MaxWrites]

\* TypeOK, with what a capture can hold.
CallTyped == job \in [Jobs -> JobRow] /\ call \in CallRow

RegistryTyped ==
    /\ placement \in [generation : Nat, instance : Instances, published : BOOLEAN]
    /\ fences \subseteq Nat
    /\ requests \subseteq Jobs \X {"assign", "publish", "fence"}

EvidenceTyped == shown \in Words /\ ready \in BOOLEAN /\ heard \in BOOLEAN

QueueTyped == queue \in [Jobs -> [HostLabels -> {"none", "open", "completed", "failed"}]]

HostsTyped ==
    /\ receipt \in [Jobs -> [HostLabels -> {"none", "begun", "completed", "failed"}]]
    /\ proc \in [Instances -> ProcRow]
    /\ barrier \in [Jobs -> {"none", "held", "released"}]
    /\ snapshot \in [Jobs -> (0 .. MaxWrites) \cup {None}]

EnvTyped == faults \in Nat /\ byHand \in BOOLEAN

Typed == /\ CallTyped /\ RegistryTyped /\ EvidenceTyped /\ QueueTyped
         /\ HostsTyped /\ EnvTyped

\* A call is in a step of its job, at one of the step's labels.
Control ==
    /\ \A j \in Jobs :
         /\ job[j].phase \in {"none", "planned", "completed", "aborted"} \cup StepSet(j)
         /\ job[j].phase \in {"none", "planned"} => job[j].mark # "completed"
    /\ call.at # "idle" => /\ J \in Jobs /\ Step \in StepSet(J)
                           /\ call.next \in 1 .. Len(Script(Step))
    /\ call.at = "gate" => call.next = 1
    /\ call.at = "advance" => job[J].mark = "completed"
    /\ call.at = "view" => Label \in HostLabels

Gone(i) == proc[i].retired /\ proc[i].phase = "stopped"

\* What is true from the moment a label of a job is finished.
Finished(j, l) ==
    /\ l \in HostLabels \ {"retire"} => receipt[j][l] = "completed"
    /\ l = "await-retired" => Gone(SourceOf[j])
    /\ l = "verify" => GenOf[SourceOf[j]] \in fences
    /\ l \in {"assign", "publish"} => <<j, l>> \in requests

LastLabel(s) == Script(s)[Len(Script(s))]

Progress ==
    call.at \in {"step", "view"} =>
        \A n \in 1 .. call.next - 1 : Finished(J, Script(Step)[n])

Journal ==
    /\ \A j \in Jobs : \A s \in StepSet(j) : Behind(j, s) => Finished(j, LastLabel(s))
    /\ call.at = "save" => Finished(J, LastLabel(Step))

\* What was done before a host is asked.
Earned(j, l) ==
    /\ l \in OnTarget => <<j, "assign">> \in requests
    /\ l = "retire" => barrier[j] # "none"
    /\ l = "start" /\ ActionOf[j] = "plan" => receipt[j]["commit"] = "completed"

Asked ==
    \A j \in Jobs, l \in HostLabels :
        /\ queue[j][l] # "none" \/ receipt[j][l] # "none" => Earned(j, l)
        /\ queue[j][l] = "completed" => receipt[j][l] = "completed"

\* The registry's row and its requests.
Owned ==
    /\ shown = "retired" => Gone(placement.instance)
    /\ \A j \in Jobs :
         /\ <<j, "assign">> \in requests => placement.generation >= GenOf[TargetOf[j]]
         /\ <<j, "publish">> \in requests =>
              \/ placement.published /\ placement.generation >= GenOf[TargetOf[j]]
              \/ placement.generation > GenOf[TargetOf[j]]

Begun(i) == proc[i].phase \notin {"none", "prepared"}

\* The receipts of a job, its capture and its instances.
Kept(j) ==
    /\ receipt[j]["freeze"] \in {"begun", "completed"} => barrier[j] # "none"
    /\ receipt[j]["thaw"] = "completed" => barrier[j] = "released"
    /\ snapshot[j] # None <=> receipt[j]["capture"] = "completed"
    /\ snapshot[j] # None => barrier[j] # "none"
    /\ barrier[j] # "none" => Begun(SourceOf[j])
    /\ receipt[j]["start"] = "completed" => Begun(TargetOf[j])
    /\ Begun(TargetOf[j]) /\ ~byHand => receipt[j]["start"] = "completed"
    /\ proc[TargetOf[j]].pending => snapshot[j] # None
    /\ receipt[j]["commit"] = "completed" =>
         snapshot[j] # None /\ proc[TargetOf[j]].data >= snapshot[j]
    /\ snapshot[j] # None /\ ~byHand =>
         proc[SourceOf[j]].phase = "stopped" /\ proc[SourceOf[j]].data = snapshot[j]

Receipts == \A j \in Jobs : Kept(j)

\* A job was planned for the placement of its day: the row has moved on since,
\* or still names the source.
Seated ==
    /\ placement.generation = GenOf[placement.instance]
    /\ \A j \in Jobs : job[j].phase # "none" =>
         \/ placement.generation > GenOf[SourceOf[j]]
         \/ placement.instance = SourceOf[j]

\* While only moves have assigned: all instances but the placed one are
\* retired and down, or were never prepared.
Lone ==
    MovedByMoves =>
        /\ \A i \in Instances : i = placement.instance \/ proc[i].phase = "none" \/ Gone(i)
        /\ \A j \in Jobs : <<j, "assign">> \in requests /\ proc[TargetOf[j]].phase = "none"
                              => TargetOf[j] = placement.instance

\* A call that has heard of the incumbent all along has not passed `incumbent`.
Heard ==
    /\ heard /\ call.at # "idle" /\ Step \in {"refresh", "fence"} => Fresh
    /\ heard /\ call.at = "step" /\ Step = "fence" /\ call.next >= 2 =>
         EvidenceOf[J] = "operator"

Inv == /\ Typed /\ Control /\ Progress /\ Journal /\ Asked /\ Owned /\ Receipts
       /\ Seated /\ Lone /\ Heard

-----------------------------------------------------------------------------
(* Types.                                                                  *)

LEMMA Constants ==
    /\ HostLabels = {"freeze", "capture", "thaw", "retire", "prepare", "adopt",
                     "observe", "stage", "commit", "start"}
    /\ OnSource \cap OnTarget = {}
    /\ \A j \in Jobs, l \in HostLabels :
         /\ l \in OnSource => Subject(j, l) = SourceOf[j]
         /\ l \in OnTarget => Subject(j, l) = TargetOf[j]
         /\ Subject(j, l) \in Instances
    /\ \A j \in Jobs : /\ SourceOf[j] \in Instances /\ TargetOf[j] \in Instances
                       /\ SourceOf[j] # TargetOf[j]
                       /\ GenOf[TargetOf[j]] \in Nat /\ GenOf[SourceOf[j]] \in Nat
                       /\ GenOf[TargetOf[j]] = GenOf[SourceOf[j]] + 1
    /\ \A j, k \in Jobs : TargetOf[j] = TargetOf[k] => j = k
    /\ None \notin Jobs /\ None \notin Nat
  BY JobAssumption DEF HostLabels, OnSource, OnTarget, Subject

LEMMA JobPhasesAre == JobPhases = {"none", "planned", "completed", "aborted"}
                                    \cup MoveSet \cup FailoverSet
  BY MoveFacts, FailoverFacts DEF JobPhases

\* Where a call stands, and its record.
LEMMA CallStands ==
    ASSUME Typed, Control, call.at # "idle"
    PROVE  /\ J \in Jobs /\ Step \in StepSet(J) /\ Step \in MoveSet \cup FailoverSet
           /\ call.next \in 1 .. Len(Script(Step)) /\ Len(Script(Step)) \in 1 .. 5
           /\ job \in [Jobs -> JobRow] /\ call \in CallRow
           /\ Step = job[J].phase
<1>1. J \in Jobs /\ Step \in StepSet(J) /\ call.next \in 1 .. Len(Script(Step))
  BY DEF Control
<1>2. Step \in MoveSet \cup FailoverSet
  BY <1>1 DEF StepSet
<1> QED BY <1>1, <1>2, ScriptFacts DEF Typed, CallTyped, Step

\* The label a call stands at tells its step.
LEMMA LabelIs ==
    ASSUME Typed, Control, call.at # "idle"
    PROVE  /\ Label \in OnTarget => Step \in {"install-target", "adopt"}
           /\ Label = "retire" => Step = "retire-source"
           /\ Label = "start" /\ Step = "install-target" =>
                call.next = 5 /\ Script(Step)[4] = "commit"
           /\ Label = "fence" => Step = "fence"
           /\ Label = "assign" => Step = "assign"
<1> DEFINE s == Step
           n == call.next
           l == Label
<1>1. s \in MoveSet \cup FailoverSet /\ n \in 1 .. Len(Script(s)) /\ l = Script(s)[n]
  BY CallStands DEF Label
<1> HIDE DEF s, n, l
<1>2. /\ l \in OnTarget => s \in {"install-target", "adopt"}
      /\ l = "retire" => s = "retire-source"
      /\ l = "start" /\ s = "install-target" => n = 5
      /\ l = "fence" => s = "fence"
      /\ l = "assign" => s = "assign"
  BY <1>1, LabelFacts
<1>3. s = "install-target" => Script(s)[4] = "commit"
  BY <1>1, ScriptFacts
<1> QED BY <1>2, <1>3 DEF s, n, l

LEMMA IdleIs == Idle \in CallRow /\ Idle.at = "idle"
  BY DEF Idle, CallRow, Places

LEMMA ProceedIs ==
    ASSUME Typed, Control, call.at # "idle", Proceed
    PROVE  /\ job' = job /\ call'.job = call.job
           /\ \/ /\ call.next = Len(Script(Step))
                 /\ call'.at = "save" /\ call'.next = call.next
              \/ /\ call.next + 1 \in 1 .. Len(Script(Step))
                 /\ call'.at = "step" /\ call'.next = call.next + 1
           /\ CallTyped'
<1>1. /\ call \in CallRow /\ job \in [Jobs -> JobRow]
      /\ call.next \in 1 .. Len(Script(Step)) /\ Len(Script(Step)) \in 1 .. 5
  BY CallStands
<1>2. CASE call.next = Len(Script(Step))
  <2>1. job' = job /\ call' = [call EXCEPT !.at = "save"]
    BY <1>2 DEF Proceed
  <2> QED BY <1>1, <1>2, <2>1 DEF CallRow, Places, CallTyped
<1>3. CASE call.next # Len(Script(Step))
  <2>1. job' = job /\ call' = [call EXCEPT !.at = "step", !.next = call.next + 1]
    BY <1>3 DEF Proceed
  <2> DEFINE n == call.next + 1
  <2>2. n \in 0 .. 5 /\ n \in 1 .. Len(Script(Step))
    <3>1. \A m \in 1 .. 5 : \A k \in 1 .. m : k # m => k + 1 \in 0 .. 5 /\ k + 1 \in 1 .. m
      OBVIOUS
    <3> QED BY <1>1, <1>3, <3>1
  <2>3. job' = job /\ call' = [call EXCEPT !.at = "step", !.next = n]
    BY <2>1
  <2> HIDE DEF n
  <2>4. call' \in CallRow /\ call'.at = "step" /\ call'.next = n /\ call'.job = call.job
    BY <1>1, <2>2, <2>3 DEF CallRow, Places
  <2> QED BY <1>1, <2>2, <2>3, <2>4 DEF CallTyped, n
<1> QED BY <1>2, <1>3

LEMMA GateIs ==
    ASSUME call \in CallRow, call' = [call EXCEPT !.at = "gate", !.next = 1]
    PROVE  call' \in CallRow /\ call'.at = "gate" /\ call'.next = 1 /\ call'.job = call.job
<1>1. /\ DOMAIN call = {"at", "job", "next"} /\ call.job \in Jobs \cup {None}
  BY DEF CallRow
<1>2. call' = [at |-> "gate", job |-> call.job, next |-> 1]
  BY <1>1
<1> QED BY <1>1, <1>2 DEF CallRow, Places

LEMMA DeferIs ==
    ASSUME Typed, Control, call.at # "idle", Defer
    PROVE  /\ call' = Idle
           /\ \A j \in Jobs : /\ job'[j].phase = job[j].phase
                              /\ job'[j].mark = IF j = J THEN "deferred" ELSE job[j].mark
           /\ CallTyped'
<1>1. J \in Jobs /\ job \in [Jobs -> JobRow]
  BY CallStands
<1> DEFINE k == J
<1>2. job' = [job EXCEPT ![k].mark = "deferred"] /\ call' = Idle
  BY DEF Defer
<1> HIDE DEF k
<1>3. k \in Jobs
  BY <1>1 DEF k
<1> QED BY <1>1, <1>2, <1>3, IdleIs DEF JobRow, Marks, CallTyped, k

LEMMA BlockedIs ==
    ASSUME Typed, Blocked
    PROVE  call' = Idle /\ job' = job /\ CallTyped'
  BY IdleIs DEF Blocked, Typed, CallTyped

\* The receipt of one operation.
LEMMA ReceiveIs ==
    ASSUME Typed, NEW j \in Jobs, NEW l \in HostLabels,
           NEW s \in {"begun", "completed", "failed"}, Receive(j, l, s)
    PROVE  /\ receipt' \in [Jobs -> [HostLabels -> {"none", "begun", "completed", "failed"}]]
           /\ receipt'[j][l] = s
           /\ \A k \in Jobs, m \in HostLabels :
                 k # j \/ m # l => receipt'[k][m] = receipt[k][m]
  BY DEF Receive, Typed, HostsTyped

-----------------------------------------------------------------------------
(* What one step can do to the hosts.                                      *)

\* To an instance.
ProcMove(i) ==
    \/ proc'[i] = proc[i]
    \/ /\ Begun(i)
       /\ proc'[i].phase = IF proc[i].phase = "stopped" THEN "stopped" ELSE "stopping"
       /\ proc[i].retired => proc'[i].retired
       /\ proc'[i].pending = proc[i].pending /\ proc'[i].data = proc[i].data
    \/ /\ proc[i].phase = "none" /\ proc'[i].phase = "prepared"
       /\ proc'[i].pending = proc[i].pending /\ proc'[i].data = proc[i].data
       /\ \E j \in Jobs : TargetOf[j] = i /\ <<j, "assign">> \in requests
    \/ /\ proc[i].phase = "prepared" /\ proc'[i].phase = "prepared"
       /\ \E j \in Jobs :
            /\ TargetOf[j] = i /\ snapshot[j] # None
            /\ \/ proc'[i].data = proc[i].data
               \/ /\ ~proc'[i].pending /\ proc'[i].data = snapshot[j]
                  /\ receipt[j]["commit"] = "none"
    \/ /\ proc[i].phase # "none" /\ ~proc[i].retired /\ proc'[i].phase = "running"
       /\ proc'[i].pending = proc[i].pending /\ proc'[i].data = proc[i].data
       /\ \/ \E j \in Jobs : /\ TargetOf[j] = i /\ receipt[j]["start"] = "none"
                             /\ receipt'[j]["start"] = "completed"
          \/ \A j \in Jobs : TargetOf[j] = i \/ (SourceOf[j] = i /\ barrier[j] # "none")
                                => byHand'
    \/ /\ proc[i].phase \in {"running", "stopping"}
       /\ proc'[i].phase \in {proc[i].phase, "stopped"}
       /\ proc'[i].retired = proc[i].retired /\ proc'[i].pending = proc[i].pending
       /\ proc'[i].data >= proc[i].data

\* To the receipt of an operation: what goes with a commit and a completion.
Deed(j, l) ==
    /\ l = "freeze" => barrier'[j] # "none"
    /\ l = "thaw" /\ receipt'[j][l] = "completed" => barrier'[j] = "released"
    /\ l = "capture" => snapshot'[j] # None
    /\ l = "start" => proc'[TargetOf[j]].phase = "running"
    /\ l = "commit" => /\ snapshot[j] # None /\ snapshot'[j] = snapshot[j]
                       /\ proc'[TargetOf[j]].data = snapshot[j]

ReceiptMove(j, l) ==
    \/ receipt'[j][l] = receipt[j][l]
    \/ receipt[j][l] = "none" /\ receipt'[j][l] = "failed" /\ Earned(j, l)
    \/ /\ receipt[j][l] \in {"none", "begun"} /\ receipt'[j][l] \in {"begun", "completed"}
       /\ Earned(j, l) /\ Deed(j, l)

\* To the barrier and the capture of a job.
CaptureMove(j) ==
    /\ \/ barrier'[j] = barrier[j]
       \/ /\ barrier[j] = "none" /\ barrier'[j] = "held" /\ Begun(SourceOf[j])
       \/ barrier[j] # "none" /\ barrier'[j] = "released"
    /\ \/ snapshot'[j] = snapshot[j]
       \/ /\ snapshot[j] = None /\ snapshot'[j] = proc[SourceOf[j]].data
          /\ receipt'[j]["capture"] = "completed" /\ barrier[j] = "held"
          /\ proc[SourceOf[j]].phase = "stopped" /\ proc' = proc

HostMove ==
    /\ byHand => byHand'
    /\ \A i \in Instances : ProcMove(i)
    /\ \A j \in Jobs : CaptureMove(j) /\ \A l \in HostLabels : ReceiptMove(j, l)

LEMMA HostRests ==
    ASSUME UNCHANGED <<hosts, byHand>>
    PROVE  HostMove
  BY DEF hosts, HostMove, ProcMove, CaptureMove, ReceiptMove

\* One operation, whatever it is.
LEMMA HostDoes ==
    ASSUME Typed, NEW j \in Jobs, NEW l \in HostLabels, Earned(j, l),
           receipt[j][l] \in {"none", "begun"}, NEW s \in {"begun", "completed"},
           Receive(j, l, s), Deed(j, l), ProcMove(Subject(j, l)), CaptureMove(j),
           \A i \in Instances \ {Subject(j, l)} : proc'[i] = proc[i],
           \A k \in Jobs \ {j} : barrier'[k] = barrier[k] /\ snapshot'[k] = snapshot[k],
           byHand' = byHand
    PROVE  HostMove
<1>1. receipt'[j][l] = s /\ \A k \in Jobs, m \in HostLabels :
                 k # j \/ m # l => receipt'[k][m] = receipt[k][m]
  BY ReceiveIs
<1>2. \A k \in Jobs, m \in HostLabels : ReceiptMove(k, m)
  BY <1>1 DEF ReceiptMove
<1>3. \A i \in Instances : ProcMove(i)
  <2>1. \A i \in Instances : proc'[i] = proc[i] => ProcMove(i)
    BY DEF ProcMove
  <2> QED BY <2>1
<1>4. \A k \in Jobs : CaptureMove(k)
  <2>1. \A k \in Jobs \ {j} : CaptureMove(k)
    BY DEF CaptureMove
  <2> QED BY <2>1
<1> QED BY <1>2, <1>3, <1>4 DEF HostMove

LEMMA HostFails ==
    ASSUME Typed, NEW j \in Jobs, NEW l \in HostLabels, Earned(j, l),
           receipt[j][l] = "none", Receive(j, l, "failed"),
           UNCHANGED <<proc, barrier, snapshot, byHand>>
    PROVE  HostMove /\ HostsTyped'
<1>1. /\ receipt'[j][l] = "failed"
      /\ receipt' \in [Jobs -> [HostLabels -> {"none", "begun", "completed", "failed"}]]
      /\ \A k \in Jobs, m \in HostLabels :
            k # j \/ m # l => receipt'[k][m] = receipt[k][m]
  BY ReceiveIs
<1>2. \A k \in Jobs, m \in HostLabels : ReceiptMove(k, m)
  BY <1>1 DEF ReceiptMove
<1> QED BY <1>1, <1>2 DEF HostMove, ProcMove, CaptureMove, Typed, HostsTyped

\* The instance of the operation, and the others.
LEMMA RowIs ==
    ASSUME Typed, NEW i \in Instances, NEW row \in ProcRow,
           proc' = [proc EXCEPT ![i] = row]
    PROVE  /\ proc'[i] = row /\ proc' \in [Instances -> ProcRow]
           /\ \A k \in Instances \ {i} : proc'[k] = proc[k]
  BY DEF Typed, HostsTyped

\* The first commit of a freeze or of a retire.
LEMMA BeginsMoves ==
    ASSUME Typed, Receipts, NEW j \in Jobs, NEW l \in HostLabels, Earned(j, l),
           HostBegins(j, l), byHand' = byHand
    PROVE  HostMove /\ HostsTyped'
<1> DEFINE i == Subject(j, l)
           row == Revoked(proc[i], l)
<1>1. /\ receipt[j][l] = "none" /\ l \in {"freeze", "retire"} /\ Admits(j, l)
      /\ proc' = [proc EXCEPT ![i] = row]
      /\ barrier' = IF l = "freeze" THEN [barrier EXCEPT ![j] = "held"] ELSE barrier
      /\ Receive(j, l, "begun") /\ snapshot' = snapshot
  BY DEF HostBegins, TwoPhased
<1>2. i = SourceOf[j] /\ i \in Instances /\ proc[i] \in ProcRow
  BY <1>1, Constants DEF OnSource, Typed, HostsTyped
<1>3. row \in ProcRow
  BY <1>2, JobAssumption DEF Revoked, ProcRow, ProcPhases
<1>4. Begun(i)
  BY <1>1, <1>2 DEF Admits, Receipts, Kept, Earned, Begun
<1>5. ProcMove(i)
  <2>1. proc'[i] = row
    <3> HIDE DEF i, row
    <3> QED BY <1>1, <1>2, <1>3, RowIs
  <2> QED BY <1>2, <1>4, <2>1 DEF ProcMove, Revoked, ProcRow, Typed, HostsTyped
<1> HIDE DEF i, row
<1>6. /\ proc' \in [Instances -> ProcRow]
      /\ \A k \in Instances \ {i} : proc'[k] = proc[k]
  BY <1>1, <1>2, <1>3, RowIs
<1>7. /\ barrier' \in [Jobs -> {"none", "held", "released"}]
      /\ \A k \in Jobs \ {j} : barrier'[k] = barrier[k]
      /\ l = "freeze" => barrier'[j] = "held" /\ barrier[j] = "none"
      /\ l # "freeze" => barrier'[j] = barrier[j]
  BY <1>1 DEF Typed, HostsTyped, Admits
<1>8. CaptureMove(j) /\ Deed(j, l)
  BY <1>1, <1>2, <1>4, <1>7 DEF CaptureMove, Deed
<1>9. HostMove
  BY <1>1, <1>5, <1>6, <1>7, <1>8, HostDoes DEF i
<1>10. HostsTyped'
  BY <1>1, <1>6, <1>7, ReceiveIs DEF Typed, HostsTyped
<1> QED BY <1>9, <1>10

LEMMA CompletesMoves ==
    ASSUME Typed, Receipts, NEW j \in Jobs, NEW l \in HostLabels, Earned(j, l),
           HostCompletes(j, l), byHand' = byHand
    PROVE  HostMove /\ HostsTyped'
<1> DEFINE i == Subject(j, l)
           row == Carried(proc[i], l, snapshot[j])
<1>1. /\ IF l \in {"freeze", "retire"} THEN receipt[j][l] = "begun"
         ELSE receipt[j][l] = "none" /\ Admits(j, l)
      /\ proc' = [proc EXCEPT ![i] = row]
      /\ snapshot' = IF l = "capture" THEN [snapshot EXCEPT ![j] = proc[i].data]
                     ELSE snapshot
      /\ barrier' = IF l = "thaw" THEN [barrier EXCEPT ![j] = "released"] ELSE barrier
      /\ Receive(j, l, "completed")
  BY DEF HostCompletes, TwoPhased
<1>2. /\ i \in Instances /\ proc[i] \in ProcRow /\ snapshot[j] \in (0 .. MaxWrites) \cup {None}
      /\ proc[i].data \in 0 .. MaxWrites
      /\ l \in OnSource => i = SourceOf[j]
      /\ l \in OnTarget => i = TargetOf[j]
  BY Constants DEF Typed, HostsTyped, ProcRow
<1>3. l = "commit" => /\ proc[i].phase = "prepared" /\ proc[i].pending
                      /\ snapshot[j] # None /\ receipt[j]["commit"] = "none"
  BY <1>1, <1>2 DEF Admits, Receipts, Kept, OnTarget
<1>4. row \in ProcRow
  BY <1>2, <1>3 DEF Carried, ProcRow, ProcPhases
<1>5. proc'[i] = row
  <2> HIDE DEF i, row
  <2> QED BY <1>1, <1>2, <1>4, RowIs
<1>6. ProcMove(i)
  <2>1. CASE l \notin OnTarget \/ l = "observe"
    <3>1. row = proc[i]
      BY <2>1 DEF Carried, OnTarget
    <3> QED BY <1>5, <3>1 DEF ProcMove
  <2>2. CASE l \in {"prepare", "adopt"}
    <3>1. proc[i].phase = "none" /\ <<j, "assign">> \in requests /\ TargetOf[j] = i
      BY <1>1, <1>2, <2>2 DEF Admits, Earned, OnTarget
    <3>2. row = [proc[i] EXCEPT !.phase = "prepared"]
      BY <2>2 DEF Carried
    <3>3. row.phase = "prepared" /\ row.pending = proc[i].pending /\ row.data = proc[i].data
      BY <1>2, <3>2 DEF ProcRow
    <3> QED BY <1>5, <3>1, <3>3 DEF ProcMove
  <2>3. CASE l = "stage"
    <3>1. proc[i].phase = "prepared" /\ snapshot[j] # None /\ TargetOf[j] = i
      BY <1>1, <1>2, <2>3 DEF Admits, OnTarget
    <3>2. row = [proc[i] EXCEPT !.pending = TRUE]
      BY <2>3 DEF Carried
    <3>3. row.phase = "prepared" /\ row.data = proc[i].data
      BY <1>2, <3>1, <3>2 DEF ProcRow
    <3> QED BY <1>5, <3>1, <3>3 DEF ProcMove
  <2>4. CASE l = "commit"
    <3>1. TargetOf[j] = i
      BY <1>2, <2>4 DEF OnTarget
    <3>2. row = [proc[i] EXCEPT !.pending = FALSE, !.data = snapshot[j]]
      BY <2>4 DEF Carried
    <3>3. row.phase = "prepared" /\ ~row.pending /\ row.data = snapshot[j]
      BY <1>2, <1>3, <2>4, <3>2 DEF ProcRow
    <3> QED BY <1>3, <1>5, <2>4, <3>1, <3>3 DEF ProcMove
  <2>5. CASE l = "start"
    <3>1. /\ proc[i].phase # "none" /\ ~proc[i].retired
          /\ receipt[j]["start"] = "none" /\ TargetOf[j] = i
      BY <1>1, <1>2, <2>5 DEF Admits, OnTarget
    <3>2. row = [proc[i] EXCEPT !.phase = "running"]
      BY <2>5 DEF Carried
    <3>3. row.phase = "running" /\ row.pending = proc[i].pending /\ row.data = proc[i].data
      BY <1>2, <3>2 DEF ProcRow
    <3>4. receipt'[j]["start"] = "completed"
      BY <1>1, <2>5, ReceiveIs
    <3> QED BY <1>5, <3>1, <3>3, <3>4 DEF ProcMove
  <2> QED BY <2>1, <2>2, <2>3, <2>4, <2>5 DEF OnTarget
<1>7. Deed(j, l) /\ CaptureMove(j)
  <2>1. /\ barrier' \in [Jobs -> {"none", "held", "released"}]
        /\ snapshot' \in [Jobs -> (0 .. MaxWrites) \cup {None}]
        /\ l = "thaw" => barrier'[j] = "released" /\ barrier[j] # "none"
        /\ l # "thaw" => barrier'[j] = barrier[j]
        /\ l = "capture" => snapshot'[j] = proc[i].data
        /\ l # "capture" => snapshot'[j] = snapshot[j]
    BY <1>1, <1>2 DEF Typed, HostsTyped, Admits
  <2>2. receipt'[j][l] = "completed"
    BY <1>1, ReceiveIs
  <2>3. l = "freeze" => barrier[j] # "none"
    BY <1>1 DEF Receipts, Kept
  <2>4. l = "capture" => proc[i].data # None
    BY <1>2, Constants, JobAssumption
  <2>5. l = "start" => proc'[i].phase = "running"
    BY <1>2, <1>5 DEF Carried, ProcRow
  <2>6. l = "commit" => proc'[i].data = snapshot[j]
    BY <1>2, <1>5 DEF Carried, ProcRow
  <2>7. Deed(j, l)
    BY <1>2, <1>3, <2>1, <2>2, <2>3, <2>4, <2>5, <2>6 DEF Deed, OnTarget
  <2>8. l = "capture" => /\ snapshot[j] = None /\ barrier[j] = "held"
                         /\ proc[i].phase = "stopped" /\ i = SourceOf[j] /\ proc' = proc
    <3>1. ASSUME l = "capture" PROVE snapshot[j] = None
      BY <1>1, <3>1 DEF Receipts, Kept
    <3>2. ASSUME l = "capture" PROVE proc' = proc
      BY <1>1, <1>2, <3>2 DEF Carried, Typed, HostsTyped
    <3> QED BY <1>1, <1>2, <3>1, <3>2 DEF Admits, OnSource
  <2> HIDE DEF i, row
  <2> QED BY <2>1, <2>2, <2>7, <2>8 DEF CaptureMove
<1> HIDE DEF i, row
<1>8. /\ proc' \in [Instances -> ProcRow]
      /\ \A k \in Instances \ {i} : proc'[k] = proc[k]
  BY <1>1, <1>2, <1>4, RowIs
<1>9. /\ \A k \in Jobs \ {j} : barrier'[k] = barrier[k] /\ snapshot'[k] = snapshot[k]
      /\ barrier' \in [Jobs -> {"none", "held", "released"}]
      /\ snapshot' \in [Jobs -> (0 .. MaxWrites) \cup {None}]
  BY <1>1, <1>2 DEF Typed, HostsTyped
<1>10. receipt[j][l] \in {"none", "begun"}
  BY <1>1
<1>11. HostMove
  BY <1>1, <1>6, <1>7, <1>8, <1>9, <1>10, HostDoes DEF i
<1>12. HostsTyped'
  BY <1>1, <1>8, <1>9, ReceiveIs DEF Typed, HostsTyped
<1> QED BY <1>11, <1>12

LEMMA WorksMoves ==
    ASSUME Typed, Receipts, NEW j \in Jobs, NEW l \in HostLabels, Earned(j, l),
           HostWorks(j, l), byHand' = byHand
    PROVE  HostMove /\ HostsTyped'
<1>1. HostBegins(j, l) \/ HostCompletes(j, l) \/ HostRefuses(j, l)
  BY DEF HostWorks
<1>2. HostRefuses(j, l) => HostMove /\ HostsTyped'
  BY HostFails DEF HostRefuses
<1> QED BY <1>1, <1>2, BeginsMoves, CompletesMoves

\* What happens to an instance without any job.
LEMMA AloneMoves ==
    ASSUME Typed, Receipts, NEW i \in Instances, Down(i) \/ Write(i) \/ StartByHand(i)
    PROVE  HostMove /\ HostsTyped' /\ byHand' \in BOOLEAN
<1>1. proc[i] \in ProcRow /\ UNCHANGED <<receipt, barrier, snapshot>>
  BY DEF Typed, HostsTyped, Down, Write, StartByHand
<1>2. ASSUME NEW row \in ProcRow, proc' = [proc EXCEPT ![i] = row],
             proc'[i] = row => ProcMove(i), byHand => byHand'
      PROVE  HostMove /\ HostsTyped'
  <2>1. proc'[i] = row /\ proc' \in [Instances -> ProcRow]
        /\ \A k \in Instances \ {i} : proc'[k] = proc[k]
    BY <1>2, RowIs
  <2>2. \A k \in Instances : ProcMove(k)
    <3>1. \A k \in Instances : proc'[k] = proc[k] => ProcMove(k)
      BY DEF ProcMove
    <3> QED BY <1>2, <2>1, <3>1
  <2>3. \A j \in Jobs : CaptureMove(j) /\ \A l \in HostLabels : ReceiptMove(j, l)
    BY <1>1 DEF CaptureMove, ReceiptMove
  <2> QED BY <1>1, <1>2, <2>1, <2>2, <2>3 DEF HostMove, Typed, HostsTyped
<1>3. CASE Down(i)
  <2> DEFINE row == [proc[i] EXCEPT !.phase = "stopped"]
  <2>1. /\ row \in ProcRow /\ row.phase = "stopped" /\ row.retired = proc[i].retired
        /\ row.pending = proc[i].pending /\ row.data = proc[i].data
    BY <1>1 DEF ProcRow, ProcPhases
  <2>2. proc' = [proc EXCEPT ![i] = row] /\ proc[i].phase \in {"running", "stopping"}
    BY <1>1, <1>3 DEF Down
  <2>3. proc[i].data \in Nat /\ byHand' = byHand
    BY <1>1, <1>3, JobAssumption DEF ProcRow, Down, env
  <2> HIDE DEF row
  <2>4. proc'[i] = row => ProcMove(i)
    BY <2>1, <2>2, <2>3 DEF ProcMove
  <2> QED BY <1>2, <2>1, <2>2, <2>3, <2>4 DEF Typed, EnvTyped
<1>4. CASE Write(i)
  <2> DEFINE row == [proc[i] EXCEPT !.data = proc[i].data + 1]
  <2>1. proc[i].data \in Nat /\ proc[i].data < MaxWrites /\ MaxWrites \in Nat
    BY <1>1, <1>4, JobAssumption DEF ProcRow, Write
  <2>2. proc[i].data + 1 \in 0 .. MaxWrites /\ proc[i].data + 1 >= proc[i].data
    BY <2>1
  <2>3. /\ row \in ProcRow /\ row.phase = proc[i].phase /\ row.retired = proc[i].retired
        /\ row.pending = proc[i].pending /\ row.data >= proc[i].data
    BY <1>1, <2>2 DEF ProcRow
  <2>4. /\ proc' = [proc EXCEPT ![i] = row] /\ proc[i].phase \in {"running", "stopping"}
        /\ byHand' = byHand
    BY <1>1, <1>4 DEF Write, env
  <2> HIDE DEF row
  <2>5. proc'[i] = row => ProcMove(i)
    BY <2>3, <2>4 DEF ProcMove
  <2> QED BY <1>2, <2>3, <2>4, <2>5 DEF Typed, EnvTyped
<1>5. CASE StartByHand(i)
  <2> DEFINE row == [proc[i] EXCEPT !.phase = "running"]
  <2>1. /\ row \in ProcRow /\ row.phase = "running" /\ row.retired = proc[i].retired
        /\ row.pending = proc[i].pending /\ row.data = proc[i].data
    BY <1>1 DEF ProcRow, ProcPhases
  <2>2. /\ proc' = [proc EXCEPT ![i] = row] /\ proc[i].phase \in {"prepared", "stopped"}
        /\ ~proc[i].retired /\ ~Frozen(i)
        /\ byHand' = (byHand \/ \E j \in Jobs :
                         \/ TargetOf[j] = i
                         \/ SourceOf[j] = i /\ barrier[j] = "released")
    BY <1>1, <1>5 DEF StartByHand
  <2>3. \A j \in Jobs : SourceOf[j] = i /\ barrier[j] # "none" => barrier[j] = "released"
    BY <2>2 DEF Frozen, Typed, HostsTyped
  <2>4. \A j \in Jobs : TargetOf[j] = i \/ (SourceOf[j] = i /\ barrier[j] # "none") => byHand'
    BY <2>2, <2>3
  <2> HIDE DEF row
  <2>5. proc'[i] = row => ProcMove(i)
    BY <2>1, <2>2, <2>4 DEF ProcMove
  <2> QED BY <1>2, <2>1, <2>2, <2>5 DEF Typed, EnvTyped
<1> QED BY <1>3, <1>4, <1>5

-----------------------------------------------------------------------------
(* What a host is asked to do is earned.                                   *)

LEMMA LastLabels ==
    /\ LastLabel("freeze") = "freeze" /\ LastLabel("capture") = "capture"
    /\ LastLabel("thaw") = "thaw" /\ LastLabel("retire-source") = "await-retired"
    /\ LastLabel("assign") = "assign" /\ LastLabel("publish") = "publish"
    /\ LastLabel("install-target") = "start" /\ LastLabel("adopt") = "start"
    /\ LastLabel("fence") = "verify"
  BY DEF LastLabel, Script

LEMMA BehindEarlier ==
    ASSUME NEW j \in Jobs, job[j].phase \in StepSet(j)
    PROVE  /\ job[j].phase \in {"install-target", "adopt"} =>
                Behind(j, "assign") /\ "assign" \in StepSet(j)
           /\ job[j].phase = "retire-source" =>
                Behind(j, "freeze") /\ "freeze" \in StepSet(j)
           /\ ActionOf[j] = "plan" /\ job[j].phase = "assign" =>
                Behind(j, "retire-source") /\ "retire-source" \in StepSet(j)
<1>1. CASE ActionOf[j] = "plan"
  <2>1. StepsOf(j) = MoveSteps /\ StepSet(j) = MoveSet
    BY <1>1 DEF StepsOf, StepSet
  <2>2. job[j].phase = "install-target" => Behind(j, "assign")
    BY <2>1, MoveFacts DEF Behind, MoveSet
  <2>3. job[j].phase = "retire-source" => Behind(j, "freeze")
    BY <2>1, MoveFacts DEF Behind, MoveSet
  <2>4. job[j].phase = "assign" => Behind(j, "retire-source")
    BY <2>1, MoveFacts DEF Behind, MoveSet
  <2> QED BY <2>1, <2>2, <2>3, <2>4 DEF MoveSet
<1>2. CASE ActionOf[j] # "plan"
  <2>1. StepsOf(j) = FailoverSteps /\ StepSet(j) = FailoverSet
    BY <1>2 DEF StepsOf, StepSet
  <2>2. job[j].phase = "adopt" => Behind(j, "assign")
    BY <2>1, FailoverFacts DEF Behind, FailoverSet
  <2> QED BY <1>2, <2>1, <2>2 DEF FailoverSet
<1> QED BY <1>1, <1>2

LEMMA LabelEarned ==
    ASSUME Typed, Control, Progress, Journal, Receipts, call.at \in {"step", "view"}
    PROVE  J \in Jobs /\ (Label \in HostLabels => Earned(J, Label))
<1>1. /\ J \in Jobs /\ Step \in StepSet(J) /\ Step \in MoveSet \cup FailoverSet
      /\ call.next \in 1 .. Len(Script(Step)) /\ Step = job[J].phase
      /\ Label = Script(Step)[call.next]
  BY CallStands DEF Label
<1>2. ASSUME Label \in OnTarget PROVE <<J, "assign">> \in requests
  <2>1. Step \in {"install-target", "adopt"}
    BY <1>2, LabelIs
  <2>2. Behind(J, "assign") /\ "assign" \in StepSet(J)
    BY <1>1, <2>1, BehindEarlier
  <2> QED BY <1>1, <2>2, LastLabels DEF Journal, Finished
<1>3. ASSUME Label = "retire" PROVE barrier[J] # "none"
  <2>1. Step = "retire-source"
    BY <1>3, LabelIs
  <2>2. Behind(J, "freeze") /\ "freeze" \in StepSet(J)
    BY <1>1, <2>1, BehindEarlier
  <2>3. receipt[J]["freeze"] = "completed"
    <3>1. Finished(J, LastLabel("freeze"))
      BY <1>1, <2>2 DEF Journal
    <3>2. "freeze" \in HostLabels \ {"retire"}
      BY Constants
    <3> QED BY <3>1, <3>2, LastLabels DEF Finished
  <2> QED BY <1>1, <2>3 DEF Receipts, Kept
<1>4. ASSUME Label = "start", ActionOf[J] = "plan" PROVE receipt[J]["commit"] = "completed"
  <2>1. Step = "install-target"
    <3>1. Step \in {"install-target", "adopt"}
      BY <1>4, LabelIs DEF OnTarget
    <3> QED BY <1>1, <1>4, <3>1 DEF StepSet, MoveSet
  <2>2. call.next = 5 /\ Script(Step)[4] = "commit"
    BY <1>4, <2>1, LabelIs
  <2>3. Finished(J, "commit")
    BY <2>2 DEF Progress
  <2> QED BY <2>3, Constants DEF Finished
<1> QED BY <1>1, <1>2, <1>3, <1>4 DEF Earned

-----------------------------------------------------------------------------
(* What one step can do to the queue, the registry and the call.           *)

QueueMove ==
    \A j \in Jobs, l \in HostLabels :
        \/ queue'[j][l] = queue[j][l]
        \/ queue[j][l] = "none" /\ queue'[j][l] = "open" /\ Earned(j, l)
        \/ queue[j][l] = "open" /\ queue'[j][l] = receipt[j][l]

Commits(j) ==
    \/ /\ requests' = requests \cup {<<j, "assign">>}
       /\ call.at = "step" /\ Step = "assign" /\ J = j
       /\ <<j, "assign">> \notin requests
       /\ placement.generation = GenOf[SourceOf[j]]
       /\ shown = "retired" \/ placement.generation \in fences
       /\ placement' = [generation |-> GenOf[TargetOf[j]], instance |-> TargetOf[j],
                        published |-> FALSE]
       /\ shown' = "stale" /\ fences' = fences
    \/ /\ requests' = requests \cup {<<j, "fence">>}
       /\ Step = "fence" /\ J = j
       /\ fences' = fences \cup {placement.generation}
       /\ UNCHANGED <<placement, shown>>
    \/ /\ requests' = requests \cup {<<j, "publish">>}
       /\ placement.generation = GenOf[TargetOf[j]]
       /\ placement'.generation = placement.generation
       /\ placement'.instance = placement.instance /\ placement'.published
       /\ UNCHANGED <<fences, shown>>

RegistryMove ==
    \/ /\ UNCHANGED registry
       /\ \/ shown' \in {shown, "stale"}
          \/ shown' = WordOf(placement.instance) /\ UNCHANGED hosts
    \/ UNCHANGED hosts /\ \E j \in Jobs : Commits(j)

\* The call and the record of its job.
SameCall == call'.job = call.job /\ call'.next = call.next

FinishedNow(j, l) ==
    Finished(j, l) \/ (l \in {"assign", "publish"} /\ <<j, l>> \in requests')

Proceeds ==
    /\ call.at \in {"step", "view"} /\ job' = job /\ call'.job = call.job
    /\ FinishedNow(J, Label)
    /\ \/ call.next = Len(Script(Step)) /\ call'.at = "save" /\ call'.next = call.next
       \/ /\ call.next + 1 \in 1 .. Len(Script(Step))
          /\ call'.at = "step" /\ call'.next = call.next + 1

Ends ==
    /\ call' = Idle
    /\ \A j \in Jobs : /\ job'[j].phase = job[j].phase
                       /\ job'[j].mark \in {job[j].mark, "deferred"}

Opens ==
    /\ SameCall /\ job' = job
    /\ \/ call.at = "gate" /\ call'.at = "step"
       \/ call.at = "gate" /\ call'.at = "advance" /\ job[J].mark = "completed"
       \/ call.at = "step" /\ call'.at = "view" /\ Label \in HostLabels

Saves ==
    /\ SameCall /\ call.at = "save" /\ call'.at = "advance"
    /\ \A j \in Jobs :
         /\ job'[j].phase = job[j].phase
         /\ job'[j].mark = IF j = J THEN "completed" ELSE job[j].mark

Advances ==
    /\ call.at = "advance"
    /\ \A j \in Jobs \ {J} : job'[j] = job[j]
    /\ job'[J].mark = "none"
    /\ \/ /\ call' = Idle /\ Step = Last(StepsOf(J)) /\ job'[J].phase = "completed"
       \/ /\ call'.at = "gate" /\ call'.next = 1 /\ call'.job = call.job
          /\ \E n \in 1 .. Len(StepsOf(J)) - 1 :
               StepsOf(J)[n] = Step /\ job'[J].phase = StepsOf(J)[n + 1]

Starts(j) ==
    /\ call.at = "idle"
    /\ \A k \in Jobs \ {j} : job'[k] = job[k]
    /\ \/ /\ job[j].phase = "none" /\ job'[j].phase = "planned"
          /\ ShowsSource(j) /\ placement' = placement
          /\ job'[j].mark = job[j].mark /\ call' = call
       \/ /\ job[j].phase \notin {"none", "aborted", "completed"}
          /\ job'[j].phase = IF job[j].phase = "planned" THEN StepsOf(j)[1] ELSE job[j].phase
          /\ job'[j].mark = job[j].mark
          /\ call'.at = "gate" /\ call'.job = j /\ call'.next = 1
       \/ /\ job[j].phase # "none" /\ job'[j].phase = "aborted"
          /\ job'[j].mark = "none" /\ call' = call

CallMove ==
    \/ call' = call /\ job' = job
    \/ Proceeds \/ Ends \/ Opens \/ Saves \/ Advances
    \/ \E j \in Jobs : Starts(j)

Moves == HostMove /\ QueueMove /\ RegistryMove /\ CallMove /\ Typed'

LEMMA QueueRests ==
    ASSUME queue' = queue
    PROVE  QueueMove
  BY DEF QueueMove

\* Steps that leave most things alone.
LEMMA OtherTypes ==
    ASSUME Typed, UNCHANGED <<registry, hosts, env, queue, shown, ready, heard>>
    PROVE  /\ HostMove /\ QueueMove /\ RegistryMove
           /\ RegistryTyped' /\ EvidenceTyped' /\ QueueTyped' /\ HostsTyped' /\ EnvTyped'
<1>1. HostMove /\ QueueMove
  BY HostRests, QueueRests DEF env
<1> QED BY <1>1 DEF RegistryMove, Typed, registry, hosts, env, RegistryTyped,
        EvidenceTyped, QueueTyped, HostsTyped, EnvTyped

LEMMA PlanMoves ==
    ASSUME Typed, Control, NEW j \in Jobs, Plan(j) \/ Execute(j) \/ Abort(j)
    PROVE  Moves
<1>1. job[j] \in JobRow /\ job \in [Jobs -> JobRow] /\ call \in CallRow
  BY DEF Typed, CallTyped
<1>2. call.at = "idle" /\ UNCHANGED <<registry, hosts, env, queue, shown, ready>>
  BY DEF Plan, Execute, Abort, evidence
<1>3. QueueMove /\ HostMove /\ RegistryMove
  BY <1>2, QueueRests, HostRests DEF env, RegistryMove
<1>4. heard' \in BOOLEAN
  BY DEF Typed, EvidenceTyped, Plan, Execute, Abort, evidence, Fresh, ShowsSource
<1>5. RegistryTyped' /\ EvidenceTyped' /\ QueueTyped' /\ HostsTyped' /\ EnvTyped'
  BY <1>2, <1>4 DEF Typed, registry, hosts, env, RegistryTyped,
        EvidenceTyped, QueueTyped, HostsTyped, EnvTyped
<1>6. StepsOf(j)[1] \in StepSet(j) /\ Head(StepsOf(j)) = StepsOf(j)[1]
  BY OrderFacts
<1>7. Starts(j) /\ CallTyped'
  <2>1. CASE Plan(j)
    <3>1. /\ call' = call /\ job' = [job EXCEPT ![j].phase = "planned"]
          /\ job[j].phase = "none" /\ ShowsSource(j) /\ placement' = placement
      BY <2>1 DEF Plan, registry
    <3> QED BY <1>1, <1>2, <3>1, JobPhasesAre DEF Starts, CallTyped, JobRow
  <2>2. CASE Execute(j)
    <3> DEFINE p == IF job[j].phase = "planned" THEN StepsOf(j)[1] ELSE job[j].phase
    <3>1. /\ call' = [at |-> "gate", job |-> j, next |-> 1]
          /\ job' = [job EXCEPT ![j].phase = p]
          /\ job[j].phase \notin {"none", "aborted", "completed"}
      BY <1>6, <2>2 DEF Execute
    <3>2. p \in JobPhases
      BY <1>1, <1>6, JobPhasesAre DEF JobRow, StepSet
    <3>3. call' \in CallRow
      BY <3>1 DEF CallRow, Places
    <3>4. p = IF job[j].phase = "planned" THEN StepsOf(j)[1] ELSE job[j].phase
      OBVIOUS
    <3> HIDE DEF p
    <3>5. /\ job' \in [Jobs -> JobRow] /\ job'[j].phase = p /\ job'[j].mark = job[j].mark
          /\ \A k \in Jobs \ {j} : job'[k] = job[k]
      BY <1>1, <3>1, <3>2 DEF JobRow
    <3> QED BY <1>1, <1>2, <3>1, <3>3, <3>4, <3>5 DEF Starts, CallTyped
  <2>3. CASE Abort(j)
    <3>1. /\ call' = call /\ job[j].phase # "none"
          /\ job' = [job EXCEPT ![j] = [phase |-> "aborted", mark |-> "none"]]
      BY <2>3 DEF Abort
    <3> QED BY <1>1, <1>2, <3>1, JobPhasesAre DEF Starts, CallTyped, JobRow, Marks
  <2> QED BY <2>1, <2>2, <2>3
<1> QED BY <1>3, <1>5, <1>7 DEF Moves, CallMove, Typed

\* The loop of _run_phases around the labels.
LEMMA LoopMoves ==
    ASSUME Typed, Control, Gate \/ Save \/ Advance
    PROVE  Moves
<1>1. call.at # "idle" /\ UNCHANGED <<registry, hosts, env, queue, shown, ready, heard>>
  BY DEF Gate, Save, Advance, evidence
<1>2. /\ HostMove /\ QueueMove /\ RegistryMove
      /\ RegistryTyped' /\ EvidenceTyped' /\ QueueTyped' /\ HostsTyped' /\ EnvTyped'
  BY <1>1, OtherTypes
<1> DEFINE k == J
<1>3. /\ k \in Jobs /\ job \in [Jobs -> JobRow] /\ job[k] \in JobRow /\ call \in CallRow
      /\ Step \in StepSet(k) /\ Step = job[k].phase /\ call.job = k
  BY <1>1, CallStands DEF J
<1>4. CASE Gate
  <2>1. \/ /\ job[k].mark = "completed" /\ call' = [call EXCEPT !.at = "advance"] /\ job' = job
        \/ call' = [call EXCEPT !.at = "step"] /\ job' = job
        \/ Defer
    BY <1>4 DEF Gate
  <2>2. CASE call' = [call EXCEPT !.at = "step"] /\ job' = job
    <3>1. CallTyped' /\ Opens
      BY <1>3, <1>4, <2>2 DEF Opens, SameCall, CallTyped, CallRow, Places, Gate
    <3> QED BY <1>2, <3>1 DEF CallMove, Moves, Typed
  <2>3. CASE Defer
    BY <1>1, <1>2, <2>3, DeferIs DEF Ends, CallMove, Moves, Typed
  <2>4. CASE /\ job[k].mark = "completed" /\ call' = [call EXCEPT !.at = "advance"]
             /\ job' = job
    <3>1. CallTyped' /\ Opens
      BY <1>3, <1>4, <2>4 DEF Opens, SameCall, CallTyped, CallRow, Places, Gate
    <3> QED BY <1>2, <3>1 DEF CallMove, Moves, Typed
  <2> QED BY <2>1, <2>2, <2>3, <2>4
<1>5. CASE Save
  <2>1. /\ call.at = "save" /\ job' = [job EXCEPT ![k].mark = "completed"]
        /\ call' = [call EXCEPT !.at = "advance"]
    BY <1>5 DEF Save
  <2> HIDE DEF k
  <2>2. CallTyped'
    BY <1>3, <2>1 DEF CallTyped, JobRow, Marks, CallRow, Places
  <2>3. \A j \in Jobs : /\ job'[j].phase = job[j].phase
                        /\ job'[j].mark = IF j = k THEN "completed" ELSE job[j].mark
    BY <1>3, <2>1 DEF JobRow
  <2>4. Saves
    BY <1>3, <2>1, <2>3 DEF Saves, SameCall, CallRow, k
  <2> QED BY <1>2, <2>2, <2>4 DEF CallMove, Moves, Typed
<1>6. CASE Advance
  <2>1. call.at = "advance"
    BY <1>6 DEF Advance
  <2>2. CASE Step = Last(StepsOf(k))
    <3>1. /\ job' = [job EXCEPT ![k] = [phase |-> "completed", mark |-> "none"]]
          /\ call' = Idle
      BY <1>6, <2>2 DEF Advance
    <3> HIDE DEF k
    <3>2. CallTyped' /\ job'[k].phase = "completed" /\ job'[k].mark = "none"
          /\ \A j \in Jobs \ {k} : job'[j] = job[j]
      BY <1>3, <3>1, IdleIs, JobPhasesAre DEF CallTyped, JobRow, Marks
    <3>3. Advances
      BY <2>1, <2>2, <3>1, <3>2 DEF Advances, k
    <3> QED BY <1>2, <3>2, <3>3 DEF CallMove, Moves, Typed
  <2>3. CASE Step # Last(StepsOf(k))
    <3>1. PICK n \in 1 .. Len(StepsOf(k)) - 1 :
            /\ StepsOf(k)[n] = Step
            /\ job' = [job EXCEPT ![k] = [phase |-> StepsOf(k)[n + 1], mark |-> "none"]]
      BY <1>6, <2>3 DEF Advance
    <3>2. call' = [call EXCEPT !.at = "gate", !.next = 1]
      BY <1>6, <2>3 DEF Advance
    <3>3. Len(StepsOf(k)) \in Nat /\ \A m \in 1 .. Len(StepsOf(k)) : StepsOf(k)[m] \in StepSet(k)
      BY <1>3, OrderFacts
    <3> DEFINE p == StepsOf(k)[n + 1]
    <3>4. p \in StepSet(k)
      BY <3>1, <3>3
    <3>5. p \in JobPhases
      BY <3>4, JobPhasesAre DEF StepSet
    <3>6. job' = [job EXCEPT ![k] = [phase |-> p, mark |-> "none"]] /\ p = StepsOf(k)[n + 1]
      BY <3>1
    <3> HIDE DEF p, k
    <3>7. job' \in [Jobs -> JobRow] /\ job'[k].phase = p /\ job'[k].mark = "none"
          /\ \A j \in Jobs \ {k} : job'[j] = job[j]
      BY <1>3, <3>5, <3>6 DEF JobRow, Marks
    <3>8. call' \in CallRow /\ call'.at = "gate" /\ call'.next = 1 /\ call'.job = call.job
      BY <1>3, <3>2, GateIs
    <3>9. Advances
      BY <2>1, <3>1, <3>6, <3>7, <3>8 DEF Advances, k
    <3> QED BY <1>2, <3>7, <3>8, <3>9 DEF CallMove, CallTyped, Moves, Typed
  <2> QED BY <2>2, <2>3
<1> QED BY <1>4, <1>5, <1>6

LEMMA ProceedMoves ==
    ASSUME Typed, Control, call.at \in {"step", "view"}, Proceed, FinishedNow(J, Label)
    PROVE  CallMove /\ CallTyped'
<1>1. call.at # "idle"
  OBVIOUS
<1> QED BY <1>1, ProceedIs DEF Proceeds, CallMove

LEMMA EndMoves ==
    ASSUME Typed, Control, Blocked \/ (call.at # "idle" /\ Defer)
    PROVE  CallMove /\ CallTyped'
<1>1. CASE Blocked
  BY <1>1, BlockedIs DEF Ends, CallMove
<1>2. CASE call.at # "idle" /\ Defer
  BY <1>2, DeferIs DEF Ends, CallMove
<1> QED BY <1>1, <1>2

LEMMA CallRests ==
    ASSUME Typed, UNCHANGED <<job, call>>
    PROVE  CallMove /\ CallTyped'
  BY DEF CallMove, Typed, CallTyped

\* Labels that read /v2/state.
LEMMA LookMoves ==
    ASSUME Typed, Control, Owned, Look
    PROVE  Moves
<1>1. UNCHANGED <<registry, hosts, env, queue, shown, ready, heard>>
  BY DEF Look, evidence
<1>2. /\ HostMove /\ QueueMove /\ RegistryMove
      /\ RegistryTyped' /\ EvidenceTyped' /\ QueueTyped' /\ HostsTyped' /\ EnvTyped'
  BY <1>1, OtherTypes
<1>3. call.at = "step"
  BY DEF Look, Doing
<1>4. \/ Blocked \/ Defer
      \/ /\ Proceed
         /\ Label \in {"validate", "refresh", "incumbent", "verify", "await-retired",
                       "await-ready", "retain"}
         /\ Label = "verify" => GenOf[SourceOf[J]] \in fences
         /\ Label = "await-retired" => ShowsSource(J) /\ shown = "retired"
  BY DEF Look, Unless, Await, Doing
<1>5. CASE /\ Proceed
           /\ Label \in {"validate", "refresh", "incumbent", "verify", "await-retired",
                         "await-ready", "retain"}
           /\ Label = "verify" => GenOf[SourceOf[J]] \in fences
           /\ Label = "await-retired" => ShowsSource(J) /\ shown = "retired"
  <2>1. Label \notin HostLabels
    BY <1>5, Constants
  <2>2. FinishedNow(J, Label)
    BY <1>5, <2>1 DEF FinishedNow, Finished, Owned, ShowsSource
  <2> QED BY <1>2, <1>3, <1>5, <2>2, ProceedMoves DEF Moves, Typed
<1>6. CASE Blocked \/ Defer
  BY <1>2, <1>3, <1>6, EndMoves DEF Moves, Typed
<1> QED BY <1>4, <1>5, <1>6

\* Labels that write to the registry.
LEMMA RegistryMoves ==
    ASSUME Typed, Control, RegistryStep
    PROVE  Moves
<1>1. UNCHANGED <<hosts, env, queue, ready, heard>>
  BY DEF RegistryStep
<1>2. /\ HostMove /\ QueueMove /\ QueueTyped' /\ HostsTyped' /\ EnvTyped'
  <2>1. HostMove /\ QueueMove
    BY <1>1, HostRests, QueueRests DEF env
  <2> QED BY <1>1, <2>1 DEF Typed, hosts, env, QueueTyped, HostsTyped, EnvTyped
<1>3. call.at = "step"
  BY DEF RegistryStep, Doing
<1>4. /\ J \in Jobs /\ call.next \in 1 .. Len(Script(Step)) /\ Step \in MoveSet \cup FailoverSet
      /\ Label = Script(Step)[call.next]
  BY <1>3, CallStands DEF Label
<1>5. PICK l \in {"assign", "fence", "publish"} :
        /\ Label = l
        /\ \E accepts \in BOOLEAN :
             /\ Post(J, l, accepts)
             /\ l = "assign" /\ accepts => Assignable(J)
             /\ l = "publish" /\ accepts => placement.generation = GenOf[TargetOf[J]]
  BY DEF RegistryStep, Doing, Assignable, DependenciesServe
<1>6. PICK accepts \in BOOLEAN :
        /\ Post(J, l, accepts)
        /\ l = "assign" /\ accepts => Assignable(J)
        /\ l = "publish" /\ accepts => placement.generation = GenOf[TargetOf[J]]
  BY <1>5
<1>7. Label \notin HostLabels /\ Label \notin {"await-retired", "verify"}
  BY <1>5, Constants
<1>8. CASE <<J, l>> \in requests /\ Proceed /\ UNCHANGED <<registry, shown>>
  <2>1. FinishedNow(J, Label)
    BY <1>5, <1>7, <1>8 DEF FinishedNow, Finished
  <2>2. RegistryMove /\ RegistryTyped' /\ EvidenceTyped'
    BY <1>1, <1>8 DEF RegistryMove, Typed, registry, RegistryTyped, EvidenceTyped
  <2> QED BY <1>2, <1>3, <1>8, <2>1, <2>2, ProceedMoves DEF Moves, Typed
<1>9. CASE Blocked /\ UNCHANGED <<registry, shown>>
  <2>1. RegistryMove /\ RegistryTyped' /\ EvidenceTyped'
    BY <1>1, <1>9 DEF RegistryMove, Typed, registry, RegistryTyped, EvidenceTyped
  <2> QED BY <1>2, <1>3, <1>9, <2>1, EndMoves DEF Moves, Typed
<1>10. CASE /\ <<J, l>> \notin requests /\ accepts
            /\ requests' = requests \cup {<<J, l>>} /\ Proceed /\ Commit(J, l)
  <2> DEFINE j == J
  <2>1. j \in Jobs /\ TargetOf[j] \in Instances /\ GenOf[TargetOf[j]] \in Nat
        /\ placement \in [generation : Nat, instance : Instances, published : BOOLEAN]
        /\ requests \subseteq Jobs \X {"assign", "publish", "fence"} /\ fences \subseteq Nat
    BY <1>4, Constants DEF Typed, RegistryTyped
  <2>2. requests' \subseteq Jobs \X {"assign", "publish", "fence"}
    BY <1>10, <2>1
  <2>3. FinishedNow(J, Label)
    BY <1>5, <1>7, <1>10 DEF FinishedNow, Finished
  <2>4. /\ l = "fence" => Step = "fence"
        /\ l = "assign" => Step = "assign"
    BY <1>3, <1>5, LabelIs
  <2>5. Commits(j) /\ placement' \in [generation : Nat, instance : Instances, published : BOOLEAN]
        /\ fences' \subseteq Nat /\ shown' \in {shown, "stale"}
    <3>1. CASE l = "assign"
      <4>1. Assignable(J) /\ Commit(J, "assign")
        BY <1>6, <1>10, <3>1
      <4>2. /\ placement.generation = GenOf[SourceOf[j]]
            /\ shown = "retired" \/ placement.generation \in fences
        BY <4>1 DEF Assignable
      <4>3. /\ placement' = [generation |-> GenOf[TargetOf[j]], instance |-> TargetOf[j],
                             published |-> FALSE]
            /\ shown' = "stale" /\ fences' = fences
        BY <4>1 DEF Commit
      <4> HIDE DEF j
      <4> QED BY <1>3, <1>10, <2>1, <2>4, <3>1, <4>2, <4>3 DEF Commits, j
    <3>2. CASE l = "fence"
      <4>1. fences' = fences \cup {placement.generation} /\ UNCHANGED <<placement, shown>>
        BY <1>10, <3>2 DEF Commit
      <4> QED BY <1>10, <2>1, <2>4, <3>2, <4>1 DEF Commits
    <3>3. CASE l = "publish"
      <4>1. placement' = [placement EXCEPT !.published = TRUE] /\ UNCHANGED <<fences, shown>>
        BY <1>10, <3>3 DEF Commit
      <4>2. /\ placement'.generation = placement.generation
            /\ placement'.instance = placement.instance /\ placement'.published
        BY <2>1, <4>1
      <4>3. placement' \in [generation : Nat, instance : Instances, published : BOOLEAN]
        BY <2>1, <4>1
      <4> QED BY <1>6, <1>10, <2>1, <3>3, <4>1, <4>2, <4>3 DEF Commits
    <3> QED BY <3>1, <3>2, <3>3
  <2>6. RegistryMove
    BY <1>1, <2>1, <2>5 DEF RegistryMove
  <2>7. RegistryTyped' /\ EvidenceTyped'
    BY <1>1, <2>2, <2>5 DEF RegistryTyped, Typed, EvidenceTyped, Words
  <2> QED BY <1>2, <1>3, <1>10, <2>3, <2>6, <2>7, ProceedMoves DEF Moves, Typed
<1> QED BY <1>6, <1>8, <1>9, <1>10 DEF Post

\* Labels carried out on the controller's own host.
LEMMA LocalMoves ==
    ASSUME Typed, Control, Progress, Journal, Receipts, LocalStep
    PROVE  Moves
<1>1. /\ call.at = "step" /\ Label \in HostLabels
      /\ UNCHANGED <<registry, shown, ready, heard, queue, env>>
  BY DEF LocalStep, Doing, evidence
<1>2. J \in Jobs /\ Earned(J, Label)
  BY <1>1, LabelEarned
<1>3. /\ QueueMove /\ RegistryMove /\ byHand' = byHand
      /\ RegistryTyped' /\ EvidenceTyped' /\ QueueTyped' /\ EnvTyped'
  BY <1>1, QueueRests DEF RegistryMove, Typed, registry, env, RegistryTyped,
        EvidenceTyped, QueueTyped, EnvTyped
<1>4. ASSUME UNCHANGED hosts PROVE HostMove /\ HostsTyped'
  <2>1. HostMove
    BY <1>3, <1>4, HostRests
  <2> QED BY <1>4, <2>1 DEF Typed, hosts, HostsTyped
<1>5. CASE (SkipsLocal \/ receipt[J][Label] = "completed") /\ Proceed /\ UNCHANGED hosts
  <2>1. Label \notin {"await-retired", "verify", "assign", "publish"}
    BY <1>1, Constants
  <2>2. FinishedNow(J, Label)
    BY <1>5, <2>1 DEF FinishedNow, Finished, SkipsLocal
  <2> QED BY <1>1, <1>3, <1>4, <1>5, <2>2, ProceedMoves DEF Moves, Typed
<1>6. CASE Blocked /\ UNCHANGED hosts
  BY <1>3, <1>4, <1>6, EndMoves DEF Moves, Typed
<1>7. CASE HostWorks(J, Label) /\ UNCHANGED <<job, call>>
  BY <1>1, <1>2, <1>3, <1>7, WorksMoves, CallRests DEF Moves, Typed
<1> QED BY <1>5, <1>6, <1>7 DEF LocalStep

\* Labels dispatched to another host.
LEMMA DispatchMoves ==
    ASSUME Typed, Control, Progress, Journal, Asked, Receipts, Dispatch \/ View
    PROVE  Moves
<1>1. /\ call.at \in {"step", "view"} /\ Label \in HostLabels
      /\ UNCHANGED <<registry, shown, ready, heard, hosts, env>>
  BY DEF Dispatch, View, Doing, evidence, Control
<1>2. J \in Jobs /\ Earned(J, Label)
  BY <1>1, LabelEarned
<1>3. /\ HostMove /\ RegistryMove
      /\ RegistryTyped' /\ EvidenceTyped' /\ HostsTyped' /\ EnvTyped'
  BY <1>1, HostRests DEF RegistryMove, Typed, registry, hosts, env, RegistryTyped,
        EvidenceTyped, HostsTyped, EnvTyped
<1>4. queue' = queue => QueueMove /\ QueueTyped'
  BY QueueRests DEF Typed, QueueTyped
<1>5. CASE Dispatch
  <2>1. call.at = "step"
    BY <1>5 DEF Dispatch, Doing
  <2>2. CASE Blocked /\ UNCHANGED queue
    BY <1>3, <1>4, <2>2, EndMoves DEF Moves, Typed
  <2>3. CASE call' = [call EXCEPT !.at = "view"] /\ job' = job
             /\ (queue' = queue \/ (/\ queue[J][Label] = "none"
                                    /\ queue' = [queue EXCEPT ![J][Label] = "open"]))
    <3>1. CallTyped' /\ Opens
      BY <1>1, <2>1, <2>3 DEF Typed, CallTyped, CallRow, Places, Opens, SameCall
    <3>2. QueueMove /\ QueueTyped'
      <4> DEFINE k == J
                 l == Label
      <4>1. CASE queue[k][l] = "none" /\ queue' = [queue EXCEPT ![k][l] = "open"]
        <5>1. k \in Jobs /\ l \in HostLabels /\ Earned(k, l)
          BY <1>1, <1>2
        <5> HIDE DEF k, l
        <5> QED BY <4>1, <5>1 DEF QueueMove, Typed, QueueTyped
      <4> QED BY <1>4, <2>3, <4>1
    <3> QED BY <1>3, <3>1, <3>2 DEF CallMove, Moves, Typed
  <2> QED BY <1>5, <2>2, <2>3 DEF Dispatch
<1>6. CASE View
  <2>1. call.at = "view" /\ queue' = queue
    BY <1>6 DEF View
  <2>2. CASE Blocked \/ Defer
    BY <1>3, <1>4, <2>1, <2>2, EndMoves DEF Moves, Typed
  <2>3. CASE queue[J][Label] = "completed" /\ Proceed
    <3>1. Label \notin {"await-retired", "verify", "assign", "publish"}
      BY <1>1, Constants
    <3>2. FinishedNow(J, Label)
      BY <1>1, <1>2, <2>3, <3>1 DEF FinishedNow, Finished, Asked
    <3> QED BY <1>1, <1>3, <1>4, <2>1, <2>3, <3>2, ProceedMoves DEF Moves, Typed
  <2> QED BY <1>6, <2>2, <2>3 DEF View
<1> QED BY <1>5, <1>6

\* The reporters and the rest of the world.
LEMMA WorldMoves ==
    ASSUME Typed, Control, Asked, Receipts,
           \/ \E j \in Jobs, l \in HostLabels : Reporter(j, l) \/ PostReceipt(j, l)
           \/ \E i \in Instances : Down(i) \/ Write(i) \/ StartByHand(i)
    PROVE  Moves
<1>1. ASSUME NEW j \in Jobs, NEW l \in HostLabels, Reporter(j, l)
      PROVE  Moves
  <2>1. /\ queue[j][l] = "open" /\ Earned(j, l)
        /\ UNCHANGED <<job, call, registry, shown, ready, heard, queue, env>>
    BY <1>1 DEF Reporter, Asked, evidence
  <2>2. byHand' = byHand
    BY <2>1 DEF env
  <2>3. HostMove /\ HostsTyped'
    BY <1>1, <2>1, <2>2, WorksMoves, HostFails DEF Reporter
  <2>4. /\ QueueMove /\ RegistryMove
        /\ RegistryTyped' /\ EvidenceTyped' /\ QueueTyped' /\ EnvTyped'
    BY <2>1, QueueRests DEF RegistryMove, Typed, registry, env, RegistryTyped,
          EvidenceTyped, QueueTyped, EnvTyped
  <2> QED BY <2>1, <2>3, <2>4, CallRests DEF Moves, Typed
<1>2. ASSUME NEW j \in Jobs, NEW l \in HostLabels, PostReceipt(j, l)
      PROVE  Moves
  <2>1. /\ queue[j][l] = "open" /\ receipt[j][l] \in {"completed", "failed"}
        /\ queue' = [queue EXCEPT ![j][l] = receipt[j][l]]
        /\ UNCHANGED <<job, call, registry, shown, ready, heard, hosts, env>>
    BY <1>2 DEF PostReceipt, Settled, evidence
  <2>2. QueueMove /\ QueueTyped'
    BY <2>1 DEF QueueMove, Typed, QueueTyped
  <2>3. /\ HostMove /\ RegistryMove
        /\ RegistryTyped' /\ EvidenceTyped' /\ HostsTyped' /\ EnvTyped'
    BY <2>1, HostRests DEF RegistryMove, Typed, registry, hosts, env, RegistryTyped,
          EvidenceTyped, HostsTyped, EnvTyped
  <2> QED BY <2>1, <2>2, <2>3, CallRests DEF Moves, Typed
<1>3. ASSUME NEW i \in Instances, Down(i) \/ Write(i) \/ StartByHand(i)
      PROVE  Moves
  <2>1. HostMove /\ HostsTyped' /\ byHand' \in BOOLEAN
    BY <1>3, AloneMoves
  <2>2. UNCHANGED <<job, call, registry, shown, ready, heard, queue>>
    BY <1>3 DEF Down, Write, StartByHand, evidence
  <2>3. faults' \in Nat
    BY <1>3 DEF Down, Write, StartByHand, env, Fault, Typed, EnvTyped
  <2>4. /\ QueueMove /\ RegistryMove
        /\ RegistryTyped' /\ EvidenceTyped' /\ QueueTyped' /\ EnvTyped'
    BY <2>1, <2>2, <2>3, QueueRests DEF RegistryMove, Typed, registry, RegistryTyped,
          EvidenceTyped, QueueTyped, EnvTyped
  <2> QED BY <2>1, <2>2, <2>4, CallRests DEF Moves, Typed
<1> QED BY <1>1, <1>2, <1>3

LEMMA EvidenceMoves ==
    ASSUME Typed, Control,
           \/ Report \/ GoStale \/ LoseDependency \/ RegainDependency \/ Interrupt
           \/ UNCHANGED vars
    PROVE  Moves
<1>1. UNCHANGED <<registry, hosts, byHand, queue>> /\ faults' \in Nat
  BY DEF Report, GoStale, LoseDependency, RegainDependency, Interrupt, vars, env, Fault,
      Typed, EnvTyped
<1>2. /\ HostMove /\ QueueMove
      /\ RegistryTyped' /\ QueueTyped' /\ HostsTyped' /\ EnvTyped'
  <2>1. HostMove /\ QueueMove
    BY <1>1, HostRests, QueueRests
  <2> QED BY <1>1, <2>1 DEF Typed, registry, hosts, RegistryTyped, QueueTyped, HostsTyped,
          EnvTyped
<1>4. RegistryMove /\ EvidenceTyped'
  <2>1. CASE Report
    <3>1. WordOf(placement.instance) \in Words
      BY <2>1 DEF Typed, RegistryTyped, HostsTyped, ProcRow, ProcPhases, WordOf, Words, Report
    <3> QED BY <1>1, <2>1, <3>1 DEF Report, RegistryMove, Typed, EvidenceTyped
  <2>2. CASE ~Report
    BY <1>1, <2>2 DEF GoStale, LoseDependency, RegainDependency, Interrupt, vars, evidence,
       RegistryMove, Typed, EvidenceTyped, Words
  <2> QED BY <2>1, <2>2
<1>5. CallMove /\ CallTyped'
  <2>1. CASE Interrupt
    <3>1. Blocked
      BY <2>1 DEF Interrupt, Blocked
    <3> QED BY <3>1, EndMoves
  <2>2. CASE ~Interrupt
    <3>1. UNCHANGED <<job, call>>
      BY <2>2 DEF Report, GoStale, LoseDependency, RegainDependency, vars
    <3> QED BY <3>1, CallRests
  <2> QED BY <2>1, <2>2
<1> QED BY <1>2, <1>4, <1>5 DEF Moves, Typed

LEMMA StepMoves ==
    ASSUME Typed, Control, Progress, Journal, Asked, Owned, Receipts, [Next]_vars
    PROVE  Moves
<1>1. CASE \E j \in Jobs : Plan(j) \/ Execute(j) \/ Abort(j)
  BY <1>1, PlanMoves
<1>2. CASE Run
  BY <1>2, LoopMoves, LookMoves, RegistryMoves, LocalMoves, DispatchMoves DEF Run
<1>3. CASE Hosted \/ \E i \in Instances : Down(i) \/ Write(i) \/ StartByHand(i)
  BY <1>3, WorldMoves DEF Hosted
<1>4. CASE \/ Report \/ GoStale \/ LoseDependency \/ RegainDependency \/ Interrupt
           \/ UNCHANGED vars
  BY <1>4, EvidenceMoves
<1> QED BY <1>1, <1>2, <1>3, <1>4 DEF Next

-----------------------------------------------------------------------------
(* The call and the journal, after a step.                                 *)

LEMMA StepSets ==
    ASSUME NEW j \in Jobs
    PROVE  /\ StepSet(j) \subseteq MoveSet \cup FailoverSet
           /\ \A p \in {"none", "planned", "completed", "aborted"} : p \notin StepSet(j)
  BY DEF StepSet, MoveSet, FailoverSet

LEMMA ControlStep ==
    ASSUME Typed, Control, Moves
    PROVE  Control'
<1> DEFINE C(j) == /\ job'[j].phase \in {"none", "planned", "completed", "aborted"}
                                          \cup StepSet(j)
                   /\ job'[j].phase \in {"none", "planned"} => job'[j].mark # "completed"
<1>1. \A j \in Jobs : job'[j] = job[j] => C(j)
  BY DEF Control
<1>2. CallMove
  BY DEF Moves
<1>3. CASE call' = call /\ job' = job
  BY <1>3 DEF Control, J, Step, Label
<1>4. CASE Proceeds
  <2>1. job' = job /\ J' = J /\ Step' = Step /\ call.at # "idle"
    BY <1>4 DEF Proceeds, J, Step
  <2>2. call'.next \in 1 .. Len(Script(Step)) /\ call'.at \in {"save", "step"}
    BY <1>4, <2>1, CallStands DEF Proceeds
  <2> QED BY <2>1, <2>2 DEF Control
<1>5. CASE Ends
  <2>1. call'.at = "idle"
    BY <1>5, IdleIs DEF Ends
  <2>2. \A j \in Jobs : C(j)
    BY <1>5 DEF Control, Ends
  <2> QED BY <2>1, <2>2 DEF Control
<1>6. CASE Opens
  <2>1. job' = job /\ J' = J /\ Step' = Step /\ call.at # "idle" /\ Label' = Label
        /\ call'.next = call.next
    BY <1>6 DEF Opens, SameCall, J, Step, Label
  <2>2. /\ call'.at \in {"step", "advance", "view"}
        /\ call'.at = "advance" => job[J].mark = "completed"
        /\ call'.at = "view" => Label \in HostLabels
    BY <1>6 DEF Opens
  <2> QED BY <2>1, <2>2 DEF Control
<1>7. CASE Saves
  <2>1. J \in Jobs /\ Step \in StepSet(J) /\ call.at # "idle"
    BY <1>7 DEF Saves, Control
  <2>2. J' = J /\ Step' = Step /\ call'.at = "advance" /\ call'.next = call.next
        /\ job'[J].mark = "completed"
    BY <1>7, <2>1 DEF Saves, SameCall, J, Step
  <2>3. \A j \in Jobs : C(j)
    BY <1>7, <2>1, StepSets DEF Control, Saves, Step
  <2>4. call.next \in 1 .. Len(Script(Step))
    BY <2>1 DEF Control
  <2> HIDE DEF C
  <2>5. call'.at \notin {"idle", "gate", "view"} /\ call'.next \in 1 .. Len(Script(Step'))
    BY <2>2, <2>4
  <2> QED BY <2>1, <2>2, <2>3, <2>5 DEF Control, C
<1>8. CASE Advances
  <2>1. J \in Jobs /\ Step \in StepSet(J) /\ call.at # "idle"
    BY <1>8 DEF Advances, Control
  <2>2. job'[J].mark = "none" /\ \A j \in Jobs \ {J} : C(j)
    BY <1>1, <1>8 DEF Advances
  <2>3. CASE call' = Idle /\ job'[J].phase = "completed"
    BY <2>2, <2>3, IdleIs DEF Control
  <2>4. CASE /\ call'.at = "gate" /\ call'.next = 1 /\ call'.job = call.job
             /\ \E n \in 1 .. Len(StepsOf(J)) - 1 :
                  StepsOf(J)[n] = Step /\ job'[J].phase = StepsOf(J)[n + 1]
    <3>1. job'[J].phase \in StepSet(J)
      <4>1. Len(StepsOf(J)) \in Nat /\ \A m \in 1 .. Len(StepsOf(J)) : StepsOf(J)[m] \in StepSet(J)
        BY <2>1, OrderFacts
      <4> QED BY <2>4, <4>1
    <3>2. Len(Script(job'[J].phase)) \in 1 .. 5
      BY <2>1, <3>1, StepSets, ScriptFacts
    <3>3. J' = J /\ Step' = job'[J].phase
      BY <2>4 DEF J, Step
    <3>4. \A j \in Jobs : C(j)
      BY <2>1, <2>2, <3>1, StepSets
    <3>5. call'.at = "gate" /\ call'.next = 1 /\ 1 \in 1 .. Len(Script(job'[J].phase))
      <4>1. \A m \in 1 .. 5 : 1 \in 1 .. m
        OBVIOUS
      <4> QED BY <2>4, <3>2, <4>1
    <3> QED BY <2>1, <3>1, <3>3, <3>4, <3>5 DEF Control
  <2> QED BY <1>8, <2>3, <2>4 DEF Advances
<1>9. CASE \E j \in Jobs : Starts(j)
  <2>1. PICK j \in Jobs : Starts(j)
    BY <1>9
  <2>2. \A k \in Jobs \ {j} : C(k)
    BY <1>1, <2>1 DEF Starts
  <2>3. CASE call' = call /\ C(j)
    BY <2>1, <2>2, <2>3 DEF Control, Starts
  <2>4. CASE /\ job[j].phase \notin {"none", "aborted", "completed"}
             /\ job'[j].phase = IF job[j].phase = "planned" THEN StepsOf(j)[1] ELSE job[j].phase
             /\ job'[j].mark = job[j].mark
             /\ call'.at = "gate" /\ call'.job = j /\ call'.next = 1
    <3>1. StepsOf(j)[1] \in StepSet(j)
      BY OrderFacts
    <3>2. job'[j].phase \in StepSet(j)
      BY <2>4, <3>1 DEF Control
    <3>3. Len(Script(job'[j].phase)) \in 1 .. 5
      BY <3>2, StepSets, ScriptFacts
    <3>4. J' = j /\ Step' = job'[j].phase
      BY <2>4 DEF J, Step
    <3>5. \A k \in Jobs : C(k)
      BY <2>2, <2>4, <3>2, StepSets
    <3>6. call'.at = "gate" /\ call'.next = 1 /\ 1 \in 1 .. Len(Script(job'[j].phase))
      <4>1. \A m \in 1 .. 5 : 1 \in 1 .. m
        OBVIOUS
      <4> QED BY <2>4, <3>3, <4>1
    <3> QED BY <3>2, <3>4, <3>5, <3>6 DEF Control
  <2>5. CASE job'[j].phase = "aborted" /\ job'[j].mark = "none" /\ call' = call
    BY <2>2, <2>3, <2>5
  <2>6. CASE job[j].phase = "none" /\ job'[j].phase = "planned"
             /\ job'[j].mark = job[j].mark /\ call' = call
    <3>1. C(j)
      BY <2>6 DEF Control
    <3> QED BY <2>3, <2>6, <3>1
  <2> QED BY <2>1, <2>4, <2>5, <2>6 DEF Starts
<1> QED BY <1>2, <1>3, <1>4, <1>5, <1>6, <1>7, <1>8, <1>9 DEF CallMove

-----------------------------------------------------------------------------
(* What is finished stays finished.                                        *)

\* A retired instance that is down never runs again.
LEMMA GoneStays ==
    ASSUME Typed, HostMove, NEW i \in Instances, Gone(i)
    PROVE  Gone(i)'
<1>1. ProcMove(i) /\ proc[i] \in ProcRow
  BY DEF HostMove, Typed, HostsTyped
<1>2. proc'[i].retired /\ proc'[i].phase = "stopped"
  BY <1>1 DEF ProcMove, Gone, Begun, ProcRow
<1> QED BY <1>2 DEF Gone

LEMMA ReceiptStays ==
    ASSUME HostMove, NEW j \in Jobs, NEW l \in HostLabels, receipt[j][l] = "completed"
    PROVE  receipt'[j][l] = "completed"
  BY DEF HostMove, ReceiptMove

LEMMA RegistryGrows ==
    ASSUME RegistryMove
    PROVE  fences \subseteq fences' /\ requests \subseteq requests'
  BY DEF RegistryMove, Commits, registry

LEMMA FinishedStays ==
    ASSUME Typed, Moves, NEW j \in Jobs, NEW l, Finished(j, l)
    PROVE  Finished(j, l)'
<1>1. HostMove /\ RegistryMove
  BY DEF Moves
<1>2. l \in HostLabels \ {"retire"} => receipt'[j][l] = "completed"
  BY <1>1, ReceiptStays DEF Finished
<1>3. l = "await-retired" => Gone(SourceOf[j])'
  BY <1>1, GoneStays, Constants DEF Finished
<1>4. /\ l = "verify" => GenOf[SourceOf[j]] \in fences'
      /\ l \in {"assign", "publish"} => <<j, l>> \in requests'
  BY <1>1, RegistryGrows DEF Finished
<1> QED BY <1>2, <1>3, <1>4 DEF Finished

LEMMA FinishedNowStays ==
    ASSUME Typed, Moves, NEW j \in Jobs, NEW l, FinishedNow(j, l)
    PROVE  Finished(j, l)'
<1>1. CASE Finished(j, l)
  BY <1>1, FinishedStays
<1>2. CASE l \in {"assign", "publish"} /\ <<j, l>> \in requests'
  BY <1>2, Constants DEF Finished
<1> QED BY <1>1, <1>2 DEF FinishedNow

LEMMA EarnedStays ==
    ASSUME Typed, Typed', Moves, NEW j \in Jobs, NEW l, Earned(j, l)
    PROVE  Earned(j, l)'
<1>1. HostMove /\ RegistryMove
  BY DEF Moves
<1>2. requests \subseteq requests'
  BY <1>1, RegistryGrows
<1>3. barrier[j] # "none" => barrier'[j] # "none"
  BY <1>1 DEF HostMove, CaptureMove
<1>4. receipt[j]["commit"] = "completed" => receipt'[j]["commit"] = "completed"
  BY <1>1, ReceiptStays, Constants
<1> QED BY <1>2, <1>3, <1>4 DEF Earned

-----------------------------------------------------------------------------
(* The labels behind a call and the steps behind a job.                    *)

LEMMA FinishedHere ==
    ASSUME Typed, Moves, NEW j \in Jobs, NEW l, FinishedNow(j, l), NEW n,
           J' = j, Script(Step')[n] = l
    PROVE  Finished(J, Script(Step)[n])'
<1>1. Finished(j, l)'
  BY FinishedNowStays
<1> QED BY <1>1 DEF Finished

LEMMA LastHere ==
    ASSUME Typed, Moves, NEW j \in Jobs, NEW l, FinishedNow(j, l),
           J' = j, LastLabel(Step') = l
    PROVE  Finished(J, LastLabel(Step))'
<1>1. Finished(j, l)'
  BY FinishedNowStays
<1> QED BY <1>1 DEF Finished

LEMMA ProgressStep ==
    ASSUME Typed, Control, Progress, Moves
    PROVE  Progress'
<1> SUFFICES ASSUME call'.at \in {"step", "view"}, NEW n \in 1 .. call'.next - 1
             PROVE  Finished(J, Script(Step)[n])'
  BY DEF Progress
<1> DEFINE j == J
           l == Script(Step)[n]
<1>1. \/ /\ call.at \in {"step", "view"} /\ call'.next = call.next
         /\ J' = J /\ Step' = Step
      \/ /\ call.at \in {"step", "view"} /\ FinishedNow(J, Label)
         /\ call'.next = call.next + 1 /\ J' = J /\ Step' = Step
      \/ call.at = "gate" /\ call'.next = call.next
  <2>1. CASE call' = call /\ job' = job
    BY <2>1 DEF J, Step
  <2>2. CASE Proceeds
    BY <2>2 DEF Proceeds, J, Step
  <2>3. CASE Ends
    BY <2>3, IdleIs DEF Ends
  <2>4. CASE Opens
    BY <2>4 DEF Opens, SameCall, J, Step
  <2>5. CASE Saves \/ Advances \/ \E k \in Jobs : Starts(k)
    BY <2>5, IdleIs DEF Saves, Advances, Starts
  <2> QED BY <2>1, <2>2, <2>3, <2>4, <2>5 DEF Moves, CallMove
<1>2. call.at = "gate" => call.next = 1
  BY DEF Control
<1>3. call.at \in {"step", "view"} =>
        /\ j \in Jobs /\ call.next \in Nat
        /\ \A m \in 1 .. call.next - 1 : Finished(J, Script(Step)[m])
  BY DEF Control, Progress
<1>4. CASE /\ call.at \in {"step", "view"} /\ call'.next = call.next
           /\ J' = J /\ Step' = Step
  <2>1. FinishedNow(j, l) /\ j \in Jobs
    BY <1>3, <1>4 DEF FinishedNow
  <2>2. J' = j /\ Script(Step')[n] = l
    BY <1>4
  <2> HIDE DEF j, l
  <2> QED BY <2>1, <2>2, FinishedHere
<1>5. CASE /\ call.at \in {"step", "view"} /\ FinishedNow(J, Label)
           /\ call'.next = call.next + 1 /\ J' = J /\ Step' = Step
  <2>1. n \in 1 .. call.next - 1 \/ n = call.next
    BY <1>3, <1>5
  <2>2. FinishedNow(j, l) /\ j \in Jobs
    BY <1>3, <1>5, <2>1 DEF FinishedNow, Label
  <2>3. J' = j /\ Script(Step')[n] = l
    BY <1>5
  <2> HIDE DEF j, l
  <2> QED BY <2>2, <2>3, FinishedHere
<1> QED BY <1>1, <1>2, <1>4, <1>5

\* A job that keeps its phase has no more behind it, unless the step it is in
\* was just saved.
LEMMA BehindStep ==
    ASSUME Typed, Control, CallMove, NEW j \in Jobs, NEW s \in StepSet(j), Behind(j, s)'
    PROVE  Behind(j, s) \/ (call.at = "save" /\ j = J /\ s = Step)
<1> DEFINE steps == StepsOf(j)
           p == job[j].phase
           q == job'[j].phase
<1>1. /\ s \in ToSet(steps)
      /\ \/ q = "completed"
         \/ q = s /\ job'[j].mark = "completed"
         \/ \E m, n \in 1 .. Len(steps) : m < n /\ steps[m] = s /\ steps[n] = q
  BY DEF Behind
<1>2. ASSUME \/ p = "completed"
             \/ p = s /\ job[j].mark = "completed"
             \/ \E m, n \in 1 .. Len(steps) : m < n /\ steps[m] = s /\ steps[n] = p
      PROVE  Behind(j, s)
  BY <1>1, <1>2 DEF Behind
<1>3. /\ Len(steps) \in Nat \ {0} /\ DOMAIN steps = 1 .. Len(steps)
      /\ \A n \in 1 .. Len(steps) : steps[n] \in StepSet(j)
      /\ \A m, n \in 1 .. Len(steps) : steps[m] = steps[n] => m = n
      /\ Last(steps) = steps[Len(steps)]
  BY OrderFacts
<1>4. \A x \in {"none", "planned", "completed", "aborted"} : x \notin StepSet(j)
  BY StepSets
<1>5. PICK m \in 1 .. Len(steps) : steps[m] = s
  BY <1>1, <1>3 DEF ToSet
<1> HIDE DEF steps
<1>6. ASSUME q = p, job'[j].mark = "completed" => job[j].mark = "completed"
      PROVE  Behind(j, s)
  BY <1>1, <1>2, <1>6
<1>7. CASE job'[j] = job[j]
  BY <1>6, <1>7
<1>8. CASE Proceeds \/ Opens \/ (call' = call /\ job' = job)
  BY <1>7, <1>8 DEF Proceeds, Opens
<1>9. CASE Ends
  BY <1>6, <1>9 DEF Ends
<1>10. CASE Saves
  <2>1. CASE j = J
    <3>1. call.at = "save" /\ Step = p /\ q = p
      BY <1>10, <2>1 DEF Saves, Step
    <3> QED BY <1>1, <1>2, <2>1, <3>1
  <2>2. CASE j # J
    BY <1>6, <1>10, <2>2 DEF Saves
  <2> QED BY <2>1, <2>2
<1>11. CASE Advances
  <2>1. CASE j # J
    BY <1>7, <1>11, <2>1 DEF Advances
  <2>2. CASE j = J
    <3>1. Step = p /\ job[j].mark = "completed" /\ job'[j].mark = "none"
      BY <1>11, <2>2 DEF Advances, Control, Step
    <3>2. CASE p = Last(steps)
      BY <1>2, <1>3, <1>5, <3>1, <3>2
    <3>3. CASE \E n \in 1 .. Len(steps) - 1 : steps[n] = p /\ q = steps[n + 1]
      <4>1. PICK n \in 1 .. Len(steps) - 1 : steps[n] = p /\ q = steps[n + 1]
        BY <3>3
      <4>2. n + 1 \in 1 .. Len(steps) /\ n \in 1 .. Len(steps)
        BY <1>3
      <4>3. q # "completed"
        BY <1>3, <1>4, <4>1, <4>2
      <4>4. PICK k, o \in 1 .. Len(steps) : k < o /\ steps[k] = s /\ steps[o] = q
        BY <1>1, <3>1, <4>3
      <4>5. o = n + 1
        BY <1>3, <4>1, <4>2, <4>4
      <4>6. k < n \/ k = n
        BY <4>4, <4>5
      <4> QED BY <1>2, <3>1, <4>1, <4>2, <4>4, <4>6
    <3> QED BY <1>11, <2>2, <3>1, <3>2, <3>3 DEF Advances, steps
  <2> QED BY <2>1, <2>2
<1>12. CASE \E k \in Jobs : Starts(k)
  <2>1. PICK k \in Jobs : Starts(k)
    BY <1>12
  <2>2. CASE k # j
    BY <1>7, <2>1, <2>2 DEF Starts
  <2>3. CASE k = j
    <3>1. \/ q \in {"planned", "aborted"}
          \/ p = "planned" /\ q = steps[1] /\ job'[j].mark = job[j].mark
          \/ q = p /\ job'[j].mark = job[j].mark
      BY <2>1, <2>3 DEF Starts, steps
    <3>2. CASE q \in {"planned", "aborted"}
      BY <1>1, <1>3, <1>4, <3>2
    <3>3. CASE p = "planned" /\ q = steps[1] /\ job'[j].mark = job[j].mark
      <4>1. job'[j].mark # "completed" /\ 1 \in 1 .. Len(steps)
        BY <1>3, <3>3 DEF Control
      <4>2. q # "completed"
        BY <1>3, <1>4, <3>3, <4>1
      <4>3. PICK x, y \in 1 .. Len(steps) : x < y /\ steps[y] = q
        BY <1>1, <4>1, <4>2
      <4>4. y = 1
        BY <1>3, <3>3, <4>1, <4>3
      <4> QED BY <4>3, <4>4
    <3> QED BY <1>6, <3>1, <3>2, <3>3
  <2> QED BY <2>2, <2>3
<1> QED BY <1>8, <1>9, <1>10, <1>11, <1>12 DEF CallMove

LEMMA JournalStep ==
    ASSUME Typed, Control, Journal, Moves
    PROVE  Journal'
<1>1. ASSUME NEW j \in Jobs, NEW s \in StepSet(j), Behind(j, s)'
      PROVE  Finished(j, LastLabel(s))'
  <2>1. Behind(j, s) \/ (call.at = "save" /\ j = J /\ s = Step)
    BY <1>1, BehindStep DEF Moves
  <2>2. Finished(j, LastLabel(s))
    BY <2>1 DEF Journal
  <2> DEFINE l == LastLabel(s)
  <2>3. Finished(j, l)
    BY <2>2
  <2> HIDE DEF l
  <2>4. Finished(j, l)'
    BY <2>3, FinishedStays
  <2> QED BY <2>4 DEF l
<1>2. ASSUME call'.at = "save"
      PROVE  Finished(J, LastLabel(Step))'
  <2> DEFINE j == J
             l == LastLabel(Step)
  <2>1. /\ J' = J /\ Step' = Step
        /\ call.at = "save" \/ FinishedNow(j, l)
        /\ call.at # "idle"
    <3>1. CASE call' = call /\ job' = job
      BY <1>2, <3>1 DEF J, Step
    <3>2. CASE Proceeds
      <4>1. J' = J /\ Step' = Step /\ call.at # "idle" /\ call'.at \in {"save", "step"}
        BY <3>2 DEF Proceeds, J, Step
      <4>2. FinishedNow(J, Label) /\ Label = LastLabel(Step)
        BY <1>2, <3>2 DEF Proceeds, Label, LastLabel
      <4> QED BY <4>1, <4>2
    <3>3. CASE Ends \/ Opens \/ Saves \/ Advances \/ \E k \in Jobs : Starts(k)
      BY <1>2, <3>3, IdleIs DEF Ends, Opens, SameCall, Saves, Advances, Starts
    <3> QED BY <3>1, <3>2, <3>3 DEF Moves, CallMove
  <2>2. j \in Jobs /\ FinishedNow(j, l)
    BY <2>1 DEF Control, Journal, FinishedNow
  <2>3. J' = j /\ LastLabel(Step') = l
    BY <2>1
  <2> HIDE DEF j, l
  <2> QED BY <2>2, <2>3, LastHere
<1> QED BY <1>1, <1>2 DEF Journal, StepSet

LEMMA AskedStep ==
    ASSUME Typed, Typed', Asked, Moves
    PROVE  Asked'
<1> SUFFICES ASSUME NEW j \in Jobs, NEW l \in HostLabels
             PROVE  /\ queue'[j][l] # "none" \/ receipt'[j][l] # "none" => Earned(j, l)'
                    /\ queue'[j][l] = "completed" => receipt'[j][l] = "completed"
  BY DEF Asked
<1>1. ReceiptMove(j, l) /\ HostMove
  BY DEF Moves, HostMove
<1>2. \/ queue'[j][l] = queue[j][l]
      \/ queue[j][l] = "none" /\ queue'[j][l] = "open" /\ Earned(j, l)
      \/ queue[j][l] = "open" /\ queue'[j][l] = receipt[j][l]
  BY DEF Moves, QueueMove
<1>3. Earned(j, l) => Earned(j, l)'
  BY EarnedStays
<1>4. queue'[j][l] # "none" \/ receipt'[j][l] # "none" => Earned(j, l)
  BY <1>1, <1>2 DEF ReceiptMove, Asked
<1>5. queue'[j][l] = "completed" => receipt[j][l] = "completed"
  BY <1>2 DEF Asked
<1> QED BY <1>1, <1>3, <1>4, <1>5, ReceiptStays

LEMMA OwnedStep ==
    ASSUME Typed, Owned, Moves
    PROVE  Owned'
<1>1. HostMove /\ RegistryMove
  BY DEF Moves
<1>2. /\ placement \in [generation : Nat, instance : Instances, published : BOOLEAN]
      /\ placement.generation \in Nat /\ placement.instance \in Instances
      /\ proc[placement.instance] \in ProcRow
  BY DEF Typed, RegistryTyped, HostsTyped
<1>3. \A j \in Jobs : GenOf[TargetOf[j]] \in Nat /\ GenOf[SourceOf[j]] \in Nat
                      /\ GenOf[TargetOf[j]] = GenOf[SourceOf[j]] + 1
  BY Constants
<1>4. ASSUME shown' = "retired" PROVE Gone(placement.instance)'
  <2>1. \/ placement' = placement /\ shown = "retired"
        \/ placement'.instance = placement.instance /\ shown = "retired"
        \/ /\ placement' = placement /\ UNCHANGED hosts
           /\ WordOf(placement.instance) = "retired"
    BY <1>1, <1>4 DEF RegistryMove, Commits, registry
  <2>2. WordOf(placement.instance) = "retired" => Gone(placement.instance)
    BY <1>2 DEF WordOf, Gone, ProcRow, ProcPhases
  <2>3. PICK i \in Instances : Gone(i) /\ placement'.instance = i
    BY <1>2, <2>1, <2>2 DEF Owned
  <2>4. Gone(i)'
    BY <1>1, <2>3, GoneStays
  <2> QED BY <2>3, <2>4 DEF Gone
<1>5. ASSUME NEW j \in Jobs
      PROVE  /\ <<j, "assign">> \in requests' => placement'.generation >= GenOf[TargetOf[j]]
             /\ <<j, "publish">> \in requests' =>
                  \/ placement'.published /\ placement'.generation >= GenOf[TargetOf[j]]
                  \/ placement'.generation > GenOf[TargetOf[j]]
  <2> DEFINE g == GenOf[TargetOf[j]]
  <2>1. /\ g \in Nat
        /\ <<j, "assign">> \in requests => placement.generation >= g
        /\ <<j, "publish">> \in requests => \/ placement.published /\ placement.generation >= g
                                            \/ placement.generation > g
    BY <1>3 DEF Owned
  <2>2. CASE UNCHANGED registry
    BY <2>1, <2>2 DEF registry
  <2>3. CASE \E k \in Jobs : Commits(k)
    <3>1. PICK k \in Jobs : Commits(k)
      BY <2>3
    <3>2. CASE /\ requests' = requests \cup {<<k, "assign">>}
               /\ placement.generation = GenOf[SourceOf[k]]
               /\ placement' = [generation |-> GenOf[TargetOf[k]],
                                instance |-> TargetOf[k], published |-> FALSE]
      <4>1. placement'.generation = placement.generation + 1
            /\ placement'.generation = GenOf[TargetOf[k]]
        BY <1>3, <3>2
      <4>2. <<j, "publish">> \in requests' => <<j, "publish">> \in requests
        BY <3>2
      <4>3. <<j, "assign">> \in requests' => <<j, "assign">> \in requests \/ j = k
        BY <3>2
      <4> QED BY <1>2, <2>1, <4>1, <4>2, <4>3
    <3>3. CASE requests' = requests \cup {<<k, "fence">>} /\ placement' = placement
      <4>1. /\ <<j, "publish">> \in requests' => <<j, "publish">> \in requests
            /\ <<j, "assign">> \in requests' => <<j, "assign">> \in requests
        BY <3>3
      <4> QED BY <2>1, <3>3, <4>1
    <3>4. CASE /\ requests' = requests \cup {<<k, "publish">>}
               /\ placement.generation = GenOf[TargetOf[k]]
               /\ placement'.generation = placement.generation
               /\ placement'.published
      <4>1. /\ <<j, "publish">> \in requests' => <<j, "publish">> \in requests \/ j = k
            /\ <<j, "assign">> \in requests' => <<j, "assign">> \in requests
        BY <3>4
      <4> QED BY <1>2, <2>1, <3>4, <4>1
    <3> QED BY <3>1, <3>2, <3>3, <3>4 DEF Commits
  <2> QED BY <1>1, <2>2, <2>3 DEF RegistryMove
<1> QED BY <1>4, <1>5 DEF Owned

-----------------------------------------------------------------------------
(* Receipts, captures and instances, after a step.                         *)

LEMMA BegunStays ==
    ASSUME HostMove, NEW i \in Instances, Begun(i)
    PROVE  Begun(i)'
<1>1. ProcMove(i)
  BY DEF HostMove
<1>2. proc'[i].phase \notin {"none", "prepared"}
  BY <1>1 DEF ProcMove, Begun
<1> QED BY <1>2 DEF Begun

LEMMA BarrierStays ==
    ASSUME HostMove, NEW j \in Jobs
    PROVE  /\ barrier[j] # "none" => barrier'[j] # "none"
           /\ barrier[j] = "released" => barrier'[j] = "released"
           /\ snapshot[j] # None => snapshot'[j] = snapshot[j]
  BY DEF HostMove, CaptureMove

\* The data of an instance whose commit is done only grows.
LEMMA TargetData ==
    ASSUME Typed, Receipts, HostMove, NEW j \in Jobs, receipt[j]["commit"] = "completed"
    PROVE  proc'[TargetOf[j]].data >= proc[TargetOf[j]].data
<1> DEFINE i == TargetOf[j]
<1>1. i \in Instances /\ \A k \in Jobs : TargetOf[k] = i => k = j
  BY Constants
<1> HIDE DEF i
<1>2. ProcMove(i) /\ proc[i].data \in Nat
  BY <1>1, JobAssumption DEF HostMove, Typed, HostsTyped, ProcRow
<1>3. proc'[i].data = proc[i].data \/ proc'[i].data >= proc[i].data
  BY <1>1, <1>2 DEF ProcMove
<1>4. proc'[i].data >= proc[i].data
  BY <1>2, <1>3
<1> QED BY <1>4 DEF i

\* A source that was captured rests, unless it was started by hand.
LEMMA SourceRests ==
    ASSUME Typed, Receipts, HostMove, NEW j \in Jobs, snapshot[j] # None, ~byHand'
    PROVE  /\ proc'[SourceOf[j]].phase = "stopped"
           /\ proc'[SourceOf[j]].data = proc[SourceOf[j]].data
<1> DEFINE i == SourceOf[j]
<1>1. i \in Instances /\ ~byHand
  BY Constants DEF HostMove
<1>2. proc[i].phase = "stopped" /\ barrier[j] # "none"
  BY <1>1 DEF Receipts, Kept
<1>3. ~\E k \in Jobs : TargetOf[k] = i /\ receipt[k]["start"] = "none"
  <2>1. Begun(i)
    BY <1>2 DEF Begun
  <2>2. ASSUME NEW k \in Jobs, TargetOf[k] = i PROVE receipt[k]["start"] = "completed"
    BY <1>1, <2>1, <2>2 DEF Receipts, Kept
  <2> QED BY <2>2
<1>4. ~\A k \in Jobs : TargetOf[k] = i \/ (SourceOf[k] = i /\ barrier[k] # "none") => byHand'
  BY <1>2
<1> HIDE DEF i
<1>5. ProcMove(i)
  BY <1>1 DEF HostMove
<1>6. proc'[i].phase = "stopped" /\ proc'[i].data = proc[i].data
  BY <1>2, <1>3, <1>4, <1>5 DEF ProcMove, Begun
<1> QED BY <1>6 DEF i

LEMMA KeptStep ==
    ASSUME Typed, Typed', Receipts, Moves, NEW j \in Jobs
    PROVE  Kept(j)'
<1> DEFINE s == SourceOf[j]
           t == TargetOf[j]
<1>1. /\ HostMove /\ Kept(j) /\ CaptureMove(j) /\ \A l \in HostLabels : ReceiptMove(j, l)
      /\ \A l \in {"freeze", "capture", "thaw", "commit", "start"} : l \in HostLabels
      /\ s \in Instances /\ t \in Instances
      /\ byHand => byHand'
      /\ \A k \in Jobs : TargetOf[k] = t => k = j
  BY Constants DEF Moves, HostMove, Receipts
<1>2. /\ barrier[j] # "none" => barrier'[j] # "none"
      /\ barrier[j] = "released" => barrier'[j] = "released"
      /\ snapshot[j] # None => snapshot'[j] = snapshot[j]
  BY <1>1, BarrierStays
<1>3. /\ proc[s].data \in 0 .. MaxWrites /\ proc[t].data \in 0 .. MaxWrites
      /\ proc'[t].data \in 0 .. MaxWrites
      /\ snapshot[j] \in (0 .. MaxWrites) \cup {None}
      /\ None \notin Nat /\ MaxWrites \in Nat
  BY <1>1, JobAssumption, Constants DEF Typed, HostsTyped, ProcRow
<1>4. /\ ProcMove(t) /\ ReceiptMove(j, "freeze") /\ ReceiptMove(j, "thaw")
      /\ ReceiptMove(j, "capture") /\ ReceiptMove(j, "commit") /\ ReceiptMove(j, "start")
  BY <1>1 DEF HostMove
<1>5. receipt'[j]["freeze"] \in {"begun", "completed"} => barrier'[j] # "none"
  BY <1>1, <1>2, <1>4 DEF ReceiptMove, Deed, Kept
<1>6. receipt'[j]["thaw"] = "completed" => barrier'[j] = "released"
  BY <1>1, <1>2, <1>4 DEF ReceiptMove, Deed, Kept
<1>7. snapshot'[j] # None <=> receipt'[j]["capture"] = "completed"
  <2>1. snapshot[j] # None => receipt'[j]["capture"] = "completed"
    BY <1>1, ReceiptStays DEF Kept
  <2>2. ASSUME snapshot[j] = None PROVE receipt[j]["capture"] # "completed"
    BY <1>1, <2>2 DEF Kept
  <2>3. proc[s].data # None
    BY <1>3
  <2>4. ASSUME snapshot[j] = None, snapshot'[j] # None
        PROVE  receipt'[j]["capture"] = "completed"
    BY <1>1, <2>4 DEF CaptureMove
  <2>5. ASSUME snapshot[j] = None, receipt'[j]["capture"] = "completed"
        PROVE  snapshot'[j] # None
    BY <1>4, <2>2, <2>5 DEF ReceiptMove, Deed
  <2> QED BY <1>2, <2>1, <2>4, <2>5
<1>8. snapshot'[j] # None => barrier'[j] # "none"
  BY <1>1, <1>2 DEF CaptureMove, Kept
<1>9. barrier'[j] # "none" => Begun(s)'
  <2>1. barrier'[j] # "none" => Begun(s)
    BY <1>1 DEF CaptureMove, Kept
  <2> QED BY <1>1, <2>1, BegunStays
<1>10. receipt'[j]["start"] = "completed" => Begun(t)'
  <2>1. receipt[j]["start"] = "completed" => Begun(t)
    BY <1>1 DEF Kept
  <2>2. receipt[j]["start"] = "completed" \/ receipt'[j]["start"] # "completed"
        \/ proc'[t].phase = "running"
    BY <1>4 DEF ReceiptMove, Deed
  <2>3. proc'[t].phase = "running" => Begun(t)'
    BY DEF Begun
  <2> QED BY <1>1, <2>1, <2>2, <2>3, BegunStays
<1>11. Begun(t)' /\ ~byHand' => receipt'[j]["start"] = "completed"
  <2> SUFFICES ASSUME proc'[t].phase \notin {"none", "prepared"}, ~byHand'
               PROVE  receipt'[j]["start"] = "completed"
    BY DEF Begun
  <2>1. CASE Begun(t)
    <3>1. receipt[j]["start"] = "completed"
      BY <1>1, <2>1 DEF Kept
    <3> QED BY <1>1, <3>1, ReceiptStays
  <2>2. CASE ~Begun(t)
    <3>1. proc[t].phase \in {"none", "prepared"}
      BY <2>2 DEF Begun
    <3> HIDE DEF t
    <3>2. \/ \E k \in Jobs : TargetOf[k] = t /\ receipt'[k]["start"] = "completed"
          \/ \A k \in Jobs : TargetOf[k] = t => byHand'
      BY <1>4, <2>2, <3>1 DEF ProcMove
    <3> QED BY <1>1, <3>2 DEF t
  <2> QED BY <2>1, <2>2
<1>12. proc'[t].pending => snapshot'[j] # None
  <2>1. proc[t].pending => snapshot[j] # None
    BY <1>1 DEF Kept
  <2> HIDE DEF t
  <2>2. proc'[t].pending => proc[t].pending \/ snapshot[j] # None
    BY <1>1, <1>4 DEF ProcMove
  <2> QED BY <1>2, <2>1, <2>2
<1>13. receipt'[j]["commit"] = "completed" =>
          snapshot'[j] # None /\ proc'[t].data >= snapshot'[j]
  <2>1. CASE receipt[j]["commit"] = "completed"
    <3>1. snapshot[j] # None /\ proc[t].data >= snapshot[j]
      BY <1>1, <2>1 DEF Kept
    <3>2. proc'[t].data >= proc[t].data
      BY <1>1, <2>1, TargetData
    <3>3. proc'[t].data >= snapshot[j]
      <4> DEFINE a == proc'[t].data
                 b == proc[t].data
                 c == snapshot[j]
      <4>1. a \in Nat /\ b \in Nat /\ c \in Nat /\ a >= b /\ b >= c
        BY <1>3, <3>1, <3>2
      <4> HIDE DEF a, b, c
      <4>2. a >= c
        BY <4>1
      <4> QED BY <4>2 DEF a, c
    <3> QED BY <1>2, <3>1, <3>3
  <2>2. CASE receipt[j]["commit"] # "completed" /\ receipt'[j]["commit"] = "completed"
    <3>1. snapshot[j] # None /\ snapshot'[j] = snapshot[j] /\ proc'[t].data = snapshot[j]
      BY <1>4, <2>2 DEF ReceiptMove, Deed
    <3>2. snapshot[j] \in Nat
      BY <1>3, <3>1
    <3> QED BY <3>1, <3>2
  <2> QED BY <2>1, <2>2
<1>14. snapshot'[j] # None /\ ~byHand' =>
          proc'[s].phase = "stopped" /\ proc'[s].data = snapshot'[j]
  <2> SUFFICES ASSUME snapshot'[j] # None, ~byHand'
               PROVE  proc'[s].phase = "stopped" /\ proc'[s].data = snapshot'[j]
    OBVIOUS
  <2>1. CASE snapshot[j] # None
    <3>1. proc[s].data = snapshot[j]
      BY <1>1, <2>1 DEF Kept
    <3> QED BY <1>1, <1>2, <2>1, <3>1, SourceRests
  <2>2. CASE snapshot[j] = None
    BY <1>1, <2>2 DEF CaptureMove
  <2> QED BY <2>1, <2>2
<1> QED BY <1>5, <1>6, <1>7, <1>8, <1>9, <1>10, <1>11, <1>12, <1>13, <1>14 DEF Kept

LEMMA ReceiptsStep ==
    ASSUME Typed, Typed', Receipts, Moves
    PROVE  Receipts'
  BY KeptStep DEF Receipts

-----------------------------------------------------------------------------
(* The placement a job was planned for, and the instances of the moves.    *)

LEMMA JobStays ==
    ASSUME Typed, Control, CallMove, NEW j \in Jobs, job'[j].phase # "none"
    PROVE  job[j].phase # "none" \/ (ShowsSource(j) /\ placement' = placement)
<1>1. Len(StepsOf(j)) \in Nat \ {0} /\ \A n \in 1 .. Len(StepsOf(j)) : StepsOf(j)[n] # "none"
  BY OrderFacts, StepSets
<1>2. CASE Advances
  <2>1. CASE j = J
    <3>1. call.at # "idle" /\ J \in Jobs /\ job[J].phase \in StepSet(J)
      BY <1>2, CallStands DEF Advances, Step
    <3> QED BY <2>1, <3>1, StepSets
  <2> QED BY <1>2, <2>1 DEF Advances
<1>3. CASE \E k \in Jobs : Starts(k)
  <2>1. PICK k \in Jobs : Starts(k)
    BY <1>3
  <2>2. CASE k = j
    <3>1. 1 \in 1 .. Len(StepsOf(j))
      BY <1>1
    <3> QED BY <1>1, <2>1, <2>2, <3>1 DEF Starts
  <2> QED BY <2>1, <2>2 DEF Starts
<1> QED BY <1>2, <1>3 DEF CallMove, Proceeds, Ends, Opens, Saves

LEMMA SeatedStep ==
    ASSUME Typed, Control, Seated, Moves
    PROVE  Seated'
<1>1. RegistryMove /\ CallMove
  BY DEF Moves
<1>2. \A j \in Jobs : /\ GenOf[SourceOf[j]] \in Nat
                      /\ GenOf[TargetOf[j]] = GenOf[SourceOf[j]] + 1
  BY Constants
<1>3. placement.generation \in Nat
  BY DEF Typed, RegistryTyped
<1>4. CASE /\ placement'.generation = placement.generation
           /\ placement'.instance = placement.instance
  <2> SUFFICES ASSUME NEW j \in Jobs, job'[j].phase # "none"
               PROVE  \/ placement'.generation > GenOf[SourceOf[j]]
                      \/ placement'.instance = SourceOf[j]
    BY <1>4 DEF Seated
  <2>1. job[j].phase # "none" \/ ShowsSource(j)
    BY <1>1, JobStays
  <2> QED BY <1>4, <2>1 DEF Seated, ShowsSource
<1>5. ASSUME NEW k \in Jobs, placement.generation = GenOf[SourceOf[k]],
             placement' = [generation |-> GenOf[TargetOf[k]], instance |-> TargetOf[k],
                           published |-> FALSE]
      PROVE  Seated'
  <2>1. /\ placement'.generation = GenOf[placement'.instance]
        /\ placement'.generation = placement.generation + 1
        /\ placement' # placement
    BY <1>2, <1>3, <1>5
  <2> SUFFICES ASSUME NEW j \in Jobs, job'[j].phase # "none"
               PROVE  placement'.generation > GenOf[SourceOf[j]]
    BY <2>1 DEF Seated
  <2>2. job[j].phase # "none"
    BY <1>1, <2>1, JobStays
  <2>3. \/ placement.generation > GenOf[SourceOf[j]]
        \/ placement.generation = GenOf[SourceOf[j]]
    BY <2>2 DEF Seated
  <2> QED BY <1>2, <1>3, <2>1, <2>3
<1> QED BY <1>1, <1>4, <1>5 DEF RegistryMove, Commits, registry

\* A move that assigns has its source retired and down, whatever the gate
\* of assign relied on.
LEMMA MoveAssigns ==
    ASSUME Typed, Control, Journal, Seated, call.at # "idle", NEW k \in Jobs, J = k,
           Step = "assign", ActionOf[k] = "plan", placement.generation = GenOf[SourceOf[k]]
    PROVE  Gone(placement.instance)
<1>1. job[k].phase = "assign" /\ job[k].phase \in StepSet(k)
  BY DEF Control, Step
<1>2. Behind(k, "retire-source") /\ "retire-source" \in StepSet(k)
  BY <1>1, BehindEarlier
<1>3. Gone(SourceOf[k])
  BY <1>2, LastLabels DEF Journal, Finished
<1>4. placement.instance = SourceOf[k]
  BY <1>1, Constants DEF Seated
<1> QED BY <1>3, <1>4

LEMMA LoneStep ==
    ASSUME Typed, Typed', Control, Journal, Seated, Lone, Moves
    PROVE  Lone'
<1> SUFFICES ASSUME MovedByMoves'
             PROVE  /\ \A i \in Instances : \/ i = placement'.instance
                                            \/ proc'[i].phase = "none" \/ Gone(i)'
                    /\ \A j \in Jobs : <<j, "assign">> \in requests'
                                         /\ proc'[TargetOf[j]].phase = "none"
                                          => TargetOf[j] = placement'.instance
  BY DEF Lone
<1>1. /\ \A i \in Instances : i = placement.instance \/ proc[i].phase = "none" \/ Gone(i)
      /\ \A j \in Jobs : <<j, "assign">> \in requests /\ proc[TargetOf[j]].phase = "none"
                            => TargetOf[j] = placement.instance
  BY RegistryGrows DEF Moves, Lone, MovedByMoves
<1>2. HostMove /\ RegistryMove
  BY DEF Moves
<1>3. \A i \in Instances : Gone(i) => Gone(i)'
  BY <1>2, GoneStays
<1>4. CASE UNCHANGED registry
  <2>1. placement' = placement /\ requests' = requests /\ fences' = fences
    BY <1>4 DEF registry
  <2>2. ASSUME NEW i \in Instances, proc[i].phase = "none"
        PROVE  i = placement'.instance \/ proc'[i].phase = "none"
    <3>1. ProcMove(i)
      BY <1>2 DEF HostMove
    <3>2. \/ proc'[i].phase = "none"
          \/ \E j \in Jobs : TargetOf[j] = i /\ <<j, "assign">> \in requests
      BY <2>2, <3>1 DEF ProcMove, Begun
    <3> QED BY <1>1, <2>1, <2>2, <3>2
  <2>3. ASSUME NEW i \in Instances, proc'[i].phase = "none"
        PROVE  proc[i].phase = "none"
    <3>1. ProcMove(i) /\ proc[i] \in ProcRow
      BY <1>2 DEF HostMove, Typed, HostsTyped
    <3> QED BY <2>3, <3>1 DEF ProcMove, Begun
  <2>4. \A i \in Instances : i = placement'.instance \/ proc'[i].phase = "none" \/ Gone(i)'
    BY <1>1, <1>3, <2>1, <2>2
  <2>5. ASSUME NEW j \in Jobs, <<j, "assign">> \in requests', proc'[TargetOf[j]].phase = "none"
        PROVE  TargetOf[j] = placement'.instance
    BY <1>1, <2>1, <2>3, <2>5, Constants
  <2> QED BY <1>1, <2>1, <2>4, <2>5
<1>5. CASE UNCHANGED hosts /\ \E k \in Jobs : Commits(k)
  <2>1. proc' = proc /\ \A i \in Instances : Gone(i)' <=> Gone(i)
    BY <1>5 DEF hosts, Gone
  <2>2. PICK k \in Jobs : Commits(k)
    BY <1>5
  <2>3. CASE /\ requests' = requests \cup {<<k, "assign">>}
             /\ call.at = "step" /\ Step = "assign" /\ J = k
             /\ placement.generation = GenOf[SourceOf[k]]
             /\ placement' = [generation |-> GenOf[TargetOf[k]],
                              instance |-> TargetOf[k], published |-> FALSE]
    <3>1. Gone(placement.instance) /\ placement'.instance = TargetOf[k]
      <4>1. ActionOf[k] = "plan"
        BY <2>3 DEF MovedByMoves
      <4> QED BY <2>3, <4>1, MoveAssigns
    <3>2. \A i \in Instances : proc[i].phase = "none" \/ Gone(i)
      BY <1>1, <3>1
    <3>3. ASSUME NEW j \in Jobs, <<j, "assign">> \in requests',
                 proc[TargetOf[j]].phase = "none"
          PROVE  TargetOf[j] = TargetOf[k]
      <4>1. CASE <<j, "assign">> \in requests
        <5>1. Gone(TargetOf[j])
          BY <1>1, <3>1, <3>3, <4>1
        <5> QED BY <3>3, <5>1 DEF Gone
      <4> QED BY <2>3, <3>3, <4>1
    <3> QED BY <1>1, <2>1, <2>3, <3>1, <3>2, <3>3
  <2>4. CASE requests' = requests \cup {<<k, "fence">>} /\ placement' = placement
    <3>1. \A j \in Jobs : <<j, "assign">> \in requests' => <<j, "assign">> \in requests
      BY <2>4
    <3> QED BY <1>1, <2>1, <2>4, <3>1
  <2>5. CASE /\ requests' = requests \cup {<<k, "publish">>}
             /\ placement'.instance = placement.instance
    <3>1. \A j \in Jobs : <<j, "assign">> \in requests' => <<j, "assign">> \in requests
      BY <2>5
    <3> QED BY <1>1, <2>1, <2>5, <3>1
  <2> QED BY <2>2, <2>3, <2>4, <2>5 DEF Commits
<1> QED BY <1>2, <1>4, <1>5 DEF RegistryMove

-----------------------------------------------------------------------------
(* A call that has heard of the incumbent all along.                       *)

\* The second half of Heard: `incumbent` lets only an operator pass.
Overrides ==
    heard /\ call.at = "step" /\ Step = "fence" /\ call.next >= 2 =>
        EvidenceOf[J] = "operator"

LEMMA FenceScript ==
    ASSUME Typed, Control, call.at # "idle", Step = "fence"
    PROVE  /\ Label \notin HostLabels
           /\ call.next = 1 => Label = "incumbent"
           /\ call.next # 1 => call.next >= 2
           /\ Label = "fence" => call.next = 2
           /\ Label \notin {"assign", "publish"}
<1>1. Script(Step) = <<"incumbent", "fence", "verify">>
  BY DEF Script
<1>2. call.next \in 1 .. 3
  BY <1>1, CallStands
<1> QED BY <1>1, <1>2, Constants DEF Label

\* A step that keeps the phase of the call's job and what is heard of it.
LEMMA HeardRests ==
    ASSUME Heard, shown' = shown, heard' = heard, J' = J, Step' = Step, call.at # "idle",
           Overrides'
    PROVE  Heard'
  BY DEF Heard, Overrides, Fresh

LEMMA HeardProceeds ==
    ASSUME Typed, Control, Heard, shown' = shown, heard' = heard, call.at = "step", Proceed,
           Step = "fence" /\ call.next = 1 => MayFence(J)
    PROVE  Heard'
<1>1. J' = J /\ Step' = Step /\ call'.at \in {"save", "step"}
  BY ProceedIs DEF J, Step
<1>2. ASSUME heard, Step = "fence" PROVE EvidenceOf[J] = "operator"
  <2>1. CASE call.next = 1
    BY <1>2, <2>1 DEF Heard, MayFence
  <2>2. CASE call.next # 1
    BY <1>2, <2>2, FenceScript DEF Heard
  <2> QED BY <2>1, <2>2
<1>3. Overrides'
  BY <1>1, <1>2 DEF Overrides
<1> QED BY <1>1, <1>3, HeardRests

LEMMA HeardEnds ==
    ASSUME call' = Idle
    PROVE  Heard'
  BY IdleIs DEF Heard

\* Steps before which the row of the incumbent is looked at.
LEMMA LookedAt ==
    ASSUME NEW j \in Jobs, NEW n \in 1 .. Len(StepsOf(j)) - 1,
           StepsOf(j)[n + 1] \in {"refresh", "fence"}
    PROVE  StepsOf(j)[n] \in {"refresh", "fence"}
<1>1. CASE ActionOf[j] = "plan"
  <2>1. StepsOf(j) = MoveSteps
    BY <1>1 DEF StepsOf
  <2>2. n + 1 \in 1 .. 10
    BY <2>1, MoveFacts
  <2>3. \A m \in 1 .. 10 : MoveSteps[m] \notin {"refresh", "fence"}
    BY MoveFacts
  <2> QED BY <2>1, <2>2, <2>3
<1>2. CASE ActionOf[j] # "plan"
  <2>1. StepsOf(j) = FailoverSteps
    BY <1>2 DEF StepsOf
  <2>2. n \in 1 .. 5 /\ n + 1 \in 2 .. 6
    BY <2>1, FailoverFacts
  <2>3. \A m \in 2 .. 6 : FailoverSteps[m] \in {"refresh", "fence"} => m = 2
    BY FailoverFacts
  <2>4. n = 1
    BY <2>1, <2>2, <2>3
  <2> QED BY <2>1, <2>4, FailoverFacts
<1> QED BY <1>1, <1>2

LEMMA HeardLoop ==
    ASSUME Typed, Control, Heard, Gate \/ Save \/ Advance
    PROVE  Heard'
<1>1. shown' = shown /\ heard' = heard /\ call.at # "idle"
  BY DEF Gate, Save, Advance, evidence
<1>2. /\ J \in Jobs /\ Step = job[J].phase /\ call \in CallRow /\ job \in [Jobs -> JobRow]
      /\ job[J] \in JobRow
  BY <1>1, CallStands
<1>3. CASE Gate
  <2>1. CASE Defer
    BY <2>1, HeardEnds DEF Defer
  <2>2. CASE job' = job /\ call'.job = call.job /\ call'.next = call.next
    <3>1. J' = J /\ Step' = Step /\ call'.next = 1
      BY <1>3, <2>2 DEF J, Step, Gate, Control
    <3>2. Overrides'
      BY <3>1 DEF Overrides
    <3> QED BY <1>1, <3>1, <3>2, HeardRests
  <2> QED BY <1>2, <1>3, <2>1, <2>2 DEF Gate, CallRow
<1>4. CASE Save
  <2> DEFINE k == J
  <2>1. job' = [job EXCEPT ![k].mark = "completed"] /\ call' = [call EXCEPT !.at = "advance"]
    BY <1>4 DEF Save
  <2> HIDE DEF k
  <2>2. k \in Jobs /\ call'.at = "advance" /\ call'.job = call.job
    BY <1>2, <2>1 DEF CallRow, k
  <2>3. job'[k].phase = job[k].phase
    BY <1>2, <2>1, <2>2 DEF JobRow
  <2>4. J' = J /\ Step' = Step
    BY <1>2, <2>2, <2>3 DEF J, Step, k
  <2>5. Overrides'
    BY <2>2 DEF Overrides
  <2> QED BY <1>1, <2>4, <2>5, HeardRests
<1>5. CASE Advance
  <2>1. CASE Step = Last(StepsOf(J))
    BY <1>5, <2>1, HeardEnds DEF Advance
  <2>2. CASE Step # Last(StepsOf(J))
    <3> DEFINE k == J
    <3>1. PICK n \in 1 .. Len(StepsOf(k)) - 1 :
            /\ StepsOf(k)[n] = Step
            /\ job' = [job EXCEPT ![k] = [phase |-> StepsOf(k)[n + 1], mark |-> "none"]]
      BY <1>5, <2>2 DEF Advance
    <3>2. call' = [call EXCEPT !.at = "gate", !.next = 1]
      BY <1>5, <2>2 DEF Advance
    <3>3. k \in Jobs /\ call'.at = "gate" /\ call'.job = k
      BY <1>2, <3>2, GateIs DEF J
    <3>4. StepsOf(k)[n + 1] \in {"refresh", "fence"} => Step \in {"refresh", "fence"}
      BY <3>1, <3>3, LookedAt
    <3> DEFINE p == StepsOf(k)[n + 1]
    <3>5. job' = [job EXCEPT ![k] = [phase |-> p, mark |-> "none"]]
      BY <3>1
    <3>6. p \in {"refresh", "fence"} => Step \in {"refresh", "fence"}
      BY <3>4
    <3> HIDE DEF p, k
    <3>7. job'[k].phase = p
      BY <1>2, <3>3, <3>5
    <3>8. Step' = p
      BY <3>3, <3>7 DEF Step, J
    <3> QED BY <1>1, <3>3, <3>6, <3>8 DEF Heard, Fresh
  <2> QED BY <2>1, <2>2
<1> QED BY <1>3, <1>4, <1>5

LEMMA HeardRegistry ==
    ASSUME Typed, Control, Heard, RegistryStep
    PROVE  Heard'
<1>1. /\ call.at = "step" /\ heard' = heard /\ Label \in {"assign", "fence", "publish"}
      /\ Blocked \/ Proceed
      /\ shown' = shown \/ Label = "assign"
  BY DEF RegistryStep, Doing, Post, Commit
<1>2. CASE Blocked
  BY <1>2, HeardEnds DEF Blocked
<1>3. CASE Proceed /\ shown' = shown
  <2>1. ~(Step = "fence" /\ call.next = 1)
    BY <1>1, FenceScript
  <2> QED BY <1>1, <1>3, <2>1, HeardProceeds
<1>4. CASE Proceed /\ Label = "assign"
  <2>1. J' = J /\ Step' = Step
    BY <1>1, <1>4, ProceedIs DEF J, Step
  <2>2. Step = "assign"
    BY <1>1, <1>4, LabelIs
  <2> QED BY <2>1, <2>2 DEF Heard
<1> QED BY <1>1, <1>2, <1>3, <1>4

LEMMA HeardLabels ==
    ASSUME Typed, Control, Heard, Look \/ LocalStep \/ Dispatch \/ View
    PROVE  Heard'
<1>1. shown' = shown /\ heard' = heard /\ call.at \in {"step", "view"}
  BY DEF Look, LocalStep, Dispatch, View, Doing, evidence
<1>2. CASE Look
  <2>1. call.at = "step"
    BY <1>2 DEF Look, Doing
  <2>2. \/ Blocked \/ Defer
        \/ Proceed /\ (Label = "incumbent" => MayFence(J))
    BY <1>2 DEF Look, Doing, Unless, Await
  <2>3. CASE Blocked \/ Defer
    BY <2>3, HeardEnds DEF Blocked, Defer
  <2>4. CASE Proceed /\ (Label = "incumbent" => MayFence(J))
    <3>1. Step = "fence" /\ call.next = 1 => MayFence(J)
      BY <2>1, <2>4, FenceScript
    <3> QED BY <1>1, <2>1, <2>4, <3>1, HeardProceeds
  <2> QED BY <2>2, <2>3, <2>4
<1>3. CASE LocalStep \/ Dispatch \/ View
  <2>1. Label \in HostLabels
    BY <1>3 DEF LocalStep, Dispatch, View, Doing, Control
  <2>2. Step # "fence"
    BY <1>1, <2>1, FenceScript
  <2>3. \/ Blocked \/ Defer \/ Proceed
        \/ job' = job /\ call'.job = call.job
    BY <1>3 DEF LocalStep, Dispatch, View, Typed, CallTyped, CallRow
  <2>4. CASE Blocked \/ Defer
    BY <2>4, HeardEnds DEF Blocked, Defer
  <2>5. CASE Proceed \/ (job' = job /\ call'.job = call.job)
    <3>1. J' = J /\ Step' = Step
      BY <1>1, <2>5, ProceedIs DEF J, Step
    <3>2. Overrides'
      BY <2>2, <3>1 DEF Overrides
    <3> QED BY <1>1, <3>1, <3>2, HeardRests
  <2> QED BY <2>3, <2>4, <2>5
<1> QED BY <1>2, <1>3

LEMMA HeardStep ==
    ASSUME Typed, Control, Heard, [Next]_vars
    PROVE  Heard'
<1>1. CASE \E j \in Jobs : Plan(j) \/ Execute(j) \/ Abort(j)
  <2>1. PICK j \in Jobs : Plan(j) \/ Execute(j) \/ Abort(j)
    BY <1>1
  <2>2. CASE Plan(j) \/ Abort(j)
    BY <2>2 DEF Plan, Abort, Heard
  <2>3. CASE Execute(j)
    <3>1. call'.at = "gate" /\ heard' = (Fresh /\ ShowsSource(j)) /\ shown' = shown
      BY <2>3 DEF Execute
    <3> QED BY <3>1 DEF Heard, Fresh
  <2> QED BY <2>1, <2>2, <2>3
<1>2. CASE Run
  BY <1>2, HeardLoop, HeardRegistry, HeardLabels DEF Run
<1>3. CASE \/ Hosted \/ \E i \in Instances : Down(i) \/ Write(i) \/ StartByHand(i)
           \/ LoseDependency \/ RegainDependency \/ UNCHANGED vars
  <2>1. UNCHANGED <<job, call, shown, heard>>
    BY <1>3 DEF Hosted, Reporter, PostReceipt, Down, Write, StartByHand, LoseDependency,
        RegainDependency, vars, evidence
  <2> QED BY <2>1 DEF Heard, Fresh, Step, J
<1>4. CASE Report
  <2>1. shown' # "stale"
    BY <1>4 DEF Report, WordOf, Typed, RegistryTyped, HostsTyped, ProcRow, ProcPhases
  <2>2. UNCHANGED <<job, call, heard>>
    BY <1>4 DEF Report
  <2> QED BY <2>1, <2>2 DEF Heard, Fresh, Step, J
<1>5. CASE GoStale
  BY <1>5 DEF GoStale, Heard
<1>6. CASE Interrupt
  BY <1>6, HeardEnds DEF Interrupt
<1> QED BY <1>1, <1>2, <1>3, <1>4, <1>5, <1>6 DEF Next

-----------------------------------------------------------------------------
(* The invariant.                                                          *)

LEMMA InitInv == Init => Inv
<1> SUFFICES ASSUME Init PROVE Inv
  OBVIOUS
<1>1. \A j \in Jobs : job[j].phase = "none" /\ job[j].mark = "none"
  BY DEF Init
<1>2. /\ call.at = "idle" /\ call \in CallRow /\ shown = "running" /\ requests = {}
      /\ fences = {} /\ placement.instance = Origin
      /\ \A j \in Jobs : barrier[j] = "none" /\ snapshot[j] = None
      /\ \A j \in Jobs, l \in HostLabels : queue[j][l] = "none" /\ receipt[j][l] = "none"
  BY IdleIs DEF Init
<1>3. NotPrepared \in ProcRow /\ [NotPrepared EXCEPT !.phase = "running"] \in ProcRow
  <2>1. 0 \in 0 .. MaxWrites
    BY JobAssumption
  <2> QED BY <2>1 DEF NotPrepared, ProcRow, ProcPhases
<1>4. /\ proc \in [Instances -> ProcRow]
      /\ \A i \in Instances : ~proc[i].pending /\ (i = Origin \/ proc[i].phase = "none")
  BY <1>3 DEF Init, NotPrepared
<1>5. Typed
  <2>1. CallTyped
    BY <1>2, JobPhasesAre DEF Init, CallTyped, JobRow, Marks
  <2>2. RegistryTyped /\ EvidenceTyped /\ QueueTyped /\ EnvTyped
    BY JobAssumption DEF Init, RegistryTyped, EvidenceTyped, Words, QueueTyped, EnvTyped
  <2>3. HostsTyped
    BY <1>4 DEF Init, HostsTyped
  <2> QED BY <2>1, <2>2, <2>3 DEF Typed
<1>6. Control
  BY <1>1, <1>2 DEF Control
<1>7. Progress
  BY <1>2 DEF Progress
<1>8. Journal
  <2>1. ASSUME NEW j \in Jobs, NEW s \in StepSet(j), Behind(j, s) PROVE FALSE
    <3>1. \A n \in 1 .. Len(StepsOf(j)) : StepsOf(j)[n] # "none"
      BY OrderFacts, StepSets
    <3> QED BY <1>1, <2>1, <3>1 DEF Behind
  <2> QED BY <1>2, <2>1 DEF Journal
<1>9. Asked /\ Owned
  BY <1>2 DEF Asked, Owned
<1>10. Receipts
  <2> SUFFICES ASSUME NEW j \in Jobs PROVE Kept(j)
    BY DEF Receipts
  <2>1. TargetOf[j] \in Instances /\ TargetOf[j] # Origin
    BY JobAssumption
  <2>2. proc[TargetOf[j]].phase = "none" /\ ~proc[TargetOf[j]].pending
    BY <1>4, <2>1
  <2>3. \A l \in {"freeze", "capture", "thaw", "start", "commit"} : receipt[j][l] = "none"
    BY <1>2, Constants
  <2> QED BY <1>2, <2>2, <2>3 DEF Kept, Begun
<1>11. Seated /\ Lone
  BY <1>1, <1>2, <1>4, JobAssumption DEF Init, Seated, Lone
<1>12. Heard
  BY <1>2 DEF Heard
<1> QED BY <1>5, <1>6, <1>7, <1>8, <1>9, <1>10, <1>11, <1>12 DEF Inv

LEMMA NextInv == Inv /\ [Next]_vars => Inv'
<1> SUFFICES ASSUME Inv, [Next]_vars PROVE Inv'
  OBVIOUS
<1>1. /\ Typed /\ Control /\ Progress /\ Journal /\ Asked /\ Owned /\ Receipts
      /\ Seated /\ Lone /\ Heard
  BY DEF Inv
<1>2. Moves
  BY <1>1, StepMoves
<1>3. Typed'
  BY <1>2 DEF Moves
<1>4. Control' /\ Progress' /\ Journal'
  BY <1>1, <1>2, ControlStep, ProgressStep, JournalStep
<1>5. Asked' /\ Owned' /\ Receipts' /\ Seated' /\ Lone'
  BY <1>1, <1>2, <1>3, AskedStep, OwnedStep, ReceiptsStep, SeatedStep, LoneStep
<1>6. Heard'
  BY <1>1, HeardStep
<1> QED BY <1>3, <1>4, <1>5, <1>6 DEF Inv

LEMMA SpecInv == Spec => []Inv
  BY InitInv, NextInv, PTL DEF Spec

\* Every variable keeps its type: the journal's phases are those of
\* _step_order, and a call stands at a label of a step.
THEOREM TypesHold == Spec => []TypeOK
<1>1. Inv => TypeOK
  <2> SUFFICES ASSUME Inv PROVE TypeOK
    OBVIOUS
  <2>1. /\ job \in [Jobs -> [phase : JobPhases, mark : Marks]]
        /\ call \in [at : {"idle", "gate", "step", "view", "save", "advance"},
                     job : Jobs \cup {None}, next : 0 .. 5]
    BY DEF Inv, Typed, CallTyped, JobRow, CallRow, Places
  <2>2. /\ placement \in [generation : Nat, instance : Instances, published : BOOLEAN]
        /\ fences \subseteq Nat
        /\ requests \subseteq Jobs \X {"assign", "publish", "fence"}
        /\ shown \in Words /\ ready \in BOOLEAN /\ heard \in BOOLEAN
        /\ queue \in [Jobs -> [HostLabels -> {"none", "open", "completed", "failed"}]]
        /\ faults \in Nat /\ byHand \in BOOLEAN
    BY DEF Inv, Typed, RegistryTyped, EvidenceTyped, QueueTyped, EnvTyped
  <2>3. /\ receipt \in [Jobs -> [HostLabels -> {"none", "begun", "completed", "failed"}]]
        /\ proc \in [Instances -> [phase : ProcPhases, retired : BOOLEAN,
                                   pending : BOOLEAN, data : 0 .. MaxWrites]]
        /\ barrier \in [Jobs -> {"none", "held", "released"}]
    BY DEF Inv, Typed, HostsTyped, ProcRow
  <2>4. snapshot \in [Jobs -> Nat \cup {None}]
    BY JobAssumption DEF Inv, Typed, HostsTyped
  <2> QED BY <2>1, <2>2, <2>3, <2>4 DEF TypeOK
<1> QED BY <1>1, SpecInv, PTL

-----------------------------------------------------------------------------
(* What follows from it.                                                   *)

\* What lies behind a job has happened on the hosts and in the registry,
\* wherever a call of the controller was cut short: _run_phases saves a step
\* only after its evidence is there.
THEOREM JournalHonestHolds == Spec => []JournalHonest
<1>1. Inv => JournalHonest
  <2> SUFFICES ASSUME Inv, NEW j \in Jobs
      PROVE  /\ Behind(j, "freeze") => barrier[j] # "none"
             /\ Behind(j, "capture") => snapshot[j] # None
             /\ Behind(j, "thaw") => barrier[j] = "released"
             /\ Behind(j, "retire-source") =>
                   proc[SourceOf[j]].retired /\ ~Alive(SourceOf[j])
             /\ Behind(j, "fence") => GenOf[SourceOf[j]] \in fences
             /\ Behind(j, "assign") => placement.generation >= GenOf[TargetOf[j]]
             /\ Behind(j, "install-target") \/ Behind(j, "adopt") =>
                   proc[TargetOf[j]].phase \notin {"none", "prepared"}
             /\ Behind(j, "publish") =>
                   placement.published \/ placement.generation > GenOf[TargetOf[j]]
    BY DEF JournalHonest
  <2>1. Kept(j) /\ Owned
    BY DEF Inv, Receipts
  <2>2. \A s : Behind(j, s) => s \in StepSet(j)
    BY OrderFacts DEF Behind
  <2>3. \A s \in StepSet(j) : Behind(j, s) => Finished(j, LastLabel(s))
    BY DEF Inv, Journal
  <2>4. /\ Behind(j, "freeze") => receipt[j]["freeze"] = "completed"
        /\ Behind(j, "capture") => receipt[j]["capture"] = "completed"
        /\ Behind(j, "thaw") => receipt[j]["thaw"] = "completed"
    <3>1. /\ Behind(j, "freeze") => Finished(j, "freeze")
          /\ Behind(j, "capture") => Finished(j, "capture")
          /\ Behind(j, "thaw") => Finished(j, "thaw")
      BY <2>2, <2>3, LastLabels
    <3> QED BY <3>1, Constants DEF Finished
  <2>5. Behind(j, "retire-source") => Gone(SourceOf[j])
    BY <2>2, <2>3, LastLabels DEF Finished
  <2>6. Behind(j, "fence") => GenOf[SourceOf[j]] \in fences
    BY <2>2, <2>3, LastLabels DEF Finished
  <2>7. /\ Behind(j, "assign") => <<j, "assign">> \in requests
        /\ Behind(j, "publish") => <<j, "publish">> \in requests
    BY <2>2, <2>3, LastLabels DEF Finished
  <2>8. Behind(j, "install-target") \/ Behind(j, "adopt") =>
          receipt[j]["start"] = "completed"
    <3>1. Behind(j, "install-target") \/ Behind(j, "adopt") => Finished(j, "start")
      BY <2>2, <2>3, LastLabels
    <3> QED BY <3>1, Constants DEF Finished
  <2>9. Gone(SourceOf[j]) => proc[SourceOf[j]].retired /\ ~Alive(SourceOf[j])
    BY DEF Gone, Alive
  <2> QED BY <2>1, <2>4, <2>5, <2>6, <2>7, <2>8, <2>9 DEF Kept, Owned, Begun
<1> QED BY <1>1, SpecInv, PTL

\* Any number of moves of the workload, cut short anywhere, leave at most one
\* instance with processes: a move assigns only after it saw its own source
\* retired and down, even when a failover left a fence that `assign` would
\* accept, and the worker never starts a retired instance.
THEOREM NoOverlapHolds == Spec => []NoOverlap
<1>1. Inv => NoOverlap
  <2> SUFFICES ASSUME Inv, MovedByMoves, NEW i \in Instances, NEW k \in Instances,
                      Alive(i), Alive(k)
               PROVE  i = k
    BY DEF NoOverlap
  <2>1. \A n \in Instances : n = placement.instance \/ proc[n].phase = "none" \/ Gone(n)
    BY DEF Inv, Lone
  <2>2. \A n \in Instances : Alive(n) => n = placement.instance
    BY <2>1 DEF Alive, Gone
  <2> QED BY <2>2
<1> QED BY <1>1, SpecInv, PTL

\* The target of a move starts from all the source ever wrote: `start` is
\* asked for only after the commit of the capture, and the capture was taken
\* of a stopped source that nobody started since.
THEOREM NothingLostHolds == Spec => []NothingLost
<1>1. Inv => NothingLost
  <2> SUFFICES ASSUME Inv, NEW j \in Jobs, ActionOf[j] = "plan", Alive(TargetOf[j]), ~byHand
               PROVE  /\ proc[SourceOf[j]].data = snapshot[j]
                      /\ proc[TargetOf[j]].data >= snapshot[j]
    BY DEF NothingLost
  <2>1. Kept(j) /\ Begun(TargetOf[j])
    BY DEF Inv, Receipts, Alive, Begun
  <2>2. receipt[j]["start"] = "completed"
    BY <2>1 DEF Kept
  <2>3. receipt[j]["commit"] = "completed"
    BY <2>2, Constants DEF Inv, Asked, Earned
  <2> QED BY <2>1, <2>3 DEF Kept
<1> QED BY <1>1, SpecInv, PTL

\* A call all through which the incumbent's row was fresh commits no fence
\* unless the operator overrides: _step_fence looks again right before it
\* posts.
THEOREM RevivedNotFencedHolds == Spec => RevivedNotFenced
<1> DEFINE A == fences' # fences => ~heard \/ EvidenceOf[call.job] = "operator"
<1>1. Inv /\ [Next]_vars => A
  <2> SUFFICES ASSUME Inv, [Next]_vars, fences' # fences, heard
               PROVE  EvidenceOf[J] = "operator"
    BY DEF J
  <2>1. RegistryStep
    <3>1. RegistryStep \/ fences' = fences
      BY DEF Next, Run, Plan, Execute, Abort, Gate, Save, Advance, Look, LocalStep, Dispatch,
        View, Hosted, Reporter, PostReceipt, Down, Write, StartByHand, Report, GoStale,
        LoseDependency, RegainDependency, Interrupt, registry, vars
    <3> QED BY <3>1
  <2>2. call.at = "step" /\ Label = "fence"
    BY <2>1 DEF RegistryStep, Doing, Post, Commit, registry
  <2>3. Step = "fence"
    BY <2>2, LabelIs DEF Inv
  <2>4. call.next = 2
    BY <2>2, <2>3, FenceScript DEF Inv
  <2> QED BY <2>2, <2>3, <2>4 DEF Inv, Heard
<1> HIDE DEF A
<1>2. Spec => [][A]_vars
  BY <1>1, SpecInv, PTL DEF Spec
<1> QED BY <1>2 DEF A, RevivedNotFenced
=============================================================================
