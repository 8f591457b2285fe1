---------------------------- MODULE WorkerProofs ----------------------------
(***************************************************************************)
(* What the worker of one host guarantees for every set of workloads,      *)
(* instances, captures and operations and every number of faults.  The     *)
(* inductive invariant says what a call may still rely on between two of   *)
(* its commits, while systemd and the guard go on without the lock.        *)
(***************************************************************************)
EXTENDS Worker, FiniteSetTheorems, TLAPS

Preparing == {"prepare", "adopt"}
Stopping == {"stop", "retire", "freeze"}
StartStages == {"issue-start", "wait-start", "look-start", "settle-start"}
StopStages == {"issue-stop", "wait-stop", "look-stop", "settle-stop"}
Receipts == [status : {"completed", "failed"}, phase : AppliedPhases]

\* A stage of a call finds the operation, the row and the receipt it needs.
CallOK ==
    /\ call.at \notin {"idle", "reconcile", "serve"} => call.cur \in Operations
    /\ At("render") => /\ ActionOf[call.cur] \in Preparing
                       /\ row[Target].phase = "preparing"
    /\ call.at \in StartStages => /\ ActionOf[call.cur] = "start"
                                  /\ row[Target].phase = "starting"
    /\ call.at \in StopStages => /\ ActionOf[call.cur] \in Stopping
                                 /\ row[Target].phase = "stopping"
    /\ At("finish") => call.out \in Receipts

\* A capture belongs to an instance that has a row.
CapturesOK ==
    \A c \in Captures : capture[c].status # "none" =>
        /\ capture[c].instance \in Instances
        /\ row[capture[c].instance].phase # "none"

Sound == TypeOK /\ CallOK /\ CapturesOK

-----------------------------------------------------------------------------
(* The effects a decision of the worker can have, on the row of its target *)
(* and on the call; the host and the operations stay.                      *)

\* The captured instance of a freeze is the newest of its workload.
HeldBy(o) == /\ capture[CaptureOf[o]] = [status |-> "held", instance |-> InstanceOf[o]]
             /\ GenerationCurrent(InstanceOf[o])

Dropped == call' = Idle /\ UNCHANGED <<row, known, capture>>

Replied ==
    /\ \E r \in Receipts :
          /\ Conclude(r.status, r.phase)
          /\ r.status = "completed" /\ ActionOf[call.cur] \in Stopping =>
                /\ ActionOf[call.cur] = "stop"
                /\ call.seen = "down" /\ row[Target].phase = "stopped"
    /\ UNCHANGED <<row, known, capture>>

RenderAgain ==
    /\ ActionOf[call.cur] \in Preparing /\ row[Target].phase = "preparing"
    /\ Goto("render")
    /\ UNCHANGED <<row, known, capture>>

Created ==
    /\ ActionOf[call.cur] \in Preparing /\ Unknown(Target)
    /\ GenOf[Target] > known[WorkloadOf[Target]]
    /\ OthersDrained /\ IndexAllows(Target, "preparing")
    /\ \E adopt \in BOOLEAN : row' = [row EXCEPT ![Target] =
          [NoRow EXCEPT !.phase = "preparing", !.adopted = adopt]]
    /\ RaiseGeneration(Target)
    /\ Goto("render")
    /\ UNCHANGED capture

Rendered ==
    /\ At("render")
    /\ SetPhase(Target, "prepared")
    /\ RaiseGeneration(Target)
    /\ Conclude("completed", "prepared")
    /\ UNCHANGED capture

PermitGranted ==
    /\ ActionOf[call.cur] = "start"
    /\ ~row[Target].retired /\ GenerationCurrent(Target) /\ ~Frozen(Target)
    /\ row[Target].phase \in {"prepared", "stopped"}
    /\ call.resumed => row[Target].phase = "prepared"
    /\ GrantPermit(Target)

\* A start finds its running instance down, or cannot tell.
Demoted ==
    /\ ActionOf[call.cur] = "start" /\ row[Target].phase = "running"
    /\ \/ SetPhase(Target, "unknown") /\ call' = Idle
       \/ SetPhase(Target, "stopped") /\ UNCHANGED call
    /\ UNCHANGED <<known, capture>>

StartSettled ==
    /\ ActionOf[call.cur] = "start"
    /\ row[Target].phase \in {"running", "unknown", "starting"}
    /\ \E p \in {"running", "stopped", "unknown"} : Settle(Target, p)
    /\ \/ call' = Idle
       \/ \E r \in Receipts : Conclude(r.status, r.phase)
    /\ UNCHANGED <<known, capture>>

StopSettled ==
    /\ ActionOf[call.cur] \in Stopping /\ call.seen = "down"
    /\ row[Target].phase \notin {"none", "preparing", "starting"}
    /\ ActionOf[call.cur] = "freeze" => HeldBy(call.cur)
    /\ Settle(Target, "stopped") /\ Conclude("completed", "stopped")
    /\ UNCHANGED <<known, capture>>

StopBegun ==
    /\ ActionOf[call.cur] \in Stopping
    /\ row[Target].phase # "none"
    /\ \E retired \in BOOLEAN :
          /\ row[Target].retired => retired
          /\ row' = [row EXCEPT ![Target] = [@ EXCEPT !.phase = "stopping",
                        !.permit = FALSE, !.retired = retired]]
    /\ Goto("issue-stop")
    /\ \/ UNCHANGED capture /\ (ActionOf[call.cur] = "freeze" => HeldBy(call.cur))
       \/ /\ ActionOf[call.cur] = "freeze" /\ GenerationCurrent(Target)
          /\ capture[CaptureOf[call.cur]].status = "none"
          /\ capture' = [capture EXCEPT ![CaptureOf[call.cur]] =
                           [status |-> "held", instance |-> Target]]
    /\ UNCHANGED known

Released ==
    /\ ActionOf[call.cur] = "thaw"
    /\ capture[CaptureOf[call.cur]] = [status |-> "held", instance |-> Target]
    /\ capture' = [capture EXCEPT ![CaptureOf[call.cur]].status = "released"]
    /\ Conclude("completed", "stopped")
    /\ UNCHANGED <<row, known>>

Effect == \/ Dropped \/ Replied \/ RenderAgain \/ Created \/ Rendered
          \/ PermitGranted \/ Demoted \/ StartSettled \/ StopSettled
          \/ StopBegun \/ Released

\* Whatever the request, the state of the row and the look, one decision has
\* one of these effects (the actions of _run and _resume).
LEMMA ActEffects ==
    ASSUME TypeOK, CallOK, CapturesOK, Act
    PROVE  /\ call.at \in {"act", "render"} /\ call.cur \in Operations
           /\ ActionOf[call.cur] = "freeze" \/ ActionOf[call.cur] = "thaw"
                => CaptureOf[call.cur] \in Captures
           /\ ~At("render") \/ Rendered \/ Replied
           /\ Effect
           /\ UNCHANGED <<ops, host, faults>>
<1> USE RequestAssumption
<1> DEFINE i == Target
<1>1. /\ call.at \in {"act", "render"} /\ call.cur \in Operations
      /\ UNCHANGED <<ops, host, faults>>
      /\ i \in Instances /\ row[i] \in Rows /\ call \in Calls
  BY DEF Act, Prepare, Render, Start, ResumeStart, Stop, ResumeStop, Retire,
         Freeze, Thaw, At, CallOK, Target, TypeOK
<1>2. ActionOf[call.cur] \in {"freeze", "thaw"} => CaptureOf[call.cur] \in Captures
  BY <1>1
<1>3. \A s \in {"completed", "failed"}, p \in AppliedPhases :
         [status |-> s, phase |-> p] \in Receipts
  BY DEF Receipts
<1>4. Refuse => Replied
  <2>1. [status |-> "failed", phase |-> "unchanged"] \in Receipts
    BY <1>3 DEF AppliedPhases
  <2> QED BY <2>1 DEF Refuse, Replied
<1>5. Uncertain => Dropped
  BY DEF Uncertain, Dropped
<1>15. ASSUME NEW retire \in BOOLEAN, BeginStop(i, retire), row[i].phase # "none",
              ActionOf[call.cur] \in Stopping,
              ActionOf[call.cur] = "freeze" => HeldBy(call.cur)
       PROVE  Effect
  <2>1. (row[i].retired \/ retire) \in BOOLEAN
    OBVIOUS
  <2>2. CASE Uncertain
    BY <2>2, <1>5 DEF Effect
  <2>3. CASE /\ row' = [row EXCEPT ![i] = [@ EXCEPT !.phase = "stopping",
                           !.permit = FALSE, !.retired = row[i].retired \/ retire]]
             /\ Goto("issue-stop") /\ UNCHANGED <<known, capture>>
    BY <1>15, <2>1, <2>3 DEF StopBegun, Effect
  <2> QED BY <1>15, <2>2, <2>3 DEF BeginStop
<1>6. ASSUME Prepare PROVE Effect
  <2> DEFINE adopt == ActionOf[call.cur] = "adopt"
  <2>1. ActionOf[call.cur] \in Preparing
    BY <1>6 DEF Prepare, Asks, Preparing
  <2>2. CASE Refuse
    BY <2>2, <1>4 DEF Effect
  <2>3. CASE /\ Unknown(i) /\ GenOf[i] > known[WorkloadOf[i]]
             /\ OthersDrained /\ IndexAllows(i, "preparing")
             /\ row' = [row EXCEPT ![i] =
                           [NoRow EXCEPT !.phase = "preparing", !.adopted = adopt]]
             /\ RaiseGeneration(i) /\ Goto("render") /\ UNCHANGED capture
    <3>1. adopt \in BOOLEAN
      OBVIOUS
    <3>2. Created
      BY <2>1, <2>3, <3>1 DEF Created
    <3> QED BY <3>2 DEF Effect
  <2>4. CASE /\ row[i].phase = "prepared"
             /\ Conclude("completed", "prepared") /\ UNCHANGED <<row, known, capture>>
    <3>1. [status |-> "completed", phase |-> "prepared"] \in Receipts
      BY <1>3 DEF AppliedPhases, Phases
    <3>2. Replied
      BY <2>1, <2>4, <3>1 DEF Replied, Preparing, Stopping
    <3> QED BY <3>2 DEF Effect
  <2>5. CASE /\ row[i].phase = "preparing"
             /\ Goto("render") /\ UNCHANGED <<row, known, capture>>
    BY <2>1, <2>5 DEF RenderAgain, Effect
  <2> QED BY <1>6, <2>2, <2>3, <2>4, <2>5 DEF Prepare
<1>7. ASSUME Render PROVE Rendered \/ Replied
  BY <1>7, <1>4 DEF Render, Rendered
<1>8. ASSUME StartBody(i), Asks({"start"}),
             call.resumed => row[i].phase = "prepared"
      PROVE Effect
  <2>1. ActionOf[call.cur] = "start"
    BY <1>8 DEF Asks
  <2>2. CASE Refuse \/ Uncertain
    BY <2>2, <1>4, <1>5 DEF Effect
  <2>3. CASE Conclude("completed", "running") /\ UNCHANGED <<row, known, capture>>
    <3>1. [status |-> "completed", phase |-> "running"] \in Receipts
      BY <1>3 DEF AppliedPhases, Phases
    <3>2. Replied
      BY <2>1, <2>3, <3>1 DEF Replied, Stopping
    <3> QED BY <3>2 DEF Effect
  <2>4. CASE /\ row[i].phase = "running" /\ UNCHANGED <<known, capture>>
             /\ \/ SetPhase(i, "unknown") /\ call' = Idle
                \/ SetPhase(i, "stopped") /\ UNCHANGED call
    BY <2>1, <2>4 DEF Demoted, Effect
  <2>5. CASE /\ ~row[i].retired /\ GenerationCurrent(i) /\ ~Frozen(i)
             /\ row[i].phase \in {"prepared", "stopped"} /\ GrantPermit(i)
    BY <1>8, <2>1, <2>5 DEF PermitGranted, Effect
  <2> QED BY <1>8, <2>2, <2>3, <2>4, <2>5 DEF StartBody
<1>9. ASSUME ResumeStart PROVE Effect
  <2> DEFINE view == call.seen
             phase == row[i].phase
  <2>1. ActionOf[call.cur] = "start" /\ Asks({"start"})
    BY <1>9 DEF ResumeStart, Asks
  <2>2. CASE Refuse
    BY <2>2, <1>4 DEF Effect
  <2>3. CASE phase = "prepared" /\ StartBody(i)
    BY <2>3, <2>1, <1>8
  <2>4. CASE Conclude("failed", "stopped") /\ UNCHANGED <<row, known, capture>>
    <3>1. [status |-> "failed", phase |-> "stopped"] \in Receipts
      BY <1>3 DEF AppliedPhases, Phases
    <3>2. Replied
      BY <2>4, <3>1 DEF Replied
    <3> QED BY <3>2 DEF Effect
  <2>5. CASE /\ phase \in {"running", "unknown", "starting"}
             /\ StartedIt(i) \/ StartFailed(i) \/ StartUnclear(i)
             /\ UNCHANGED <<known, capture>>
    <3>1. /\ [status |-> "completed", phase |-> "running"] \in Receipts
          /\ [status |-> "failed", phase |-> "stopped"] \in Receipts
      BY <1>3 DEF AppliedPhases, Phases
    <3>2. StartSettled
      BY <2>1, <2>5, <3>1 DEF StartSettled, StartedIt, StartFailed, StartUnclear
    <3> QED BY <3>2 DEF Effect
  <2>6. CASE call' = Idle /\ UNCHANGED <<row, known, capture>>
    BY <2>6 DEF Dropped, Effect
  <2> QED BY <1>9, <2>2, <2>3, <2>4, <2>5, <2>6 DEF ResumeStart
<1>10. ASSUME Stop PROVE Effect
  <2>1. ActionOf[call.cur] = "stop"
    BY <1>10 DEF Stop, Asks
  <2>2. CASE Refuse
    BY <2>2, <1>4 DEF Effect
  <2>3. CASE /\ row[i].phase = "stopped" /\ call.seen = "down"
             /\ Conclude("completed", "stopped") /\ UNCHANGED <<row, known, capture>>
    <3>1. [status |-> "completed", phase |-> "stopped"] \in Receipts
      BY <1>3 DEF AppliedPhases, Phases
    <3>2. Replied
      BY <2>1, <2>3, <3>1 DEF Replied
    <3> QED BY <3>2 DEF Effect
  <2>4. CASE row[i].phase # "none" /\ BeginStop(i, FALSE)
    BY <2>1, <2>4, <1>15 DEF Stopping
  <2> QED BY <1>10, <2>2, <2>3, <2>4 DEF Stop
<1>11. ASSUME StopAgain(i), ActionOf[call.cur] \in Stopping,
              ActionOf[call.cur] = "freeze" => HeldBy(call.cur)
       PROVE  Effect
  <2>1. CASE Refuse \/ Uncertain
    BY <2>1, <1>4, <1>5 DEF Effect
  <2>2. CASE /\ row[i].phase \notin {"none", "preparing", "starting"}
             /\ call.seen = "down"
             /\ Settle(i, "stopped") /\ Conclude("completed", "stopped")
             /\ UNCHANGED <<known, capture>>
    BY <1>11, <2>2 DEF StopSettled, Effect
  <2>3. CASE row[i].phase # "none" /\ BeginStop(i, FALSE)
    BY <1>11, <2>3, <1>15
  <2> QED BY <1>11, <2>1, <2>2, <2>3 DEF StopAgain
<1>12. ASSUME Retire PROVE Effect
  <2>1. ActionOf[call.cur] = "retire"
    BY <1>12 DEF Retire, Asks
  <2>2. CASE StopAgain(i)
    BY <2>1, <2>2, <1>11 DEF Stopping
  <2>3. CASE Refuse
    BY <2>3, <1>4 DEF Effect
  <2>4. CASE ~Unknown(i) /\ BeginStop(i, TRUE)
    BY <2>1, <2>4, <1>15 DEF Unknown, Stopping
  <2> QED BY <1>12, <2>2, <2>3, <2>4 DEF Retire
<1>13. ASSUME Freeze PROVE Effect
  <2> DEFINE c == CaptureOf[call.cur]
  <2>1. ActionOf[call.cur] = "freeze"
    BY <1>13 DEF Freeze, Asks
  <2>2. CASE Refuse \/ Uncertain
    BY <2>2, <1>4, <1>5 DEF Effect
  <2>3. CASE /\ GenerationCurrent(i)
             /\ capture[c] = [status |-> "held", instance |-> i]
             /\ StopAgain(i)
    BY <2>1, <2>3, <1>11 DEF Stopping, HeldBy, Target
  <2>4. CASE /\ ~Unknown(i) /\ GenerationCurrent(i) /\ capture[c].status = "none"
             /\ capture' = [capture EXCEPT ![c] = [status |-> "held", instance |-> i]]
             /\ Settle(i, "stopping") /\ Goto("issue-stop") /\ UNCHANGED known
    <3>1. row[i].retired \in BOOLEAN
      BY <1>1 DEF Rows
    <3>2. [row[i] EXCEPT !.phase = "stopping", !.permit = FALSE] =
          [row[i] EXCEPT !.phase = "stopping", !.permit = FALSE,
                         !.retired = row[i].retired]
      BY <1>1 DEF Rows
    <3>3. row' = [row EXCEPT ![i] = [@ EXCEPT !.phase = "stopping",
                        !.permit = FALSE, !.retired = row[i].retired]]
      BY <2>4, <3>2 DEF Settle
    <3>4. StopBegun
      BY <2>1, <2>4, <3>1, <3>3 DEF StopBegun, Stopping, Unknown
    <3> QED BY <3>4 DEF Effect
  <2> QED BY <1>13, <2>2, <2>3, <2>4 DEF Freeze
<1>14. ASSUME Thaw PROVE Effect
  <2> DEFINE c == CaptureOf[call.cur]
  <2>1. ActionOf[call.cur] = "thaw"
    BY <1>14 DEF Thaw, Asks
  <2>2. CASE Refuse \/ Uncertain
    BY <2>2, <1>4, <1>5 DEF Effect
  <2>3. CASE /\ capture[c] = [status |-> "released", instance |-> i]
             /\ Conclude("completed", row[i].phase)
             /\ UNCHANGED <<row, known, capture>>
    <3>1. row[i].phase \in AppliedPhases
      BY <1>1, <1>2, <2>1, <2>3 DEF CapturesOK, Rows, AppliedPhases
    <3>2. [status |-> "completed", phase |-> row[i].phase] \in Receipts
      BY <1>3, <3>1
    <3>3. Replied
      BY <2>1, <2>3, <3>2 DEF Replied, Stopping
    <3> QED BY <3>3 DEF Effect
  <2>4. CASE /\ capture[c] = [status |-> "held", instance |-> i]
             /\ capture' = [capture EXCEPT ![c].status = "released"]
             /\ Conclude("completed", "stopped") /\ UNCHANGED <<row, known>>
    BY <2>1, <2>4 DEF Released, Effect
  <2> QED BY <1>14, <2>2, <2>3, <2>4 DEF Thaw
<1>16. Start => Effect
  BY <1>8 DEF Start, Asks
<1>17. ResumeStop => Effect
  BY <1>11 DEF ResumeStop, Asks, Stopping
<1>18. Effect
  BY <1>6, <1>7, <1>9, <1>10, <1>12, <1>13, <1>14, <1>16, <1>17 DEF Act, Effect
<1>19. ~At("render") \/ Rendered \/ Replied
  BY <1>7 DEF Act, Prepare, Start, ResumeStart, Stop, ResumeStop, Retire,
              Freeze, Thaw, At
<1> QED BY <1>1, <1>2, <1>18, <1>19

-----------------------------------------------------------------------------
(* What the primitives of the code leave in the call and in the row.       *)

LEMMA Going ==
    ASSUME call \in Calls, NEW stage \in Stages, Goto(stage)
    PROVE  /\ call' \in Calls
           /\ call'.at = stage /\ call'.cur = call.cur /\ call'.op = call.op
           /\ call'.resumed = call.resumed /\ call'.seen = call.seen
           /\ call'.out = call.out
BY DEF Goto, Calls

LEMMA Concluding ==
    ASSUME call \in Calls, NEW r \in Receipts, Conclude(r.status, r.phase)
    PROVE  /\ call' \in Calls
           /\ call'.at = "finish" /\ call'.cur = call.cur /\ call'.op = call.op
           /\ call'.out = r
<1>1. [status |-> r.status, phase |-> r.phase] = r /\ r \in Journal
  BY DEF Receipts, Journal
<1> QED BY <1>1 DEF Conclude, Calls, Stages

LEMMA Idling == Idle \in Calls /\ Idle.at = "idle" /\ Idle.cur = None
BY DEF Idle, Calls, Stages

\* A row is written as a whole, the others keep theirs.
LEMMA RowWritten ==
    ASSUME row \in [Instances -> Rows], NEW i \in Instances, NEW r \in Rows,
           row' = [row EXCEPT ![i] = r]
    PROVE  /\ row' \in [Instances -> Rows] /\ row'[i] = r
           /\ \A j \in Instances \ {i} : row'[j] = row[j]
OBVIOUS

LEMMA Phased ==
    ASSUME row \in [Instances -> Rows], NEW i \in Instances,
           NEW phase \in Phases, SetPhase(i, phase)
    PROVE  /\ row' \in [Instances -> Rows]
           /\ row'[i].phase = phase /\ row'[i].permit = row[i].permit
           /\ row'[i].retired = row[i].retired
           /\ \A j \in Instances \ {i} : row'[j] = row[j]
BY DEF SetPhase, Rows

LEMMA Settling ==
    ASSUME row \in [Instances -> Rows], NEW i \in Instances,
           NEW phase \in Phases, Settle(i, phase)
    PROVE  /\ row' \in [Instances -> Rows]
           /\ row'[i].phase = phase /\ row'[i].permit = FALSE
           /\ row'[i].retired = row[i].retired
           /\ \A j \in Instances \ {i} : row'[j] = row[j]
BY DEF Settle, Rows

LEMMA Marking ==
    ASSUME row \in [Instances -> Rows], NEW i \in Instances, NEW retired \in BOOLEAN,
           row' = [row EXCEPT ![i] = [@ EXCEPT !.phase = "stopping",
                        !.permit = FALSE, !.retired = retired]]
    PROVE  /\ row' \in [Instances -> Rows]
           /\ row'[i].phase = "stopping" /\ row'[i].permit = FALSE
           /\ row'[i].retired = retired
           /\ \A j \in Instances \ {i} : row'[j] = row[j]
<1> DEFINE r == [row[i] EXCEPT !.phase = "stopping", !.permit = FALSE,
                               !.retired = retired]
<1>1. /\ r \in Rows /\ r.phase = "stopping" /\ r.permit = FALSE
      /\ r.retired = retired
  BY DEF Rows, Phases
<1>2. row' = [row EXCEPT ![i] = r]
  OBVIOUS
<1> HIDE DEF r
<1> QED BY <1>1, <1>2

LEMMA Granting ==
    ASSUME row \in [Instances -> Rows], call \in Calls, NEW i \in Instances,
           GrantPermit(i)
    PROVE  /\ row' \in [Instances -> Rows]
           /\ row'[i].phase = "starting" /\ row'[i].permit = TRUE
           /\ row'[i].retired = row[i].retired
           /\ \A j \in Instances \ {i} : row'[j] = row[j]
           /\ call' \in Calls /\ call'.at = "issue-start" /\ call'.cur = call.cur
           /\ call'.op = call.op
<1> DEFINE r == [row[i] EXCEPT !.phase = "starting", !.permit = TRUE, !.live = TRUE]
<1>1. /\ r \in Rows /\ r.phase = "starting" /\ r.permit = TRUE
      /\ r.retired = row[i].retired
  BY DEF Rows, Phases
<1>2. row' = [row EXCEPT ![i] = r]
  BY DEF GrantPermit
<1>3. /\ call' \in Calls /\ call'.at = "issue-start" /\ call'.cur = call.cur
      /\ call'.op = call.op
  BY DEF GrantPermit, Goto, Calls, Stages
<1> HIDE DEF r
<1> QED BY <1>1, <1>2, <1>3

LEMMA Raising ==
    ASSUME known \in [Workloads -> Nat], NEW i \in Instances, RaiseGeneration(i)
    PROVE  /\ known' \in [Workloads -> Nat]
           /\ \A w \in Workloads : known'[w] >= known[w]
           /\ \A w \in Workloads \ {WorkloadOf[i]} : known'[w] = known[w]
           /\ known'[WorkloadOf[i]] >= GenOf[i]
           /\ known'[WorkloadOf[i]] \in {known[WorkloadOf[i]], GenOf[i]}
BY RequestAssumption DEF RaiseGeneration

\* What _reconcile can make of a row: it ends a start or a stop, and it never
\* begins one.
LEMMA Reconciling ==
    ASSUME NEW r \in Rows, NEW view
    PROVE  /\ Reconciled(r, view) \in Rows
           /\ Reconciled(r, view).retired = r.retired
           /\ \/ Reconciled(r, view) = r
              \/ /\ r.phase \in Reconcilable
                 /\ Reconciled(r, view).phase \in {"running", "stopped", "unknown"}
                 /\ Reconciled(r, view).permit =>
                       r.permit /\ r.phase # "starting"
BY DEF Reconciled, Rows, Phases, Reconcilable, DrainedOf, Views

-----------------------------------------------------------------------------
(* The stages of a call and the types of the tables are preserved.         *)

LEMMA ActSound ==
    ASSUME Sound, Act
    PROVE  Sound'
<1> USE RequestAssumption
<1> DEFINE i == Target
           c == CaptureOf[call.cur]
<1>1. TypeOK /\ CallOK /\ CapturesOK
  BY DEF Sound
<1>2. /\ call.at \in {"act", "render"} /\ call.cur \in Operations
      /\ ActionOf[call.cur] \in {"freeze", "thaw"} => c \in Captures
      /\ Effect
      /\ UNCHANGED <<ops, host, faults>>
  BY <1>1, ActEffects
<1>3. /\ i \in Instances /\ row \in [Instances -> Rows] /\ call \in Calls
      /\ known \in [Workloads -> Nat] /\ capture \in [Captures -> CaptureRows]
  BY <1>1, <1>2 DEF Target, TypeOK
<1>4. /\ "prepared" \in Phases /\ "running" \in Phases /\ "stopped" \in Phases
      /\ "unknown" \in Phases /\ "stopping" \in Phases
      /\ [status |-> "completed", phase |-> "prepared"] \in Receipts
      /\ [status |-> "completed", phase |-> "stopped"] \in Receipts
  BY DEF Phases, Receipts, AppliedPhases
<1>5. SUFFICES /\ row' \in [Instances -> Rows] /\ call' \in Calls
               /\ known' \in [Workloads -> Nat]
               /\ capture' \in [Captures -> CaptureRows]
               /\ CallOK' /\ CapturesOK'
  BY <1>1, <1>2 DEF Sound, TypeOK, host
<1>6. CASE Dropped
  BY <1>1, <1>3, <1>6, Idling DEF Dropped, CallOK, CapturesOK, At, StartStages, StopStages
<1>7. CASE Replied
  <2>1. PICK r \in Receipts : Conclude(r.status, r.phase)
    BY <1>7 DEF Replied
  <2>2. call' \in Calls /\ call'.at = "finish" /\ call'.cur = call.cur /\ call'.out = r
    BY <2>1, <1>3, Concluding
  <2> QED
    BY <1>1, <1>2, <1>3, <1>7, <2>2
       DEF Replied, CallOK, CapturesOK, At, StartStages, StopStages
<1>8. CASE RenderAgain
  <2>1. call' \in Calls /\ call'.at = "render" /\ call'.cur = call.cur
    BY <1>8, <1>3, Going DEF RenderAgain, Stages
  <2> QED
    BY <1>1, <1>2, <1>3, <1>8, <2>1
       DEF RenderAgain, CallOK, CapturesOK, At, StartStages, StopStages, Target
<1>9. CASE Created
  <2>1. call' \in Calls /\ call'.at = "render" /\ call'.cur = call.cur
    BY <1>9, <1>3, Going DEF Created, Stages
  <2>2. PICK adopt \in BOOLEAN : row' = [row EXCEPT ![i] =
           [NoRow EXCEPT !.phase = "preparing", !.adopted = adopt]]
    BY <1>9 DEF Created
  <2>3. /\ row' \in [Instances -> Rows] /\ row'[i].phase = "preparing"
        /\ \A j \in Instances \ {i} : row'[j] = row[j]
    BY <1>3, <2>2 DEF NoRow, Rows, Phases
  <2>4. known' \in [Workloads -> Nat]
    BY <1>9, <1>3, Raising DEF Created
  <2> QED
    BY <1>1, <1>2, <1>3, <1>9, <2>1, <2>3, <2>4
       DEF Created, CallOK, CapturesOK, At, StartStages, StopStages, Target, CaptureRows
<1>10. CASE Rendered
  <2>1. call' \in Calls /\ call'.at = "finish" /\ call'.cur = call.cur /\ call'.out \in Receipts
    BY <1>10, <1>3, <1>4, Concluding DEF Rendered
  <2>2. /\ row' \in [Instances -> Rows] /\ row'[i].phase = "prepared"
        /\ \A j \in Instances \ {i} : row'[j] = row[j]
    BY <1>10, <1>3, <1>4, Phased DEF Rendered
  <2>3. known' \in [Workloads -> Nat]
    BY <1>10, <1>3, Raising DEF Rendered
  <2> QED
    BY <1>1, <1>2, <1>3, <1>10, <2>1, <2>2, <2>3
       DEF Rendered, CallOK, CapturesOK, At, StartStages, StopStages, CaptureRows
<1>11. CASE PermitGranted
  <2>1. /\ call' \in Calls /\ call'.at = "issue-start" /\ call'.cur = call.cur
        /\ row' \in [Instances -> Rows] /\ row'[i].phase = "starting"
        /\ \A j \in Instances \ {i} : row'[j] = row[j]
        /\ UNCHANGED <<known, capture>>
    BY <1>11, <1>3, Granting DEF PermitGranted, GrantPermit
  <2> QED
    BY <1>1, <1>2, <1>3, <1>11, <2>1
       DEF PermitGranted, CallOK, CapturesOK, At, StartStages, StopStages, Target, CaptureRows
<1>12. CASE Demoted
  <2>1. /\ row' \in [Instances -> Rows] /\ row'[i].phase # "none"
        /\ \A j \in Instances \ {i} : row'[j] = row[j]
    BY <1>12, <1>3, <1>4, Phased DEF Demoted
  <2>2. CASE call' = Idle
    BY <1>1, <1>3, <1>12, <2>1, <2>2, Idling
       DEF Demoted, CallOK, CapturesOK, At, StartStages, StopStages, CaptureRows
  <2>3. CASE UNCHANGED call /\ call.at = "act"
    BY <1>1, <1>2, <1>3, <1>12, <2>1, <2>3
       DEF Demoted, CallOK, CapturesOK, At, StartStages, StopStages, CaptureRows
  <2>4. call.at = "act"
    BY <1>1, <1>2, <1>12 DEF CallOK, At, Demoted, Preparing
  <2> QED BY <1>12, <2>2, <2>3, <2>4 DEF Demoted
<1>13. CASE StartSettled
  <2>1. PICK p \in {"running", "stopped", "unknown"} : Settle(i, p)
    BY <1>13 DEF StartSettled
  <2>2. /\ row' \in [Instances -> Rows] /\ row'[i].phase # "none"
        /\ \A j \in Instances \ {i} : row'[j] = row[j]
    BY <1>3, <1>4, <2>1, Settling
  <2>3. CASE call' = Idle
    BY <1>1, <1>3, <1>13, <2>2, <2>3, Idling
       DEF StartSettled, CallOK, CapturesOK, At, StartStages, StopStages, CaptureRows
  <2>4. ASSUME NEW r \in Receipts, Conclude(r.status, r.phase)
        PROVE  /\ call' \in Calls /\ call'.at = "finish" /\ call'.cur = call.cur
               /\ call'.out = r
    BY <1>3, <2>4, Concluding
  <2>5. CASE \E r \in Receipts : Conclude(r.status, r.phase)
    BY <1>1, <1>2, <1>3, <1>13, <2>2, <2>4, <2>5
       DEF StartSettled, CallOK, CapturesOK, At, StartStages, StopStages, CaptureRows
  <2> QED BY <1>13, <2>3, <2>5 DEF StartSettled
<1>14. CASE StopSettled
  <2>1. /\ row' \in [Instances -> Rows] /\ row'[i].phase # "none"
        /\ \A j \in Instances \ {i} : row'[j] = row[j]
    BY <1>14, <1>3, <1>4, Settling DEF StopSettled
  <2>2. call' \in Calls /\ call'.at = "finish" /\ call'.cur = call.cur /\ call'.out \in Receipts
    BY <1>14, <1>3, <1>4, Concluding DEF StopSettled
  <2> QED
    BY <1>1, <1>2, <1>3, <1>14, <2>1, <2>2
       DEF StopSettled, CallOK, CapturesOK, At, StartStages, StopStages, CaptureRows
<1>15. CASE StopBegun
  <2>1. call' \in Calls /\ call'.at = "issue-stop" /\ call'.cur = call.cur
    BY <1>15, <1>3, Going DEF StopBegun, Stages
  <2>2. /\ row' \in [Instances -> Rows] /\ row'[i].phase = "stopping"
        /\ \A j \in Instances \ {i} : row'[j] = row[j]
    BY <1>15, <1>3, Marking DEF StopBegun
  <2>3. CallOK' /\ known' \in [Workloads -> Nat]
    BY <1>2, <1>3, <1>15, <2>1, <2>2
       DEF StopBegun, CallOK, At, StartStages, StopStages, Target
  <2>4. CASE UNCHANGED capture
    BY <1>1, <1>3, <2>1, <2>2, <2>3, <2>4 DEF CapturesOK, CaptureRows
  <2>5. CASE /\ c \in Captures
             /\ capture' = [capture EXCEPT ![c] = [status |-> "held", instance |-> i]]
    <3>1. [status |-> "held", instance |-> i] \in CaptureRows
      BY <1>3 DEF CaptureRows
    <3>2. capture' \in [Captures -> CaptureRows]
      BY <1>3, <2>5, <3>1
    <3>3. CapturesOK'
      BY <1>1, <1>3, <2>2, <2>5 DEF CapturesOK
    <3> QED BY <2>1, <2>2, <2>3, <3>2, <3>3
  <2> QED BY <1>2, <1>15, <2>4, <2>5 DEF StopBegun
<1>16. CASE Released
  <2>1. call' \in Calls /\ call'.at = "finish" /\ call'.cur = call.cur /\ call'.out \in Receipts
    BY <1>16, <1>3, <1>4, Concluding DEF Released
  <2>2. c \in Captures
    BY <1>2, <1>16 DEF Released
  <2>3. capture' \in [Captures -> CaptureRows]
    BY <1>3, <1>16, <2>2 DEF Released, CaptureRows
  <2>4. CapturesOK'
    BY <1>1, <1>3, <1>16, <2>2 DEF Released, CapturesOK, CaptureRows
  <2> QED
    BY <1>1, <1>2, <1>3, <1>16, <2>1, <2>3, <2>4
       DEF Released, CallOK, At, StartStages, StopStages
<1> QED
  BY <1>2, <1>6, <1>7, <1>8, <1>9, <1>10, <1>11, <1>12, <1>13, <1>14, <1>15, <1>16
     DEF Effect

\* systemd, the guard and the clock leave the call and the phases alone.
HostStep == \E i \in Instances : Systemd(i) \/ Exits(i) \/ Expire(i) \/ StrayStart(i)

LEMMA HostSteps ==
    ASSUME TypeOK, HostStep
    PROVE  /\ UNCHANGED <<known, capture, ops, call>>
           /\ row' \in [Instances -> Rows] /\ unit' \in [Instances -> UnitStates]
           /\ activations' \in [Instances -> Nat] /\ faults' \in Nat
           /\ \A j \in Instances :
                 /\ row'[j].phase = row[j].phase /\ row'[j].retired = row[j].retired
                 /\ row'[j].permit => row[j].permit
                 /\ unit'[j] \in Alive => \/ unit[j] \in Alive
                                          \/ unit[j] = "condition" /\ Consumable(j)
<1> USE DEF TypeOK
<1>1. PICK i \in Instances : Systemd(i) \/ Exits(i) \/ Expire(i) \/ StrayStart(i)
  BY DEF HostStep
<1>2. CASE GuardRead(i)
  BY <1>2 DEF GuardRead, tables, UnitStates, Alive
<1>3. CASE GuardConsume(i)
  <2>1. CASE Consumable(i)
    <3>1. /\ row' = [row EXCEPT ![i].permit = FALSE]
          /\ unit' = [unit EXCEPT ![i] = "activating"]
          /\ activations' = [activations EXCEPT ![i] = @ + 1]
          /\ UNCHANGED <<known, capture, ops, call, faults>>
      BY <1>3, <2>1 DEF GuardConsume
    <3>2. unit[i] = "condition"
      BY <1>3 DEF GuardConsume
    <3>3. /\ row' \in [Instances -> Rows]
          /\ \A j \in Instances :
                /\ row'[j].phase = row[j].phase /\ row'[j].retired = row[j].retired
                /\ row'[j].permit => row[j].permit
      BY <3>1 DEF Rows
    <3>4. /\ unit' \in [Instances -> UnitStates]
          /\ \A j \in Instances \ {i} : unit'[j] = unit[j]
      BY <3>1 DEF UnitStates
    <3>5. activations' \in [Instances -> Nat] /\ faults' \in Nat
      BY <3>1
    <3> QED BY <3>1, <3>2, <3>3, <3>4, <3>5, <2>1
  <2>2. CASE ~Consumable(i)
    BY <1>3, <2>2 DEF GuardConsume, UnitStates, Alive
  <2> QED BY <2>1, <2>2
<1>4. ASSUME NEW before \in SUBSET UnitStates, NEW after \in SUBSET UnitStates,
             Becomes(i, before, after),
             "activating" \in after \/ "active" \in after \/ "deactivating" \in after
                \/ "lingering" \in after => before \subseteq Alive
      PROVE  /\ UNCHANGED <<tables, call, activations, faults>>
             /\ unit' \in [Instances -> UnitStates]
             /\ \A j \in Instances : unit'[j] \in Alive => unit[j] \in Alive
  BY <1>4 DEF Becomes, Alive
<1>5. CASE Started(i) \/ Exits(i) \/ Stopped(i) \/ Drains(i)
  <2>1. /\ UNCHANGED <<tables, call, activations, faults>>
        /\ unit' \in [Instances -> UnitStates]
        /\ \A j \in Instances : unit'[j] \in Alive => unit[j] \in Alive
    BY <1>4, <1>5 DEF Started, Exits, Stopped, Drains, UnitStates, Alive
  <2> QED BY <2>1 DEF tables
<1>6. CASE Expire(i)
  BY <1>6 DEF Expire, host, Rows
<1>7. CASE StrayStart(i)
  BY <1>7, RequestAssumption DEF StrayStart, Fault, tables, UnitStates, Alive
<1> QED BY <1>1, <1>2, <1>3, <1>5, <1>6, <1>7 DEF Systemd

LEMMA Rebooting ==
    ASSUME row \in [Instances -> Rows], Reboot
    PROVE  /\ row' \in [Instances -> Rows]
           /\ \A j \in Instances :
                 /\ row'[j].phase = row[j].phase /\ row'[j].permit = row[j].permit
                 /\ row'[j].retired = row[j].retired
<1>1. ASSUME NEW r \in Rows
      PROVE  /\ [r EXCEPT !.live = FALSE] \in Rows
             /\ [r EXCEPT !.live = FALSE].phase = r.phase
             /\ [r EXCEPT !.live = FALSE].permit = r.permit
             /\ [r EXCEPT !.live = FALSE].retired = r.retired
  BY DEF Rows
<1>2. row' = [j \in Instances |-> [row[j] EXCEPT !.live = FALSE]]
  BY DEF Reboot
<1> QED BY <1>1, <1>2

LEMMA SoundInduction ==
    ASSUME Sound, [Next]_vars
    PROVE  Sound'
<1> USE RequestAssumption
<1>1. TypeOK /\ CallOK /\ CapturesOK
  BY DEF Sound
<1>2. /\ row \in [Instances -> Rows] /\ call \in Calls
      /\ ops \in [Operations -> Journal] /\ unit \in [Instances -> UnitStates]
      /\ faults \in Nat
  BY <1>1 DEF TypeOK
<1>3. CASE UNCHANGED vars
  BY <1>1, <1>3 DEF vars, Sound, TypeOK, CallOK, CapturesOK, At, Target
<1>4. ASSUME NEW o \in Operations \cup {None}, Submit(o) PROVE Sound'
  <2>1. call' \in Calls /\ call'.at = "reconcile"
    BY <1>2, <1>4 DEF Submit, Idle, Calls, Stages
  <2>2. UNCHANGED <<row, known, capture, ops, unit, activations, faults>>
    BY <1>4 DEF Submit, tables, host
  <2> QED BY <1>1, <2>1, <2>2 DEF Sound, TypeOK, CallOK, CapturesOK, At, StartStages, StopStages
<1>5. ASSUME NEW i \in Instances, ReconcileLook(i) PROVE Sound'
  <2>1. PICK view \in Views : Look(i, view) /\ call' = [call EXCEPT !.who = i, !.seen = view]
    BY <1>5 DEF ReconcileLook
  <2>2. call' \in Calls /\ call'.at = "reconcile"
    BY <1>2, <1>5, <2>1 DEF ReconcileLook, At, Calls
  <2>3. faults' \in Nat
    BY <1>2, <2>1 DEF Look
  <2>4. UNCHANGED <<row, known, capture, ops, unit, activations>>
    BY <1>5 DEF ReconcileLook, tables, host
  <2> QED BY <1>1, <2>2, <2>3, <2>4 DEF Sound, TypeOK, CallOK, CapturesOK, At, StartStages, StopStages
<1>6. CASE ReconcileApply
  <2>1. call.who \in Instances /\ call.at = "reconcile"
    BY <1>2, <1>6 DEF ReconcileApply, Calls, At
  <2>2. call' \in Calls /\ call'.at = "reconcile"
    BY <1>2, <1>6 DEF ReconcileApply, Calls, At
  <2>3. /\ row' \in [Instances -> Rows]
        /\ \A j \in Instances : row[j].phase # "none" => row'[j].phase # "none"
    BY <1>1, <1>2, <1>6, <2>1, Reconciling DEF ReconcileApply
  <2> QED BY <1>1, <1>6, <2>2, <2>3
     DEF ReconcileApply, Sound, TypeOK, CallOK, CapturesOK, At, StartStages, StopStages, host, CaptureRows
<1>7. CASE Answer
  BY <1>1, <1>7, Idling
     DEF Answer, Sound, TypeOK, CallOK, CapturesOK, At, StartStages, StopStages, tables, host
<1>8. CASE Serve
  <2>1. call.op \in Operations
    BY <1>2, <1>8 DEF Serve, Calls
  <2>2. PICK p \in Operations, resumed \in BOOLEAN : WorkOn(p, resumed)
    BY <1>8, <2>1 DEF Serve, InTheWay
  <2>3. call' \in Calls /\ call'.at = "probe" /\ call'.cur \in Operations
    BY <1>2, <2>2 DEF WorkOn, Calls, Stages
  <2>4. ops' \in [Operations -> Journal]
    <3>1. CASE UNCHANGED ops
      BY <3>1, <1>2
    <3>2. CASE ops' = [ops EXCEPT ![call.op].status = "pending"]
      BY <3>2, <1>2, <2>1 DEF Journal
    <3> QED BY <1>8, <3>1, <3>2 DEF Serve
  <2> QED BY <1>1, <1>8, <2>3, <2>4
     DEF Serve, Sound, TypeOK, CallOK, CapturesOK, At, StartStages, StopStages, host
<1>9. CASE Probe
  <2>1. PICK view \in Views : call' = [call EXCEPT !.at = "act", !.seen = view,
                                                   !.permit = row[Target].permit]
    BY <1>9 DEF Probe
  <2>2. row[Target].permit \in BOOLEAN /\ call.cur \in Operations
    BY <1>1, <1>2, <1>9 DEF Probe, At, CallOK, Target, Rows
  <2>3. call' \in Calls /\ call'.at = "act" /\ call'.cur = call.cur
    BY <1>2, <2>1, <2>2 DEF Calls, Stages
  <2>4. faults' \in Nat
    BY <1>2, <1>9 DEF Probe, Look
  <2> QED BY <1>1, <1>9, <2>2, <2>3, <2>4
     DEF Probe, Sound, TypeOK, CallOK, CapturesOK, At, StartStages, StopStages, tables, host
<1>10. CASE Act
  BY <1>10, ActSound
<1>11. CASE IssueStart
  <2>1. call' \in Calls /\ call'.at = "wait-start" /\ call'.cur = call.cur
    BY <1>2, <1>11, Going DEF IssueStart, Stages
  <2>2. unit' \in [Instances -> UnitStates]
    BY <1>2, <1>11 DEF IssueStart, UnitStates
  <2> QED BY <1>1, <1>11, <2>1, <2>2
     DEF IssueStart, Sound, TypeOK, CallOK, CapturesOK, At, StartStages, StopStages, tables, Target
<1>12. CASE IssueStop
  <2>1. call' \in Calls /\ call'.at = "wait-stop" /\ call'.cur = call.cur
    BY <1>2, <1>12, Going DEF IssueStop, Stages
  <2>2. unit' \in [Instances -> UnitStates]
    BY <1>2, <1>12 DEF IssueStop, UnitStates
  <2> QED BY <1>1, <1>12, <2>1, <2>2
     DEF IssueStop, Sound, TypeOK, CallOK, CapturesOK, At, StartStages, StopStages, tables, Target
<1>13. CASE JobEnded
  <2>1. /\ call' \in Calls /\ call'.cur = call.cur
        /\ \/ call.at = "wait-start" /\ call'.at = "look-start"
           \/ call.at = "wait-stop" /\ call'.at = "look-stop"
    BY <1>2, <1>13, Going DEF JobEnded, Stages, At
  <2> QED BY <1>1, <1>13, <2>1
     DEF JobEnded, Sound, TypeOK, CallOK, CapturesOK, At, StartStages, StopStages, tables, host, Target
<1>14. CASE LookAfter
  <2>1. PICK view \in Views : call' = [call EXCEPT !.seen = view, !.at =
                        IF @ = "look-start" THEN "settle-start" ELSE "settle-stop"]
    BY <1>14 DEF LookAfter
  <2>2. /\ call' \in Calls /\ call'.cur = call.cur
        /\ \/ call.at = "look-start" /\ call'.at = "settle-start"
           \/ call.at = "look-stop" /\ call'.at = "settle-stop"
    BY <1>2, <1>14, <2>1 DEF LookAfter, Calls, Stages
  <2>3. faults' \in Nat
    BY <1>2, <1>14 DEF LookAfter, Look
  <2> QED BY <1>1, <1>14, <2>2, <2>3
     DEF LookAfter, Sound, TypeOK, CallOK, CapturesOK, At, StartStages, StopStages, tables, host, Target
<1>15. ASSUME NEW p \in {"running", "stopped", "unknown"}, Settle(Target, p),
              call.at \in {"settle-start", "settle-stop"},
              call' = Idle \/ (\E r \in Receipts : Conclude(r.status, r.phase)),
              UNCHANGED <<known, capture, ops, host, faults>>
       PROVE  Sound'
  <2>1. Target \in Instances /\ call.cur \in Operations /\ p \in Phases
    BY <1>1, <1>15 DEF CallOK, Target, Phases
  <2>2. /\ row' \in [Instances -> Rows] /\ row'[Target].phase # "none"
        /\ \A j \in Instances \ {Target} : row'[j] = row[j]
    BY <1>2, <1>15, <2>1, Settling
  <2>3. CapturesOK'
    BY <1>1, <1>2, <1>15, <2>2, <2>1 DEF CapturesOK
  <2>4. CASE call' = Idle
    BY <1>1, <1>15, <2>2, <2>3, <2>4, Idling
       DEF Sound, TypeOK, CallOK, At, StartStages, StopStages, host
  <2>5. CASE \E r \in Receipts : Conclude(r.status, r.phase)
    <3>1. PICK r \in Receipts : Conclude(r.status, r.phase)
      BY <2>5
    <3>2. /\ call' \in Calls /\ call'.at = "finish" /\ call'.cur = call.cur
          /\ call'.out = r
      BY <1>2, <3>1, Concluding
    <3> QED BY <1>1, <1>15, <2>1, <2>2, <2>3, <3>2
       DEF Sound, TypeOK, CallOK, At, StartStages, StopStages, host
  <2> QED BY <1>15, <2>4, <2>5
<1>16. /\ [status |-> "completed", phase |-> "running"] \in Receipts
       /\ [status |-> "failed", phase |-> "stopped"] \in Receipts
       /\ [status |-> "completed", phase |-> "stopped"] \in Receipts
  BY DEF Receipts, AppliedPhases, Phases
<1>17. CASE SettleStart
  BY <1>15, <1>16, <1>17 DEF SettleStart, StartedIt, StartFailed, StartUnclear, At
<1>18. CASE SettleStop
  BY <1>15, <1>16, <1>18 DEF SettleStop, At
<1>19. CASE Finish
  <2>1. call.cur \in Operations /\ call.out \in Journal
    BY <1>1, <1>19 DEF Finish, CallOK, At, Receipts, Journal
  <2>2. ops' \in [Operations -> Journal]
    BY <1>2, <1>19, <2>1 DEF Finish
  <2>3. call' \in Calls /\ call'.at \in {"idle", "serve"}
    BY <1>2, <1>19 DEF Finish, Idle, Calls, Stages
  <2> QED BY <1>1, <1>19, <2>2, <2>3
     DEF Finish, Sound, TypeOK, CallOK, CapturesOK, At, StartStages, StopStages, host
<1>20. CASE HostStep
  <2>1. /\ UNCHANGED <<known, capture, ops, call>>
        /\ row' \in [Instances -> Rows] /\ unit' \in [Instances -> UnitStates]
        /\ activations' \in [Instances -> Nat] /\ faults' \in Nat
        /\ \A j \in Instances : row'[j].phase = row[j].phase
    BY <1>1, <1>20, HostSteps
  <2>2. TypeOK' /\ CapturesOK'
    BY <1>1, <2>1 DEF TypeOK, CapturesOK
  <2>3. call.at \notin {"idle", "reconcile", "serve"} => Target \in Instances
    BY <1>1 DEF CallOK, Target
  <2>4. CallOK'
    BY <1>1, <2>1, <2>3 DEF CallOK, At, StartStages, StopStages, Target
  <2> QED BY <2>2, <2>4 DEF Sound
<1>21. CASE Interrupt
  BY <1>1, <1>2, <1>21, Idling
     DEF Interrupt, Fault, Sound, TypeOK, CallOK, CapturesOK, At, StartStages, StopStages, tables, host
<1>22. CASE Reboot
  <2>1. /\ row' \in [Instances -> Rows]
        /\ \A j \in Instances : row'[j].phase = row[j].phase
    BY <1>2, <1>22, Rebooting
  <2>2. unit' \in [Instances -> UnitStates] /\ faults' \in Nat
    BY <1>2, <1>22 DEF Reboot, Fault, UnitStates
  <2> QED BY <1>1, <1>22, <2>1, <2>2, Idling
     DEF Reboot, Sound, TypeOK, CallOK, CapturesOK, At, StartStages, StopStages
<1> QED
  BY <1>3, <1>4, <1>5, <1>6, <1>7, <1>8, <1>9, <1>10, <1>11, <1>12, <1>13, <1>14,
     <1>17, <1>18, <1>19, <1>20, <1>21, <1>22 DEF Next, Step, HostStep

-----------------------------------------------------------------------------
(* What one step can do to the row and to the unit of an instance.         *)

RowKept(j) == /\ row'[j].phase = row[j].phase /\ row'[j].retired = row[j].retired
              /\ row'[j].permit => row[j].permit

RowMade(j) == /\ Act /\ Created /\ j = Target
              /\ row[j].phase = "none"
              /\ row'[j].phase = "preparing" /\ ~row'[j].retired /\ ~row'[j].permit

RowPrepared(j) == /\ row[j].phase = "preparing" /\ row'[j].phase = "prepared"
                  /\ row'[j].retired = row[j].retired
                  /\ row'[j].permit = row[j].permit

RowStarted(j) == /\ Act /\ PermitGranted /\ j = Target
                 /\ row[j].phase \in {"prepared", "stopped"} /\ ~row[j].retired
                 /\ row'[j].phase = "starting" /\ ~row'[j].retired

RowEnded(j) == /\ row[j].phase # "none"
               /\ row'[j].phase \in {"running", "stopped", "unknown", "stopping"}
               /\ row'[j].permit => row[j].permit /\ row[j].phase # "starting"
               /\ row[j].retired => row'[j].retired

RowMove(j) == \/ RowKept(j) \/ RowMade(j) \/ RowPrepared(j)
              \/ RowStarted(j) \/ RowEnded(j)

\* Only a start makes a row start, only _prepare makes a row, no step unmakes
\* one, and the retirement mark stays.
LEMMA RowMoves ==
    ASSUME Sound, [Next]_vars
    PROVE  \A j \in Instances : RowMove(j)
<1> USE RequestAssumption
<1> SUFFICES ASSUME NEW j \in Instances PROVE RowMove(j)
  OBVIOUS
<1> DEFINE i == Target
<1>1. /\ TypeOK /\ CallOK /\ CapturesOK
      /\ row \in [Instances -> Rows] /\ call \in Calls
      /\ known \in [Workloads -> Nat]
      /\ row[j] \in Rows
  BY DEF Sound, TypeOK
<1>2. CASE UNCHANGED row
  BY <1>2 DEF RowMove, RowKept
<1>3. \A x \in Instances : row'[x].phase = row[x].phase /\ row'[x].retired = row[x].retired
           /\ (row'[x].permit => row[x].permit) => RowKept(x)
  BY DEF RowKept
<1>4. CASE ReconcileApply
  <2>1. call.who \in Instances
    BY <1>1, <1>4 DEF ReconcileApply, Calls
  <2>2. row' = [row EXCEPT ![call.who] = Reconciled(@, call.seen)]
    BY <1>4 DEF ReconcileApply
  <2>3. CASE j = call.who
    <3>1. row'[j] = Reconciled(row[j], call.seen)
      BY <1>1, <2>1, <2>2, <2>3
    <3> QED BY <1>1, <3>1, Reconciling DEF RowMove, RowKept, RowEnded, Reconcilable, Rows
  <2>4. CASE j # call.who
    BY <1>1, <2>1, <2>2, <2>4 DEF RowMove, RowKept
  <2> QED BY <2>3, <2>4
<1>5. CASE Act
  <2>1. call.cur \in Operations /\ Effect /\ i \in Instances
    BY <1>1, <1>5, ActEffects DEF Target
  <2>2. /\ "prepared" \in Phases /\ "running" \in Phases /\ "stopped" \in Phases
        /\ "unknown" \in Phases /\ "stopping" \in Phases
    BY DEF Phases
  <2>3. CASE Dropped \/ Replied \/ RenderAgain \/ Released
    BY <2>3, <1>2 DEF Dropped, Replied, RenderAgain, Released
  <2>4. CASE Created
    <3>1. PICK adopt \in BOOLEAN : row' = [row EXCEPT ![i] =
             [NoRow EXCEPT !.phase = "preparing", !.adopted = adopt]]
      BY <2>4 DEF Created
    <3>2. row[i].phase = "none"
      BY <2>4 DEF Created, Unknown
    <3> QED BY <1>1, <1>5, <2>1, <2>4, <3>1, <3>2 DEF NoRow, RowMove, RowMade, RowKept
  <2>5. CASE Rendered
    <3>1. SetPhase(i, "prepared") /\ row[Target].phase = "preparing"
      BY <1>1, <2>1, <2>5 DEF Rendered, CallOK
    <3>2. /\ row'[i].phase = "prepared" /\ row'[i].permit = row[i].permit
          /\ row'[i].retired = row[i].retired
          /\ \A k \in Instances \ {i} : row'[k] = row[k]
      BY <1>1, <2>1, <2>2, <3>1, Phased
    <3> QED BY <2>1, <3>1, <3>2 DEF RowMove, RowPrepared, RowKept
  <2>6. CASE PermitGranted
    <3>1. GrantPermit(i) /\ ~row[Target].retired /\ row[Target].phase \in {"prepared", "stopped"}
      BY <2>1, <2>6 DEF PermitGranted
    <3>2. /\ row'[i].phase = "starting" /\ row'[i].retired = row[i].retired
          /\ \A k \in Instances \ {i} : row'[k] = row[k]
      BY <1>1, <2>1, <3>1, Granting
    <3> QED BY <1>5, <2>1, <2>6, <3>1, <3>2 DEF RowMove, RowStarted, RowKept
  <2>7. CASE Demoted
    BY <1>1, <2>1, <2>2, <2>7, Phased DEF Demoted, RowMove, RowEnded, RowKept
  <2>8. CASE StartSettled
    BY <1>1, <2>1, <2>2, <2>8, Settling DEF StartSettled, RowMove, RowEnded, RowKept
  <2>9. CASE StopSettled
    BY <1>1, <2>1, <2>2, <2>9, Settling DEF StopSettled, RowMove, RowEnded, RowKept
  <2>10. CASE StopBegun
    BY <1>1, <2>1, <2>10, Marking DEF StopBegun, RowMove, RowEnded, RowKept
  <2> QED BY <2>1, <2>3, <2>4, <2>5, <2>6, <2>7, <2>8, <2>9, <2>10 DEF Effect
<1>6. ASSUME NEW p \in {"running", "stopped", "unknown"}, Settle(i, p),
             call.at \in {"settle-start", "settle-stop"}
      PROVE  RowMove(j)
  <2>1. i \in Instances /\ row[i].phase # "none" /\ p \in Phases
    BY <1>1, <1>6 DEF CallOK, StartStages, StopStages, Target, Phases
  <2> QED BY <1>1, <1>6, <2>1, Settling DEF RowMove, RowEnded, RowKept
<1>7. CASE SettleStart
  BY <1>6, <1>7 DEF SettleStart, StartedIt, StartFailed, StartUnclear, At
<1>8. CASE SettleStop
  BY <1>6, <1>8 DEF SettleStop, At
<1>9. CASE HostStep
  BY <1>1, <1>9, HostSteps DEF RowMove, RowKept
<1>10. CASE Reboot
  BY <1>1, <1>10, Rebooting DEF RowMove, RowKept
<1>11. CASE \/ \E o \in Operations \cup {None} : Submit(o)
            \/ \E x \in Instances : ReconcileLook(x)
            \/ Answer \/ Serve \/ Probe \/ IssueStart \/ IssueStop \/ JobEnded
            \/ LookAfter \/ Finish \/ Interrupt \/ UNCHANGED vars
  <2>1. UNCHANGED row
    BY <1>11 DEF Submit, ReconcileLook, Answer, Serve, Probe, IssueStart, IssueStop,
                 JobEnded, LookAfter, Finish, Interrupt, tables, vars
  <2> QED BY <2>1, <1>2
<1> QED BY <1>4, <1>5, <1>7, <1>8, <1>9, <1>10, <1>11 DEF Next, Step, HostStep

\* Processes appear only where the guard consumes a permit.
LEMMA UnitMoves ==
    ASSUME Sound, [Next]_vars, NEW j \in Instances, unit'[j] \in Alive, unit[j] \notin Alive
    PROVE  HostStep /\ Consumable(j)
<1>1. TypeOK /\ unit \in [Instances -> UnitStates]
  BY DEF Sound, TypeOK
<1>2. CASE HostStep
  BY <1>1, <1>2, HostSteps
<1>3. CASE IssueStart \/ IssueStop \/ Reboot
  BY <1>1, <1>3 DEF IssueStart, IssueStop, Reboot, UnitStates, Alive
<1>4. CASE \/ \E o \in Operations \cup {None} : Submit(o)
           \/ \E x \in Instances : ReconcileLook(x)
           \/ Answer \/ Serve \/ Probe \/ JobEnded \/ ReconcileApply
           \/ LookAfter \/ Finish \/ Interrupt \/ UNCHANGED vars
           \/ Act \/ SettleStart \/ SettleStop
  <2>1. UNCHANGED unit
    BY <1>4 DEF Submit, ReconcileLook, Answer, Serve, Probe, ReconcileApply,
                JobEnded, LookAfter, Finish, Interrupt, tables, host, vars,
                SettleStart, SettleStop, Act, Prepare, Render, Start, ResumeStart,
                Stop, ResumeStop, Retire, Freeze, Thaw
  <2> QED BY <2>1
<1> QED BY <1>2, <1>3, <1>4 DEF Next, Step, HostStep

\* Where a call can be after a step, and by which step it came there.
LEMMA CallMoves ==
    ASSUME Sound, [Next]_vars
    PROVE  /\ call'.at = "probe" => Serve \/ HostStep \/ UNCHANGED vars
           /\ call'.at = "act" => \/ Probe \/ HostStep \/ UNCHANGED vars
                                  \/ Act /\ Demoted /\ UNCHANGED call
           /\ call'.at \in StopStages =>
                 \/ Act /\ StopBegun
                 \/ IssueStop
                 \/ JobEnded /\ call.at = "wait-stop"
                 \/ LookAfter /\ call.at = "look-stop"
                 \/ HostStep \/ UNCHANGED vars
           /\ call'.at = "finish" =>
                 \/ Act /\ (Replied \/ Rendered \/ StartSettled \/ StopSettled \/ Released)
                 \/ SettleStart \/ SettleStop \/ HostStep \/ UNCHANGED vars
<1>1. TypeOK /\ CallOK /\ CapturesOK /\ call \in Calls
  BY DEF Sound, TypeOK
<1>2. "idle" \notin StopStages /\ Idle.at = "idle"
  BY Idling DEF StopStages
<1>3. CASE HostStep \/ UNCHANGED vars
  BY <1>3
<1>4. CASE Act
  <2>1. Effect
    BY <1>1, <1>4, ActEffects
  <2>2. \A s \in Stages : Goto(s) => call'.at = s
    BY <1>1, Going
  <2>3. \A s, p : Conclude(s, p) => call'.at = "finish"
    BY <1>1 DEF Conclude, Calls
  <2>4. "render" \in Stages /\ "issue-start" \in Stages /\ "issue-stop" \in Stages
    BY DEF Stages
  <2>5. /\ Dropped => call'.at = "idle"
        /\ Replied \/ Rendered \/ StopSettled \/ Released => call'.at = "finish"
        /\ StartSettled => call'.at \in {"idle", "finish"}
        /\ RenderAgain \/ Created => call'.at = "render"
        /\ PermitGranted => call'.at = "issue-start"
        /\ StopBegun => call'.at = "issue-stop"
        /\ Demoted => call'.at = "idle" \/ (UNCHANGED call /\ call'.at \in {"act", "render"})
    BY <1>1, <1>2, <1>4, <2>2, <2>3, <2>4, ActEffects
       DEF Dropped, Replied, RenderAgain, Created, Rendered, PermitGranted,
           GrantPermit, Demoted, StartSettled, StopSettled, StopBegun, Released
  <2> QED BY <1>4, <2>1, <2>5 DEF Effect, StopStages
<1>5. CASE Finish \/ Serve \/ Answer \/ Interrupt \/ Reboot \/ ReconcileApply
           \/ \E o \in Operations \cup {None} : Submit(o)
           \/ \E x \in Instances : ReconcileLook(x)
  <2>1. \/ call'.at \in {"idle", "serve", "reconcile"}
        \/ Serve /\ call'.at = "probe"
    BY <1>1, <1>2, <1>5 DEF Finish, Serve, WorkOn, Answer, Interrupt, Reboot, ReconcileApply,
                Submit, ReconcileLook, Calls, Idle, At
  <2> QED BY <2>1 DEF StopStages
<1>6. CASE Probe \/ IssueStart \/ IssueStop \/ JobEnded \/ LookAfter
  <2>1. \/ Probe /\ call'.at = "act"
        \/ IssueStart /\ call'.at = "wait-start"
        \/ IssueStop /\ call'.at = "wait-stop"
        \/ JobEnded /\ call.at = "wait-start" /\ call'.at = "look-start"
        \/ JobEnded /\ call.at = "wait-stop" /\ call'.at = "look-stop"
        \/ LookAfter /\ call.at = "look-start" /\ call'.at = "settle-start"
        \/ LookAfter /\ call.at = "look-stop" /\ call'.at = "settle-stop"
    <3>1. Probe => call'.at = "act"
      BY <1>1 DEF Probe, Calls
    <3>2. /\ IssueStart => call'.at = "wait-start"
          /\ IssueStop => call'.at = "wait-stop"
      BY <1>1 DEF IssueStart, IssueStop, Goto, Calls
    <3>3. JobEnded => \/ call.at = "wait-start" /\ call'.at = "look-start"
                      \/ call.at = "wait-stop" /\ call'.at = "look-stop"
      BY <1>1 DEF JobEnded, Goto, Calls, At
    <3>4. LookAfter => \/ call.at = "look-start" /\ call'.at = "settle-start"
                       \/ call.at = "look-stop" /\ call'.at = "settle-stop"
      BY <1>1 DEF LookAfter, Calls
    <3> QED BY <1>6, <3>1, <3>2, <3>3, <3>4
  <2> QED BY <2>1 DEF StopStages
<1>7. CASE SettleStart \/ SettleStop
  <2>1. call'.at \in {"idle", "finish"}
    BY <1>1, <1>2, <1>7 DEF SettleStart, SettleStop, StartedIt, StartFailed, StartUnclear,
                Conclude, Calls
  <2> QED BY <2>1, <1>7 DEF StopStages
<1> QED BY <1>3, <1>4, <1>5, <1>6, <1>7 DEF Next, Step, HostStep

\* The call of a step that is not its own is the same.
LEMMA StandStill ==
    ASSUME TypeOK, HostStep \/ UNCHANGED vars
    PROVE  /\ UNCHANGED <<known, capture, ops, call>>
           /\ \A j \in Instances : row'[j].phase = row[j].phase
BY HostSteps DEF vars

-----------------------------------------------------------------------------
(* Retirement and the permit                                               *)

\* The life of a row: a permit exists only between its grant and its use or
\* the end of the start, and a retired instance is never in a start again.
Lives ==
    \A i \in Instances :
        /\ row[i].phase = "none" => ~row[i].retired /\ unit[i] \notin Alive
        /\ row[i].permit => row[i].phase = "starting"
        /\ row[i].retired => row[i].phase # "starting"

LEMMA LivesInit == Init => Lives
BY DEF Init, Lives, NoRow, Alive

LEMMA LivesStep ==
    ASSUME Sound, Lives, [Next]_vars
    PROVE  Lives'
<1> SUFFICES ASSUME NEW i \in Instances
             PROVE  /\ row'[i].phase = "none" => ~row'[i].retired /\ unit'[i] \notin Alive
                    /\ row'[i].permit => row'[i].phase = "starting"
                    /\ row'[i].retired => row'[i].phase # "starting"
  BY DEF Lives
<1>1. RowMove(i)
  BY RowMoves
<1>2. unit'[i] \in Alive => unit[i] \in Alive \/ row[i].phase = "starting"
  BY UnitMoves DEF Consumable
<1> QED BY <1>1, <1>2 DEF Lives, RowMove, RowKept, RowMade, RowPrepared, RowStarted, RowEnded

-----------------------------------------------------------------------------
(* Generations                                                             *)

\* Every row is of a generation the host knows, and no two rows of a workload
\* are of the same.
Ages ==
    /\ \A i \in Instances : row[i].phase # "none" => GenOf[i] <= known[WorkloadOf[i]]
    /\ \A i, j \in Instances :
          /\ i # j /\ WorkloadOf[i] = WorkloadOf[j]
          /\ row[i].phase # "none" /\ row[j].phase # "none"
          => GenOf[i] # GenOf[j]

\* The units the look of a call is about (_check_workload_drained, _show).
Watched == IF ActionOf[call.cur] \in Preparing THEN Siblings(Target) ELSE {Target}

\* A look that found nothing running is outdated only by a guard that passes,
\* and then the row tells.
LookHolds ==
    call.at = "act" /\ call.seen = "down" =>
        \A j \in Watched : unit[j] \in Alive => row[j].phase = "starting"

LEMMA Knowledge ==
    ASSUME Sound, Ages, [Next]_vars
    PROVE  known' = known \/ (Act /\ Created)
<1>1. TypeOK /\ CallOK /\ CapturesOK /\ known \in [Workloads -> Nat]
  BY DEF Sound, TypeOK
<1>2. CASE Act
  <2>1. Effect /\ Target \in Instances
    BY <1>1, <1>2, ActEffects, RequestAssumption DEF Target
  <2>2. CASE Rendered
    <3>1. GenOf[Target] <= known[WorkloadOf[Target]]
      BY <1>1, <2>1, <2>2 DEF Rendered, CallOK, Ages
    <3>2. GenOf[Target] \in Nat /\ WorkloadOf[Target] \in Workloads
          /\ known[WorkloadOf[Target]] \in Nat
      BY <1>1, <2>1, RequestAssumption
    <3> QED BY <1>1, <2>2, <3>1, <3>2 DEF Rendered, RaiseGeneration
  <2> QED
    BY <1>2, <2>1, <2>2 DEF Effect, Dropped, Replied, RenderAgain, PermitGranted,
           GrantPermit, Demoted, StartSettled, StopSettled, StopBegun, Released
<1>3. CASE HostStep
  BY <1>1, <1>3, HostSteps
<1> QED
  BY <1>2, <1>3 DEF Next, Step, HostStep, Submit, ReconcileLook, ReconcileApply, Answer,
     Serve, Probe, IssueStart, IssueStop, JobEnded, LookAfter, SettleStart, SettleStop,
     Finish, Interrupt, Reboot, tables, vars

LEMMA AgesStep ==
    ASSUME Sound, Ages, [Next]_vars
    PROVE  Ages'
<1> USE RequestAssumption
<1>1. known \in [Workloads -> Nat] /\ TypeOK
  BY DEF Sound, TypeOK
<1>2. \A i \in Instances : row[i].phase = "none" /\ row'[i].phase # "none" =>
         /\ Act /\ Created /\ i = Target
         /\ GenOf[i] > known[WorkloadOf[i]]
         /\ known'[WorkloadOf[i]] >= GenOf[i]
  <2> SUFFICES ASSUME NEW i \in Instances, row[i].phase = "none", row'[i].phase # "none"
               PROVE  /\ Act /\ Created /\ i = Target
                      /\ GenOf[i] > known[WorkloadOf[i]]
                      /\ known'[WorkloadOf[i]] >= GenOf[i]
    OBVIOUS
  <2>1. RowMade(i)
    BY RowMoves DEF RowMove, RowKept, RowPrepared, RowStarted, RowEnded
  <2> QED BY <1>1, <2>1, Raising DEF RowMade, Created
<1>3. \A w \in Workloads : known'[w] >= known[w] /\ known'[w] \in Nat
  <2>1. CASE known' = known
    BY <1>1, <2>1
  <2>2. CASE Act /\ Created
    BY <1>1, <2>2, Raising, ActEffects DEF Created, Sound, Target
  <2> QED BY <2>1, <2>2, Knowledge
<1>4. \A i \in Instances : row[i].phase # "none" => GenOf[i] <= known'[WorkloadOf[i]]
  BY <1>1, <1>3 DEF Ages
<1> QED BY <1>1, <1>2, <1>4 DEF Ages

LEMMA LookStep ==
    ASSUME Sound, Lives, LookHolds, [Next]_vars
    PROVE  LookHolds'
<1> USE RequestAssumption
<1> SUFFICES ASSUME call'.at = "act", call'.seen = "down" PROVE LookHolds'
  BY DEF LookHolds
<1>1. TypeOK /\ CallOK /\ CapturesOK /\ call \in Calls /\ row \in [Instances -> Rows]
  BY DEF Sound, TypeOK
<1>2. CASE Probe
  <2>1. /\ call.cur \in Operations /\ Target \in Instances
        /\ call'.cur = call.cur /\ UNCHANGED <<row, unit>>
    BY <1>1, <1>2 DEF Probe, CallOK, At, Target, Calls, tables, host
  <2>2. PICK view \in Views :
          /\ IF Asks({"prepare", "adopt"})
             THEN \/ /\ view = "down"
                     /\ \A j \in Siblings(Target) :
                           row[j].phase # "none" => ViewOf(unit[j]) = "down"
                     /\ UNCHANGED faults
                  \/ /\ view # "down"
                     /\ \E j \in Siblings(Target) :
                           row[j].phase # "none" /\ Look(j, view)
             ELSE Look(Target, view)
          /\ call' = [call EXCEPT !.at = "act", !.seen = view,
                                  !.permit = row[Target].permit]
    BY <1>2 DEF Probe
  <2>3. view = "down"
    BY <1>1, <2>2 DEF Calls
  <2>4. \A j \in Instances : ViewOf(unit[j]) = "down" => unit[j] \notin Alive
    BY DEF ViewOf, Alive
  <2>5. CASE ActionOf[call.cur] \in Preparing
    <3>1. \A j \in Siblings(Target) : row[j].phase # "none" => ViewOf(unit[j]) = "down"
      BY <2>1, <2>2, <2>3, <2>5 DEF Asks, Preparing
    <3>2. \A j \in Siblings(Target) : unit[j] \notin Alive
      BY <2>4, <3>1 DEF Siblings, Lives
    <3> QED BY <2>1, <2>5, <3>2 DEF LookHolds, Watched, Target
  <2>6. CASE ActionOf[call.cur] \notin Preparing
    <3>1. ViewOf(unit[Target]) = "down"
      BY <2>1, <2>2, <2>3, <2>6 DEF Asks, Preparing, Look
    <3> QED BY <2>1, <2>4, <2>6, <3>1 DEF LookHolds, Watched, Target
  <2> QED BY <2>5, <2>6
<1>3. CASE HostStep \/ UNCHANGED vars
  <2>1. call' = call /\ \A j \in Instances : row'[j].phase = row[j].phase
    BY <1>1, <1>3, StandStill
  <2>2. Watched' = Watched /\ Watched \subseteq Instances
    BY <1>1, <2>1 DEF Watched, Target, Siblings, CallOK
  <2>3. ASSUME NEW j \in Watched, unit'[j] \in Alive PROVE row'[j].phase = "starting"
    BY <2>1, <2>2, <2>3, UnitMoves DEF LookHolds, Consumable
  <2> QED BY <2>2, <2>3 DEF LookHolds
<1>4. CASE Act /\ Demoted /\ UNCHANGED call
  <2>1. /\ Target \in Instances /\ Watched = {Target} /\ Watched' = {Target}
        /\ row[Target].phase = "running" /\ UNCHANGED unit
    BY <1>1, <1>4, ActEffects DEF Demoted, Watched, Preparing, Target, host
  <2> QED BY <1>4, <2>1 DEF LookHolds
<1> QED BY <1>2, <1>3, <1>4, CallMoves

LEMMA CurrentStep ==
    ASSUME Sound, Lives, Ages, LookHolds, OnlyCurrentRuns, [Next]_vars
    PROVE  OnlyCurrentRuns'
<1> USE RequestAssumption
<1> SUFFICES ASSUME NEW j \in Instances, unit'[j] \in Alive
             PROVE  known'[WorkloadOf[j]] = GenOf[j]
  BY DEF OnlyCurrentRuns, GenerationCurrent
<1>1. TypeOK /\ CallOK /\ CapturesOK /\ known \in [Workloads -> Nat]
  BY DEF Sound, TypeOK
<1>2. CASE unit[j] \notin Alive
  <2>1. HostStep /\ Consumable(j)
    BY <1>2, UnitMoves
  <2> QED BY <1>1, <2>1, HostSteps DEF Consumable, GenerationCurrent
<1>3. CASE unit[j] \in Alive
  <2>1. known[WorkloadOf[j]] = GenOf[j]
    BY <1>3 DEF OnlyCurrentRuns, GenerationCurrent
  <2>2. CASE known' = known
    BY <2>1, <2>2
  <2>3. CASE Act /\ Created
    <3>1. Target \in Instances /\ call.at \in {"act", "render"}
      BY <1>1, <2>3, ActEffects DEF Target
    <3>2. CASE WorkloadOf[j] # WorkloadOf[Target]
      BY <1>1, <2>1, <2>3, <3>1, <3>2, Raising DEF Created
    <3>3. CASE WorkloadOf[j] = WorkloadOf[Target]
      <4>1. call.at = "act" /\ call.seen = "down"
        BY <1>1, <2>3, <3>1 DEF Created, CallOK, At, Unknown, OthersDrained
      <4>2. j \in Watched
        BY <2>3, <3>3 DEF Watched, Created, Siblings
      <4>3. row[j].phase = "starting"
        BY <1>3, <4>1, <4>2 DEF LookHolds
      <4>4. j # Target /\ j \in Siblings(Target)
        BY <2>3, <3>3, <4>3 DEF Created, Unknown, Siblings
      <4> QED BY <2>3, <4>3, <4>4 DEF Created, IndexAllows, Current
    <3> QED BY <3>2, <3>3
  <2> QED BY <2>2, <2>3, Knowledge
<1> QED BY <1>2, <1>3

-----------------------------------------------------------------------------
(* Acknowledgements and captures                                           *)

\* What a stop is acknowledged on is still true when its receipt is written.
StopHolds ==
    /\ call.at = "settle-stop" /\ call.seen = "down" => unit[Target] \notin Alive
    /\ call.at = "finish" /\ call.out.status = "completed"
       /\ ActionOf[call.cur] \in Stopping
       => unit[Target] \notin Alive /\ row[Target].phase # "starting"

\* A freeze holds its capture until its receipt is written, and the capture
\* of an acknowledged freeze stays with its instance.
FreezeHolds ==
    /\ \A o \in Operations : ActionOf[o] = "freeze" /\ ops[o].status = "completed" =>
          /\ capture[CaptureOf[o]].status # "none"
          /\ capture[CaptureOf[o]].instance = InstanceOf[o]
    /\ (call.at \in StopStages \/ (call.at = "finish" /\ call.out.status = "completed"))
       /\ ActionOf[call.cur] = "freeze"
       => HeldBy(call.cur)

\* A capture is taken once and released once; only its status changes then.
CaptureMove(c) ==
    \/ capture'[c] = capture[c]
    \/ capture[c].status = "none"
    \/ /\ capture'[c].status = "released" /\ capture[c].status = "held"
       /\ capture'[c].instance = capture[c].instance

LEMMA CaptureMoves ==
    ASSUME Sound, [Next]_vars
    PROVE  /\ capture' = capture \/ Act
           /\ \A c \in Captures : CaptureMove(c)
<1>1. TypeOK /\ CallOK /\ CapturesOK /\ capture \in [Captures -> CaptureRows]
  BY DEF Sound, TypeOK
<1>2. CASE Act
  <2>1. /\ Effect
        /\ ActionOf[call.cur] \in {"freeze", "thaw"} => CaptureOf[call.cur] \in Captures
    BY <1>1, <1>2, ActEffects
  <2>2. CASE UNCHANGED capture
    BY <2>2, <1>2 DEF CaptureMove
  <2>3. CASE /\ CaptureOf[call.cur] \in Captures
             /\ capture[CaptureOf[call.cur]].status = "none"
             /\ capture' = [capture EXCEPT ![CaptureOf[call.cur]] =
                           [status |-> "held", instance |-> Target]]
    BY <1>1, <1>2, <2>3 DEF CaptureMove
  <2>4. CASE Released
    BY <1>1, <1>2, <2>1, <2>4 DEF Released, CaptureMove, CaptureRows
  <2> QED
    BY <2>1, <2>2, <2>3, <2>4 DEF Effect, Dropped, Replied, RenderAgain, Created, Rendered,
       PermitGranted, GrantPermit, Demoted, StartSettled, StopSettled, StopBegun
<1>3. CASE HostStep
  BY <1>1, <1>3, HostSteps DEF CaptureMove
<1> QED
  BY <1>2, <1>3 DEF CaptureMove, Next, Step, HostStep, Submit, ReconcileLook, ReconcileApply,
     Answer, Serve, Probe, IssueStart, IssueStop, JobEnded, LookAfter, SettleStart,
     SettleStop, Finish, Interrupt, Reboot, tables, vars

\* A receipt is written once, by the call that finishes the operation.
LEMMA OpsMoves ==
    ASSUME Sound, [Next]_vars, NEW o \in Operations, ops'[o] # ops[o]
    PROVE  \/ /\ Serve /\ o = call.op /\ ops[o].status = "new"
              /\ ops'[o].status = "pending" /\ call'.cur = o /\ ~call'.resumed
           \/ /\ Finish /\ o = call.cur /\ ops[o].status = "pending"
              /\ ops'[o] = call.out
<1>1. TypeOK /\ CallOK /\ call \in Calls /\ ops \in [Operations -> Journal]
  BY DEF Sound, TypeOK
<1>2. CASE Serve
  <2>1. /\ ops[call.op].status = "new" /\ call.op \in Operations
        /\ ops' = [ops EXCEPT ![call.op].status = "pending"]
        /\ WorkOn(call.op, FALSE)
    BY <1>1, <1>2 DEF Serve, Calls
  <2>2. call'.cur = call.op /\ ~call'.resumed
    BY <1>1, <2>1 DEF WorkOn, Calls
  <2>3. o = call.op /\ ops'[o].status = "pending"
    BY <1>1, <2>1 DEF Journal
  <2> QED BY <1>2, <2>1, <2>2, <2>3
<1>3. CASE Finish
  BY <1>1, <1>3 DEF Finish
<1>4. CASE HostStep
  BY <1>1, <1>4, HostSteps
<1>5. CASE Act
  BY <1>1, <1>5, ActEffects DEF Sound
<1> QED
  BY <1>2, <1>3, <1>4, <1>5 DEF Next, Step, HostStep, Submit, ReconcileLook, ReconcileApply,
     Answer, Probe, IssueStart, IssueStop, JobEnded, LookAfter, SettleStart,
     SettleStop, Interrupt, Reboot, tables, vars

LEMMA StopStep ==
    ASSUME Sound, LookHolds, StopHolds, [Next]_vars
    PROVE  StopHolds'
<1> USE RequestAssumption
<1>1. /\ TypeOK /\ CallOK /\ CapturesOK /\ call \in Calls
      /\ row \in [Instances -> Rows]
      /\ Sound'
  BY SoundInduction DEF Sound, TypeOK
<1>2. CASE HostStep \/ UNCHANGED vars
  <2>1. call' = call /\ \A j \in Instances : row'[j].phase = row[j].phase
    BY <1>1, <1>2, StandStill
  <2>2. call.at \in {"settle-stop", "finish"} => Target \in Instances
    BY <1>1 DEF CallOK, Target
  <2>3. call.at = "settle-stop" => row[Target].phase = "stopping"
    BY <1>1 DEF CallOK, StopStages
  <2>4. \A j \in Instances : unit'[j] \in Alive => unit[j] \in Alive \/ row[j].phase = "starting"
    BY UnitMoves DEF Consumable
  <2> QED BY <2>1, <2>2, <2>3, <2>4 DEF StopHolds, Target
<1>3. ASSUME call'.at = "settle-stop", call'.seen = "down",
             ~HostStep, vars' # vars
      PROVE  unit'[Target'] \notin Alive
  <2>1. LookAfter /\ call.at = "look-stop"
    <3>1. \/ Act /\ StopBegun
          \/ IssueStop
          \/ JobEnded /\ call.at = "wait-stop"
          \/ LookAfter /\ call.at = "look-stop"
      BY <1>3, CallMoves DEF StopStages
    <3>2. ~(Act /\ StopBegun) /\ ~IssueStop
      BY <1>1, <1>3, Going DEF StopBegun, IssueStop, Stages
    <3>3. ~(JobEnded /\ call.at = "wait-stop")
      BY <1>1, <1>3, Going DEF JobEnded, Stages, At
    <3> QED BY <3>1, <3>2, <3>3
  <2>2. PICK view \in Views :
           /\ Look(Target, view)
           /\ call' = [call EXCEPT !.seen = view, !.at =
                        IF @ = "look-start" THEN "settle-start" ELSE "settle-stop"]
    BY <2>1 DEF LookAfter
  <2>3. view = "down" /\ call'.cur = call.cur
    BY <1>1, <1>3, <2>2 DEF Calls
  <2>4. ViewOf(unit[Target]) = "down" /\ UNCHANGED unit
    BY <2>1, <2>2, <2>3 DEF Look, LookAfter, host
  <2> QED BY <2>3, <2>4 DEF ViewOf, Alive, Target
<1>4. ASSUME call'.at = "finish", call'.out.status = "completed",
             ActionOf[call'.cur] \in Stopping, ~HostStep, vars' # vars
      PROVE  unit'[Target'] \notin Alive /\ row'[Target'].phase # "starting"
  <2>1. CASE Act /\ (Replied \/ Rendered \/ StartSettled \/ StopSettled \/ Released)
    <3>1. call.at \in {"act", "render"} /\ Target \in Instances /\ UNCHANGED unit
      BY <1>1, <2>1, ActEffects DEF Target, host
    <3>2. call'.cur = call.cur
      BY <1>1, <1>4, <2>1, Idling
         DEF Replied, Rendered, StartSettled, StopSettled, Released, Conclude, Calls
    <3>3. call.at = "act"
      BY <1>1, <1>4, <3>1, <3>2 DEF CallOK, At, Stopping, Preparing
    <3>4. Watched = {Target}
      BY <1>4, <3>2 DEF Watched, Stopping, Preparing
    <3>5. CASE Replied
      <4>1. PICK r \in Receipts :
              /\ Conclude(r.status, r.phase)
              /\ r.status = "completed" /\ ActionOf[call.cur] \in Stopping =>
                   /\ ActionOf[call.cur] = "stop"
                   /\ call.seen = "down" /\ row[Target].phase = "stopped"
        BY <3>5 DEF Replied
      <4>2. r.status = "completed"
        BY <1>1, <1>4, <4>1, Concluding
      <4> QED BY <1>4, <3>1, <3>2, <3>3, <3>4, <3>5, <4>1, <4>2 DEF LookHolds, Replied, Target
    <3>6. CASE StopSettled
      <4>1. unit[Target] \notin Alive
        BY <3>3, <3>4, <3>6 DEF StopSettled, LookHolds
      <4>2. row'[Target].phase = "stopped"
        BY <1>1, <3>1, <3>6, Settling DEF StopSettled, Phases
      <4> QED BY <3>1, <3>2, <4>1, <4>2 DEF Target
    <3>7. CASE Rendered \/ StartSettled \/ Released
      BY <1>1, <1>4, <3>2, <3>3, <3>7
         DEF Rendered, StartSettled, Released, At, Stopping
    <3> QED BY <2>1, <3>5, <3>6, <3>7
  <2>2. CASE SettleStart
    <3>1. ActionOf[call.cur] = "start"
      BY <1>1, <2>2 DEF SettleStart, At, CallOK, StartStages
    <3>2. call'.cur = call.cur
      <4>1. call' = Idle \/ \E s, p : Conclude(s, p)
        BY <2>2 DEF SettleStart, StartedIt, StartFailed, StartUnclear
      <4> QED BY <1>1, <1>4, <4>1, Idling DEF Conclude, Calls
    <3> QED BY <1>4, <3>1, <3>2 DEF Stopping
  <2>3. CASE SettleStop
    <3>1. call.at = "settle-stop" /\ Target \in Instances /\ UNCHANGED unit
      BY <1>1, <2>3 DEF SettleStop, At, CallOK, Target, host
    <3>2. DrainedOf(call.seen) = "yes"
      BY <1>4, <2>3, Idling DEF SettleStop
    <3>3. call.seen = "down"
      BY <3>2 DEF DrainedOf
    <3>4. call'.cur = call.cur
      <4>1. Conclude("completed", "stopped")
        BY <2>3, <3>2 DEF SettleStop
      <4> QED BY <1>1, <4>1 DEF Conclude, Calls
    <3>5. row'[Target].phase = "stopped"
      BY <1>1, <2>3, <3>1, <3>2, Settling DEF SettleStop, Phases
    <3> QED BY <3>1, <3>3, <3>4, <3>5 DEF StopHolds, Target
  <2> QED BY <1>4, <2>1, <2>2, <2>3, CallMoves
<1> QED BY <1>2, <1>3, <1>4 DEF StopHolds

LEMMA FreezeStep ==
    ASSUME Sound, Ages, FreezeHolds, [Next]_vars
    PROVE  FreezeHolds'
<1> USE RequestAssumption
<1>1. /\ TypeOK /\ CallOK /\ CapturesOK /\ call \in Calls
      /\ capture \in [Captures -> CaptureRows]
  BY DEF Sound, TypeOK
<1>2. ASSUME NEW o \in Operations, ActionOf[o] = "freeze", ops'[o].status = "completed"
      PROVE  /\ capture'[CaptureOf[o]].status # "none"
             /\ capture'[CaptureOf[o]].instance = InstanceOf[o]
  <2>1. CaptureOf[o] \in Captures
    BY <1>2
  <2>2. CASE ops'[o] = ops[o]
    BY <1>2, <2>1, <2>2, CaptureMoves DEF FreezeHolds, CaptureMove
  <2>3. CASE Finish /\ o = call.cur /\ ops'[o] = call.out
    BY <1>1, <1>2, <2>1, <2>3 DEF Finish, At, FreezeHolds, HeldBy
  <2> QED BY <1>2, <2>2, <2>3, OpsMoves
<1>3. ASSUME call'.at \in StopStages \/ (call'.at = "finish" /\ call'.out.status = "completed"),
             ActionOf[call'.cur] = "freeze"
      PROVE  HeldBy(call.cur)' 
  <2>1. CASE HostStep \/ UNCHANGED vars
    BY <1>1, <1>3, <2>1, StandStill DEF FreezeHolds, HeldBy, GenerationCurrent
  <2>2. CASE IssueStop \/ (JobEnded /\ call.at = "wait-stop")
             \/ (LookAfter /\ call.at = "look-stop") \/ SettleStop
    <3>1. call.at \in StopStages /\ UNCHANGED <<known, capture>>
      BY <2>2 DEF IssueStop, LookAfter, JobEnded, SettleStop, At, StopStages, tables
    <3>2. call'.cur = call.cur
      <4>1. CASE SettleStop
        <5>1. call' # Idle
          BY <1>3, Idling DEF StopStages
        <5>2. Conclude("completed", "stopped")
          BY <4>1, <5>1 DEF SettleStop
        <5> QED BY <1>1, <5>2 DEF Conclude, Calls
      <4>2. CASE ~SettleStop
        BY <1>1, <2>2, <4>2 DEF IssueStop, LookAfter, JobEnded, Goto, Calls
      <4> QED BY <4>1, <4>2
    <3> QED BY <1>3, <3>1, <3>2 DEF FreezeHolds, HeldBy, GenerationCurrent
  <2>3. CASE Act /\ (StopBegun \/ Replied \/ Rendered \/ StartSettled \/ StopSettled \/ Released)
    <3>1. call.cur \in Operations /\ Target \in Instances /\ call.at \in {"act", "render"}
      BY <1>1, <2>3, ActEffects DEF Target
    <3>2. call'.cur = call.cur
      <4>1. call' # Idle
        BY <1>3, Idling DEF StopStages
      <4>2. \/ \E status, phase : Conclude(status, phase)
            \/ \E stage : Goto(stage)
        BY <2>3, <4>1 DEF StopBegun, Replied, Rendered, StartSettled, StopSettled, Released
      <4> QED BY <1>1, <4>2 DEF Conclude, Goto, Calls
    <3>3. CASE StopBegun
      <4>1. CASE UNCHANGED capture /\ HeldBy(call.cur)
        BY <3>2, <3>3, <4>1 DEF StopBegun, HeldBy, GenerationCurrent
      <4>2. CASE /\ GenerationCurrent(Target)
                 /\ capture' = [capture EXCEPT ![CaptureOf[call.cur]] =
                                 [status |-> "held", instance |-> Target]]
        <5>1. CaptureOf[call.cur] \in Captures
          BY <1>3, <3>1, <3>2
        <5> QED BY <1>1, <3>2, <3>3, <4>2, <5>1 DEF StopBegun, HeldBy, GenerationCurrent, Target
      <4> QED BY <1>3, <3>2, <3>3, <4>1, <4>2 DEF StopBegun
    <3>4. CASE StopSettled
      BY <1>3, <3>2, <3>4 DEF StopSettled, HeldBy, GenerationCurrent
    <3>5. CASE Replied
      <4>1. PICK r \in Receipts :
              /\ Conclude(r.status, r.phase)
              /\ r.status = "completed" /\ ActionOf[call.cur] \in Stopping =>
                   ActionOf[call.cur] = "stop"
        BY <3>5 DEF Replied
      <4>2. call'.at = "finish" /\ call'.out = r
        BY <1>1, <4>1, Concluding
      <4> QED BY <1>3, <3>2, <4>1, <4>2 DEF StopStages, Stopping
    <3>6. CASE Rendered \/ StartSettled \/ Released
      BY <1>1, <1>3, <3>2, <3>6 DEF Rendered, StartSettled, Released, CallOK, At, Preparing
    <3> QED BY <2>3, <3>3, <3>4, <3>5, <3>6
  <2>4. CASE SettleStart
    <3>1. ActionOf[call.cur] = "start"
      BY <1>1, <2>4 DEF SettleStart, At, CallOK, StartStages
    <3>2. call'.cur = call.cur
      <4>1. StartedIt(Target) \/ StartFailed(Target) \/ StartUnclear(Target)
        BY <2>4 DEF SettleStart
      <4>2. CASE StartedIt(Target) \/ StartFailed(Target)
        BY <1>1, <4>2 DEF StartedIt, StartFailed, Conclude, Calls
      <4>3. CASE StartUnclear(Target)
        BY <1>3, <4>3, Idling DEF StartUnclear, StopStages
      <4> QED BY <4>1, <4>2, <4>3
    <3> QED BY <1>3, <3>1, <3>2
  <2> QED BY <1>3, <2>1, <2>2, <2>3, <2>4, CallMoves
<1> QED BY <1>2, <1>3 DEF FreezeHolds, HeldBy

LEMMA QuietStep ==
    ASSUME Sound, Lives, Ages, OnlyCurrentRuns, StopHolds, FreezeHolds, FrozenIsQuiet,
           [Next]_vars
    PROVE  FrozenIsQuiet'
<1> USE RequestAssumption
<1> SUFFICES ASSUME NEW o \in Operations, ActionOf[o] = "freeze",
                    ops'[o].status = "completed",
                    capture'[CaptureOf[o]].status = "held",
                    NEW j \in Siblings(InstanceOf[o]), unit'[j] \in Alive
             PROVE  FALSE
  BY DEF FrozenIsQuiet, Siblings
<1>1. TypeOK /\ CallOK /\ CapturesOK /\ capture \in [Captures -> CaptureRows]
  BY DEF Sound, TypeOK
<1>2. CaptureOf[o] \in Captures /\ InstanceOf[o] \in Instances /\ j \in Instances
      /\ WorkloadOf[j] = WorkloadOf[InstanceOf[o]]
  BY DEF Siblings
<1>3. CASE ops'[o] = ops[o]
  <2>1. /\ capture[CaptureOf[o]].status = "held"
        /\ capture[CaptureOf[o]].instance = InstanceOf[o]
    BY <1>2, <1>3, CaptureMoves DEF FreezeHolds, CaptureMove
  <2>2. unit[j] \notin Alive
    BY <1>3, <2>1 DEF FrozenIsQuiet
  <2>3. ~Frozen(j)
    BY <1>2, <2>2, UnitMoves DEF Consumable
  <2> QED BY <1>2, <2>1, <2>3 DEF Frozen
<1>4. CASE Finish /\ o = call.cur /\ ops'[o] = call.out
  <2>1. UNCHANGED <<unit, capture>> /\ call.at = "finish" /\ call.out.status = "completed"
    BY <1>4 DEF Finish, At, host
  <2>2. HeldBy(o) /\ unit[InstanceOf[o]] \notin Alive
    BY <1>4, <2>1 DEF FreezeHolds, StopHolds, Stopping, Target
  <2>3. GenOf[j] = known[WorkloadOf[j]] /\ GenOf[InstanceOf[o]] = known[WorkloadOf[j]]
    BY <1>2, <2>1, <2>2 DEF OnlyCurrentRuns, GenerationCurrent, HeldBy
  <2>4. row[j].phase # "none" /\ row[InstanceOf[o]].phase # "none"
    BY <1>1, <1>2, <2>1, <2>2 DEF Lives, CapturesOK, HeldBy
  <2> QED BY <1>2, <2>1, <2>2, <2>3, <2>4 DEF Ages
<1> QED BY <1>3, <1>4, OpsMoves

-----------------------------------------------------------------------------
(* Activations                                                             *)

\* The start operations journalled for an instance.
Starts(i) == {o \in Operations : /\ ActionOf[o] = "start" /\ InstanceOf[o] = i
                                 /\ ops[o].status # "new"}

\* A start that was journalled in this call and has not granted its permit.
Owed(i) == IF /\ call.at \in {"probe", "act"} /\ ~call.resumed
              /\ ActionOf[call.cur] = "start" /\ Target = i
           THEN 1 ELSE 0

Granted(i) == IF row[i].permit THEN 1 ELSE 0

\* Every activation, the permit that is out and the permit still to be granted
\* have a start operation of their own; an instance that was never started
\* owes nothing, which lets a resumed start grant the permit.
Counts ==
    /\ \A i \in Instances :
          /\ IsFiniteSet(Starts(i))
          /\ row[i].phase \in {"none", "preparing", "prepared"} => activations[i] = 0
          /\ activations[i] + Granted(i) + Owed(i) <= Cardinality(Starts(i))
    /\ call.at \in {"probe", "act"} => ops[call.cur].status # "new"

LEMMA ActivationMoves ==
    ASSUME Sound, [Next]_vars, NEW j \in Instances
    PROVE  \/ activations'[j] = activations[j]
           \/ /\ activations'[j] = activations[j] + 1
              /\ row[j].permit /\ ~row'[j].permit /\ row[j].phase = "starting"
<1>1. /\ TypeOK /\ CallOK /\ row \in [Instances -> Rows]
      /\ activations \in [Instances -> Nat]
  BY DEF Sound, TypeOK
<1>2. ASSUME NEW i \in Instances, GuardConsume(i), Consumable(i)
      PROVE  \/ activations'[j] = activations[j]
             \/ /\ activations'[j] = activations[j] + 1
                /\ row[j].permit /\ ~row'[j].permit /\ row[j].phase = "starting"
  <2>1. /\ row' = [row EXCEPT ![i].permit = FALSE]
        /\ activations' = [activations EXCEPT ![i] = @ + 1]
    BY <1>2 DEF GuardConsume
  <2>2. row[i].permit /\ row[i].phase = "starting"
    BY <1>2 DEF Consumable
  <2> QED BY <1>1, <2>1, <2>2 DEF Rows
<1>3. CASE HostStep
  <2>1. PICK i \in Instances : Systemd(i) \/ Exits(i) \/ Expire(i) \/ StrayStart(i)
    BY <1>3 DEF HostStep
  <2>2. CASE GuardConsume(i) /\ Consumable(i)
    BY <1>2, <2>2
  <2>3. CASE ~(GuardConsume(i) /\ Consumable(i))
    <3>1. UNCHANGED activations
      BY <2>1, <2>3 DEF Systemd, GuardRead, GuardConsume, Started, Exits, Stopped, Drains,
              Becomes, Expire, StrayStart, host
    <3> QED BY <3>1
  <2> QED BY <2>2, <2>3
<1>4. CASE Act
  BY <1>1, <1>4, ActEffects DEF Sound, host
<1> QED
  BY <1>3, <1>4 DEF Next, Step, HostStep, Submit, ReconcileLook, ReconcileApply,
     Answer, Serve, Probe, IssueStart, IssueStop, JobEnded, LookAfter, SettleStart,
     SettleStop, Finish, Interrupt, Reboot, tables, host, vars

\* A journal entry is never withdrawn.
LEMMA StartsMoves ==
    ASSUME Sound, [Next]_vars, NEW i \in Instances
    PROVE  \/ Starts(i)' = Starts(i)
           \/ /\ Serve /\ call.op \in Operations \ Starts(i)
              /\ Starts(i)' = Starts(i) \cup {call.op}
<1>1. TypeOK /\ CallOK
  BY DEF Sound
<1>2. \A o \in Operations : ops'[o].status = "new" <=>
         ops[o].status = "new" /\ ~(Serve /\ o = call.op /\ ops'[o] # ops[o])
  <2> SUFFICES ASSUME NEW o \in Operations, ops'[o] # ops[o]
               PROVE  ops'[o].status = "new" <=>
                        ops[o].status = "new" /\ ~(Serve /\ o = call.op)
    OBVIOUS
  <2>1. CASE Serve /\ o = call.op /\ ops[o].status = "new" /\ ops'[o].status = "pending"
    BY <2>1
  <2>2. CASE Finish /\ ops[o].status = "pending" /\ ops'[o] = call.out
    BY <1>1, <2>2 DEF Finish, At, CallOK, Receipts
  <2> QED BY <2>1, <2>2, OpsMoves
<1>3. CASE \E o \in Operations : /\ Serve /\ o = call.op /\ ops'[o] # ops[o]
                                 /\ ops[o].status = "new" /\ ops'[o].status = "pending"
                                 /\ ActionOf[o] = "start" /\ InstanceOf[o] = i
  BY <1>2, <1>3 DEF Starts
<1>4. CASE ~\E o \in Operations : /\ Serve /\ o = call.op /\ ops'[o] # ops[o]
                                  /\ ActionOf[o] = "start" /\ InstanceOf[o] = i
  BY <1>2, <1>4 DEF Starts
<1>5. \A o \in Operations : Serve /\ o = call.op /\ ops'[o] # ops[o] =>
         ops[o].status = "new" /\ ops'[o].status = "pending"
  BY OpsMoves DEF Finish, Serve, At
<1> QED BY <1>3, <1>4, <1>5

LEMMA CountsStep ==
    ASSUME Sound, Lives, Counts, [Next]_vars
    PROVE  Counts'
<1> USE RequestAssumption
<1>1. /\ TypeOK /\ CallOK /\ CapturesOK /\ call \in Calls
      /\ activations \in [Instances -> Nat]
      /\ Sound'
  BY SoundInduction DEF Sound, TypeOK
<1>2. ASSUME call'.at \in {"probe", "act"}
      PROVE  /\ ops'[call'.cur].status # "new"
             /\ \/ /\ call.at \in {"probe", "act"} /\ call'.cur = call.cur
                   /\ call'.resumed = call.resumed
                \/ Serve /\ call.at \in {"reconcile", "serve"}
  <2>1. CASE HostStep \/ UNCHANGED vars
    BY <1>1, <1>2, <2>1, StandStill DEF Counts
  <2>2. CASE Serve
    <3>1. call.at \in {"reconcile", "serve"}
      BY <2>2 DEF Serve, At
    <3>2. PICK p \in Operations, resumed \in BOOLEAN :
            WorkOn(p, resumed) /\ ops'[p].status # "new"
      <4>1. call.op \in Operations
        BY <1>1, <2>2 DEF Serve, Calls
      <4>2. CASE /\ ops[call.op].status = "pending" /\ WorkOn(call.op, TRUE)
                 /\ UNCHANGED ops
        BY <4>1, <4>2
      <4>3. CASE UNCHANGED ops /\ \E p \in InTheWay(call.op) : WorkOn(p, TRUE)
        BY <4>3 DEF InTheWay
      <4>4. CASE /\ ops' = [ops EXCEPT ![call.op].status = "pending"]
                 /\ WorkOn(call.op, FALSE)
        <5>1. ops'[call.op].status = "pending"
          BY <1>1, <4>1, <4>4 DEF TypeOK, Journal
        <5> QED BY <4>1, <4>4, <5>1
      <4> QED BY <2>2, <4>2, <4>3, <4>4 DEF Serve
    <3>3. call'.cur = p
      BY <1>1, <3>2 DEF WorkOn, Calls
    <3> QED BY <2>2, <3>1, <3>2, <3>3
  <2>3. CASE Probe
    BY <1>1, <2>3 DEF Probe, At, Calls, tables, Counts
  <2>4. CASE Act /\ UNCHANGED call
    BY <1>1, <1>2, <2>4, ActEffects DEF Counts
  <2> QED BY <1>2, <2>1, <2>2, <2>3, <2>4, CallMoves
<1>3. SUFFICES ASSUME NEW i \in Instances
               PROVE  /\ IsFiniteSet(Starts(i)')
                      /\ row'[i].phase \in {"none", "preparing", "prepared"} =>
                            activations'[i] = 0
                      /\ activations'[i] + Granted(i)' + Owed(i)' <= Cardinality(Starts(i)')
  BY <1>2 DEF Counts
<1>4. /\ IsFiniteSet(Starts(i)) /\ activations[i] \in Nat
      /\ Cardinality(Starts(i)) \in Nat
      /\ activations[i] + Granted(i) + Owed(i) <= Cardinality(Starts(i))
      /\ Granted(i) \in {0, 1} /\ Owed(i) \in {0, 1} /\ Granted(i)' \in {0, 1}
      /\ Owed(i)' \in {0, 1} /\ activations'[i] \in Nat
  BY <1>1, FS_CardinalityType DEF Counts, Granted, Owed, Sound, TypeOK
<1>5. RowMove(i)
  BY RowMoves
<1>6. row'[i].phase \in {"none", "preparing", "prepared"} => activations'[i] = 0
  BY <1>5, ActivationMoves DEF Counts, RowMove, RowKept, RowMade, RowPrepared,
     RowStarted, RowEnded
<1>7. ASSUME ~RowStarted(i)
      PROVE  activations'[i] + Granted(i)' <= activations[i] + Granted(i)
  <2>1. row'[i].permit => row[i].permit
    BY <1>5, <1>7 DEF RowMove, RowKept, RowMade, RowPrepared, RowEnded
  <2> QED BY <1>4, <2>1, ActivationMoves DEF Granted
<1>8. CASE Starts(i)' = Starts(i) /\ ~RowStarted(i)
  <2>1. Owed(i)' <= Owed(i)
    <3>1. CASE Owed(i)' = 1
      <4>1. /\ call'.at \in {"probe", "act"} /\ ~call'.resumed
            /\ ActionOf[call'.cur] = "start" /\ InstanceOf[call'.cur] = i
        BY <3>1 DEF Owed, Target
      <4>2. CASE Serve
        <5>1. call.op \in Operations /\ ops' = [ops EXCEPT ![call.op].status = "pending"]
              /\ ops[call.op].status = "new" /\ WorkOn(call.op, FALSE)
          BY <1>1, <4>1, <4>2 DEF Serve, WorkOn, Calls
        <5>2. call'.cur = call.op
          BY <1>1, <5>1 DEF WorkOn, Calls
        <5>3. call.op \in Starts(i)'
          BY <1>1, <1>2, <4>1, <5>1, <5>2 DEF Starts
        <5> QED BY <1>8, <5>1, <5>3 DEF Starts
      <4>3. CASE /\ call.at \in {"probe", "act"} /\ call'.cur = call.cur
                 /\ call'.resumed = call.resumed
        BY <4>1, <4>3 DEF Owed, Target
      <4> QED BY <1>2, <4>1, <4>2, <4>3
    <3> QED BY <1>4, <3>1
  <2> QED BY <1>4, <1>6, <1>7, <1>8, <2>1
<1>9. CASE RowStarted(i)
  <2>1. /\ Act /\ PermitGranted /\ i = Target
        /\ row[i].phase \in {"prepared", "stopped"}
        /\ call.cur \in Operations /\ call.at = "act"
    BY <1>1, <1>9, ActEffects DEF RowStarted, CallOK, At, PermitGranted, Preparing
  <2>2. /\ ~row[i].permit /\ activations'[i] = activations[i] /\ Starts(i)' = Starts(i)
    BY <2>1, ActivationMoves, StartsMoves DEF Lives, Serve, At
  <2>3. Owed(i)' = 0
    BY <1>1, <2>1, Granting DEF PermitGranted, Owed, Sound, TypeOK
  <2>4. CASE ~call.resumed
    <3>1. Owed(i) = 1
      BY <2>1, <2>4 DEF Owed, PermitGranted
    <3> QED BY <1>4, <1>6, <2>2, <2>3, <3>1
  <2>5. CASE call.resumed
    <3>1. activations[i] = 0
      BY <2>1, <2>5 DEF PermitGranted, Counts
    <3>2. call.cur \in Starts(i)
      BY <2>1 DEF PermitGranted, Counts, Starts, Target
    <3>3. Cardinality(Starts(i)) >= 1
      BY <1>4, <3>2, FS_EmptySet
    <3> QED BY <1>4, <1>6, <2>2, <2>3, <3>1, <3>3
  <2> QED BY <2>4, <2>5
<1>10. CASE /\ Serve /\ call.op \in Operations \ Starts(i)
            /\ Starts(i)' = Starts(i) \cup {call.op}
  <2>1. IsFiniteSet(Starts(i)') /\ Cardinality(Starts(i)') = Cardinality(Starts(i)) + 1
    <3>1. /\ IsFiniteSet(Starts(i) \cup {call.op})
          /\ Cardinality(Starts(i) \cup {call.op}) = Cardinality(Starts(i)) + 1
      BY <1>4, <1>10, FS_AddElement
    <3> QED BY <1>10, <3>1
  <2>2. ~RowStarted(i)
    BY <1>1, <1>10, ActEffects DEF RowStarted, Serve, At
  <2> QED BY <1>4, <1>6, <1>7, <2>1, <2>2
<1> QED BY <1>8, <1>9, <1>10, StartsMoves

-----------------------------------------------------------------------------
(* The invariant and what follows from it                                  *)

WorkerInv == /\ Sound /\ Lives /\ Ages /\ LookHolds /\ OnlyCurrentRuns
             /\ StopHolds /\ FreezeHolds /\ FrozenIsQuiet /\ Counts

LEMMA WorkerInvInit == Init => WorkerInv
<1> SUFFICES ASSUME Init PROVE WorkerInv
  OBVIOUS
<1> USE RequestAssumption
<1>1. TypeOK
  <2>1. NoRow \in Rows /\ [status |-> "none", instance |-> None] \in CaptureRows
        /\ [status |-> "new", phase |-> "unchanged"] \in Journal
    BY DEF NoRow, Rows, CaptureRows, Journal, AppliedPhases
  <2> QED BY <2>1, Idling DEF Init, TypeOK, UnitStates
<1>2. call.at = "idle"
  BY Idling DEF Init
<1>3. CallOK /\ CapturesOK /\ LookHolds /\ StopHolds
  BY <1>2 DEF Init, CallOK, CapturesOK, LookHolds, StopHolds, At, StartStages, StopStages
<1>4. Ages /\ OnlyCurrentRuns /\ Lives
  BY LivesInit DEF Init, Ages, OnlyCurrentRuns, NoRow, Alive
<1>5. FreezeHolds /\ FrozenIsQuiet
  BY <1>2 DEF Init, FreezeHolds, FrozenIsQuiet, StopStages
<1>6. \A i \in Instances : Starts(i) = {} /\ Granted(i) = 0 /\ Owed(i) = 0
  BY <1>2 DEF Init, Starts, Granted, Owed, NoRow
<1>7. Counts
  <2> SUFFICES ASSUME NEW i \in Instances
               PROVE  /\ IsFiniteSet(Starts(i)) /\ activations[i] = 0
                      /\ activations[i] + Granted(i) + Owed(i) <= Cardinality(Starts(i))
    BY <1>2 DEF Counts
  <2>1. IsFiniteSet({}) /\ Cardinality({}) = 0
    BY FS_EmptySet
  <2>2. activations[i] = 0
    BY DEF Init
  <2>3. Starts(i) = {} /\ Granted(i) = 0 /\ Owed(i) = 0
    BY <1>6
  <2>4. IsFiniteSet(Starts(i)) /\ Cardinality(Starts(i)) = 0
    BY <2>1, <2>3
  <2> HIDE DEF Starts, Granted, Owed
  <2> QED BY <2>2, <2>3, <2>4
<1> QED BY <1>1, <1>3, <1>4, <1>5, <1>7 DEF WorkerInv, Sound

LEMMA WorkerInvStep == WorkerInv /\ [Next]_vars => WorkerInv'
BY SoundInduction, LivesStep, AgesStep, LookStep, CurrentStep, StopStep, FreezeStep,
   QuietStep, CountsStep DEF WorkerInv

LEMMA WorkerInvariant == Spec => []WorkerInv
BY WorkerInvInit, WorkerInvStep, PTL DEF Spec

(* Every table, unit and call keeps its type: a receipt is written only    *)
(* with a status and a phase, a row only with a phase of the schema        *)
(* (_finish, the check constraints of the instances table).                *)
THEOREM TypesHold == Spec => []TypeOK
<1>1. WorkerInv => TypeOK
  BY DEF WorkerInv, Sound
<1> QED BY <1>1, WorkerInvariant, PTL

(* Processes of an instance exist only while its generation is the highest *)
(* the host has seen (_check_workload_drained, current_workload, guard).   *)
THEOREM OnlyCurrentRunsHolds == Spec => []OnlyCurrentRuns
<1>1. WorkerInv => OnlyCurrentRuns
  BY DEF WorkerInv
<1> QED BY <1>1, WorkerInvariant, PTL

\* Two instances of a workload never have processes at the same time.
OneInstanceRuns ==
    \A i, j \in Instances :
        WorkloadOf[i] = WorkloadOf[j] /\ unit[i] \in Alive /\ unit[j] \in Alive => i = j

(* A host never runs two instances of a workload at once, whatever is      *)
(* started by hand and whatever call is cut short (_check_workload_drained,*)
(* _check_generation_current, guard).                                      *)
THEOREM OneInstanceRunsHolds == Spec => []OneInstanceRuns
<1>1. WorkerInv => OneInstanceRuns
  BY DEF WorkerInv, OneInstanceRuns, OnlyCurrentRuns, GenerationCurrent, Lives, Ages
<1> QED BY <1>1, WorkerInvariant, PTL

(* While an acknowledged freeze is held nothing of the workload runs on    *)
(* the host (_freeze, _held_capture, guard).                               *)
THEOREM FrozenIsQuietHolds == Spec => []FrozenIsQuiet
<1>1. WorkerInv => FrozenIsQuiet
  BY DEF WorkerInv
<1> QED BY <1>1, WorkerInvariant, PTL

(* The guard lets an instance through at most once per start operation     *)
(* journalled for it (_start, _resume_start, guard).                       *)
THEOREM StartsOnceHolds == Spec => []StartsOnce
<1>1. WorkerInv => StartsOnce
  <2> SUFFICES ASSUME WorkerInv, NEW i \in Instances
               PROVE  activations[i] <= Cardinality(Starts(i))
    BY DEF StartsOnce, Starts
  <2>1. /\ IsFiniteSet(Starts(i)) /\ activations[i] \in Nat
        /\ activations[i] + Granted(i) + Owed(i) <= Cardinality(Starts(i))
        /\ Granted(i) \in {0, 1} /\ Owed(i) \in {0, 1}
    BY DEF WorkerInv, Sound, TypeOK, Counts, Granted, Owed
  <2> QED BY <2>1, FS_CardinalityType
<1> QED BY <1>1, WorkerInvariant, PTL

(* A retirement is for good: no step takes the mark back or brings         *)
(* processes to a retired instance whose unit is down (_retire, guard).    *)
THEOREM RetiredStaysDownHolds == Spec => RetiredStaysDown
<1> DEFINE A == \A i \in Instances :
          row[i].retired =>
             /\ row'[i].retired
             /\ (unit[i] \notin Alive => unit'[i] \notin Alive)
<1>1. WorkerInv /\ [Next]_vars => [A]_vars
  <2> SUFFICES ASSUME WorkerInv, [Next]_vars, NEW i \in Instances, row[i].retired
               PROVE  /\ row'[i].retired
                      /\ unit[i] \notin Alive => unit'[i] \notin Alive
    OBVIOUS
  <2>1. Sound /\ Lives
    BY DEF WorkerInv
  <2>2. row'[i].retired
    BY <2>1, RowMoves DEF Lives, RowMove, RowKept, RowMade, RowPrepared, RowStarted, RowEnded
  <2>3. unit[i] \notin Alive => unit'[i] \notin Alive
    BY <2>1, UnitMoves DEF Lives, Consumable
  <2> QED BY <2>2, <2>3
<1>2. Spec => [][A]_vars
  <2> HIDE DEF A
  <2> QED BY <1>1, WorkerInvariant, PTL DEF Spec
<1> QED BY <1>2 DEF RetiredStaysDown

(* A stop, a retire or a freeze is acknowledged only over a unit without a *)
(* process at the moment its receipt is written (_settle_stop, _finish).   *)
THEOREM AcknowledgedDownHolds == Spec => AcknowledgedDown
<1> DEFINE A == \A o \in Operations :
          /\ ActionOf[o] \in {"stop", "retire", "freeze"}
          /\ ops[o].status = "pending" /\ ops'[o].status = "completed"
          => unit[InstanceOf[o]] \notin Alive
<1>1. WorkerInv /\ [Next]_vars => [A]_vars
  <2> SUFFICES ASSUME WorkerInv, [Next]_vars, NEW o \in Operations,
                      ActionOf[o] \in {"stop", "retire", "freeze"},
                      ops[o].status = "pending", ops'[o].status = "completed"
               PROVE  unit[InstanceOf[o]] \notin Alive
    OBVIOUS
  <2>1. Sound /\ StopHolds
    BY DEF WorkerInv
  <2>2. Finish /\ o = call.cur /\ ops'[o] = call.out
    BY <2>1, OpsMoves
  <2> QED BY <2>1, <2>2 DEF Finish, At, StopHolds, Stopping, Target
<1>2. Spec => [][A]_vars
  <2> HIDE DEF A
  <2> QED BY <1>1, WorkerInvariant, PTL DEF Spec
<1> QED BY <1>2 DEF AcknowledgedDown
=============================================================================
