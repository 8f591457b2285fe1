------------------------------- MODULE Restore -------------------------------
(***************************************************************************)
(* The restore worker (console/restore.py): it installs a recovery point   *)
(* into an instance that is prepared and was never started.                *)
(*                                                                         *)
(* One instance, and the restores that may be asked of it.  The lock of    *)
(* the journal admits one request at a time; a killed request leaves the   *)
(* sentinel, the staging area and the leaves as they were at that moment.  *)
(* The worker may start or retire the instance at any time its own gates   *)
(* allow.  The cp of an interrupted stage is taken to die with it.         *)
(***************************************************************************)
EXTENDS Repository

CONSTANTS
    Restores,       \* restore ids
    Fresh           \* what a leaf holds as prepared: nothing

ASSUME RestoreAssumption ==
    /\ None \notin Restores /\ Fresh \notin Contents \cup {None}
    /\ Leaves # {} /\ None \notin [Leaves -> Contents \cup {None}]

VARIABLES
    phase,      \* the instance in the worker: prepared, started, retired
    sentinel,   \* the restore .nexus-restore-pending names
    leaf,       \* the state directories; None while one is not there
    staging,    \* the staging area; None while there is none
    restored,   \* the journal of restores
    work,       \* the request under the lock of the journal
    booted      \* history: what the instance was started on

restoreVars == <<phase, sentinel, leaf, staging, restored, work, booted>>

Blank == [l \in Leaves |-> Fresh]
Nothing == [l \in Leaves |-> None]

\* _validate_job, _validate_receipt: the entry binds the point it installs.
RestoreJobs == [phase : {"pending", "staged", "committed"}, record : Receipts]
ASSUME EntryAssumption == None \notin RestoreJobs

\* The point a job or a request names.
Point(x) == finals[x.repository][x.snapshot]

At(s, p) == restored[s] # None /\ restored[s].phase = p

RestoreInit ==
    /\ phase = "prepared" /\ sentinel = None
    /\ leaf = Blank /\ staging = None
    /\ restored = [s \in Restores |-> None]
    /\ work = None /\ booted = None

(***************************************************************************)
(* stage.                                                                  *)
(***************************************************************************)

\* Mutant: the leaves of an instance without a sentinel are not looked at.
MutClaim(s, r, i) ==
    /\ work = None /\ restored[s] = None /\ phase = "prepared" /\ sentinel \in {None, s}
    /\ sentinel' = s
    /\ work' = [step |-> "verify", restore |-> s, repository |-> r, snapshot |-> i]
    /\ UNCHANGED <<phase, leaf, staging, restored, booted>>
\* Mutant: a sentinel without a journal entry is a foreign one.
MutReclaim(s, r, i) ==
    /\ work = None /\ restored[s] = None /\ phase = "prepared"
    /\ sentinel = None /\ leaf = Blank /\ staging = None
    /\ sentinel' = s
    /\ work' = [step |-> "verify", restore |-> s, repository |-> r, snapshot |-> i]
    /\ UNCHANGED <<phase, leaf, staging, restored, booted>>
\* _target_context and _claim_sentinel, under the lock of the worker: the
\* instance is prepared, and the sentinel is ours or, for a restore without a
\* journal entry, is put into an instance as it was prepared.
Claim(s, r, i) ==
    /\ work = None /\ ~At(s, "committed")
    /\ restored[s] # None =>
          restored[s].record.repository = r /\ restored[s].record.snapshot = i
    /\ phase = "prepared"
    /\ \/ sentinel = s
       \/ sentinel = None /\ restored[s] = None /\ leaf = Blank /\ staging = None
    /\ sentinel' = s
    /\ work' = [step |-> "verify", restore |-> s, repository |-> r, snapshot |-> i]
    /\ UNCHANGED <<phase, leaf, staging, restored, booted>>

\* The claimed instance is observed again, the point is verified, and the
\* entry is journaled; a pending one starts over with an empty staging area.
Verify ==
    /\ work # None /\ work.step = "verify" /\ phase = "prepared"
    /\ Sound(Point(work))
    /\ LET s == work.restore IN
       /\ restored' = IF restored[s] # None THEN restored
             ELSE [restored EXCEPT ![s] =
                      [phase |-> "pending", record |-> Receipt(work.repository, work.snapshot)]]
       /\ IF At(s, "staged") THEN work' = None /\ UNCHANGED staging
          ELSE staging' = Nothing /\ work' = [work EXCEPT !.step = "extract"]
    /\ UNCHANGED <<phase, sentinel, leaf, booted>>

\* A new claim is unwound when the point does not verify or was captured under
\* other secrets.  What a journal entry binds was verified, and stays so.
Refuse ==
    /\ work # None /\ work.step = "verify" /\ phase = "prepared"
    /\ restored[work.restore] = None
    /\ sentinel' = None
    /\ work' = None
    /\ UNCHANGED <<phase, leaf, staging, restored, booted>>

\* One more directory is copied through the idmapped view.
Extract ==
    /\ work # None /\ work.step = "extract"
    /\ \E l \in Leaves :
          staging[l] = None /\ staging' = [staging EXCEPT ![l] = Point(work).tree[l]]
    /\ UNCHANGED <<phase, sentinel, leaf, restored, work, booted>>

\* The copy is complete and durable: only now is the entry staged.
Staged ==
    /\ work # None /\ work.step = "extract" /\ \A l \in Leaves : staging[l] # None
    /\ restored' = [restored EXCEPT ![work.restore].phase = "staged"]
    /\ work' = None
    /\ UNCHANGED <<phase, sentinel, leaf, staging, booted>>

(***************************************************************************)
(* commit.                                                                 *)
(***************************************************************************)

\* A staged entry and an instance that is still as it was prepared; a sentinel
\* that is gone is taken for the work of an earlier commit.
Commit(s) ==
    /\ work = None /\ At(s, "staged")
    /\ phase = "prepared" /\ sentinel \in {None, s}
    /\ work' = [step |-> "move", restore |-> s, repository |-> restored[s].record.repository,
                snapshot |-> restored[s].record.snapshot]
    /\ UNCHANGED <<phase, sentinel, leaf, staging, restored, booted>>

Unmoved == IF staging = None THEN {} ELSE {l \in Leaves : staging[l] # None}

\* One leaf: the empty directory is removed, the staged one takes its name.
Move ==
    /\ work # None /\ work.step = "move"
    /\ \E l \in Unmoved :
          \/ leaf[l] = Fresh /\ leaf' = [leaf EXCEPT ![l] = None] /\ UNCHANGED staging
          \/ /\ leaf[l] = None
             /\ leaf' = [leaf EXCEPT ![l] = staging[l]]
             /\ staging' = [staging EXCEPT ![l] = None]
    /\ UNCHANGED <<phase, sentinel, restored, work, booted>>

\* Every leaf is in place: the staging area goes, then the sentinel.
Unstage ==
    /\ work # None /\ work.step = "move"
    /\ Unmoved = {} /\ \A l \in Leaves : leaf[l] # None
    /\ staging' = None
    /\ work' = [work EXCEPT !.step = "unclaim"]
    /\ UNCHANGED <<phase, sentinel, leaf, restored, booted>>

Unclaim ==
    /\ work # None /\ work.step = "unclaim"
    /\ sentinel' = None
    /\ work' = [work EXCEPT !.step = "record"]
    /\ UNCHANGED <<phase, leaf, staging, restored, booted>>

Record ==
    /\ work # None /\ work.step = "record"
    /\ restored' = [restored EXCEPT ![work.restore].phase = "committed"]
    /\ work' = None
    /\ UNCHANGED <<phase, sentinel, leaf, staging, booted>>

\* The instance is no longer prepared when it is observed after the claim.
Blocked ==
    /\ work # None /\ work.step = "verify" /\ phase # "prepared"
    /\ work' = None
    /\ UNCHANGED <<phase, sentinel, leaf, staging, restored, booted>>

\* A command fails, the clock is invalid, or the worker is killed.
Interrupt ==
    /\ work # None /\ faults < MaxFaults
    /\ faults' = faults + 1 /\ work' = None
    /\ UNCHANGED <<phase, sentinel, leaf, staging, restored, booted>>

(***************************************************************************)
(* The instance in the worker, external to this component.                 *)
(***************************************************************************)

\* Mutant: a sentinel does not refuse it.
MutStart ==
    /\ phase = "prepared" /\ staging = None /\ \A l \in Leaves : leaf[l] # None
    /\ phase' = "started" /\ booted' = leaf
    /\ UNCHANGED <<sentinel, leaf, staging, restored, work>>
\* start: refused while a sentinel is there (_restore_pending) and while the
\* state directories are not exactly the leaves (_check_state_dirs).
Start ==
    /\ phase = "prepared" /\ sentinel = None
    /\ staging = None /\ \A l \in Leaves : leaf[l] # None
    /\ phase' = "started" /\ booted' = leaf
    /\ UNCHANGED <<sentinel, leaf, staging, restored, work>>

Retire ==
    /\ phase = "prepared" /\ phase' = "retired"
    /\ UNCHANGED <<sentinel, leaf, staging, restored, work, booted>>

StageRequest(s) ==
    /\ \E r \in Destinations : \E i \in DOMAIN finals[r] : Claim(s, r, i)
    /\ UNCHANGED faults

RestoreStep ==
    /\ \/ Verify \/ Refuse \/ Extract \/ Staged
       \/ Move \/ Unstage \/ Unclaim \/ Record \/ Blocked
    /\ UNCHANGED faults

RestoreNext ==
    \/ RestoreStep \/ Interrupt
    \/ \E s \in Restores : StageRequest(s) \/ (Commit(s) /\ UNCHANGED faults)
    \/ (Start \/ Retire) /\ UNCHANGED faults
=============================================================================
