------------------------------ MODULE Transfer ------------------------------
(***************************************************************************)
(* From a frozen source to a started target: the backup worker of one host *)
(* and the restore worker of another, over the repositories between them.  *)
(***************************************************************************)
EXTENDS Backup, Restore

vars == <<finals, orphans, faults, backupVars, restoreVars>>

Init == RepositoryInit /\ BackupInit /\ RestoreInit

Capturing == BackupNext /\ UNCHANGED restoreVars
Restoring == RestoreNext /\ UNCHANGED <<finals, orphans, backupVars>>

Next == Capturing \/ Restoring

Spec == Init /\ [][Next]_vars

\* The caller (a step of the controller's job, or the operator) asks for the
\* capture, its upload, the stage and the commit again, under the same id,
\* until the answer is `completed`; each worker runs what it began.
Fairness ==
    /\ WF_vars(RequestStep /\ UNCHANGED restoreVars)
    /\ \A c \in Captures : WF_vars(Retry(c) /\ UNCHANGED restoreVars)
    /\ WF_vars(RestoreStep /\ UNCHANGED <<finals, orphans, backupVars>>)
    /\ \A s \in Restores :
          /\ WF_vars(StageRequest(s) /\ UNCHANGED <<finals, orphans, backupVars>>)
          /\ SF_vars(Commit(s) /\ UNCHANGED <<finals, orphans, faults, backupVars>>)

FairSpec == Spec /\ Fairness

(***************************************************************************)
(* Properties.                                                             *)
(***************************************************************************)

TypeOK ==
    /\ RepositoryTypeOK
    /\ live \in Trees /\ running \in BOOLEAN
    /\ held \in Captures \cup {None} /\ released \subseteq Captures
    /\ frozen \in [Captures -> Trees \cup {None}]
    /\ \A c \in Captures : job[c] # None => job[c] \in Jobs /\ Journaled(job[c])
    /\ scratch \in [Captures -> Trees \cup {None}]
    /\ phase \in {"prepared", "started", "retired"}
    /\ sentinel \in Restores \cup {None}
    /\ leaf \in [Leaves -> Contents \cup {Fresh, None}]
    /\ staging \in [Leaves -> Contents \cup {None}] \cup {None}
    /\ \A s \in Restores : restored[s] # None => restored[s] \in RestoreJobs
    /\ booted \in [Leaves -> Contents \cup {Fresh}] \cup {None}

\* A record the journal has accepted, of the cache or of a copy, names a
\* snapshot of exactly what the source held when the barrier of the capture
\* was complete, however the capture was interrupted, retried and thawed.
RecordsFrozen ==
    \A c \in Captures : job[c] # None =>
        \A record \in {job[c].cache} \cup {job[c].copies[d] : d \in Destinations} :
            record # None =>
                Point(record) = [capture |-> c, tree |-> frozen[c], manifest |-> frozen[c]]

\* What a repository offers as a sound point was never read from a source
\* that was running again, not even by a restic nobody waits for any more.
SoundIsFrozen ==
    \A r \in Repositories : \A i \in DOMAIN finals[r] :
        Sound(finals[r][i]) => finals[r][i].tree = frozen[finals[r][i].capture]

\* While a staged restore is being committed, every directory of the point is
\* in the staging area or in place, through any number of crashes.
NothingDropped ==
    \A s \in Restores :
        /\ At(s, "staged") /\ phase = "prepared" =>
              \A l \in Leaves :
                  Point(restored[s].record).tree[l] =
                     IF l \in Unmoved THEN staging[l] ELSE leaf[l]
        /\ At(s, "committed") /\ phase = "prepared" =>
              sentinel = None /\ leaf = Point(restored[s].record).tree

\* The target starts on empty directories or on all of what the source of one
\* capture held when it was frozen.
BootsWhole ==
    booted # None => booted = Blank \/ \E c \in Captures : booted = frozen[c]

\* What whoever may start the instance sees of all this: the points that can
\* be installed, where the instance is, and what it holds.
Offered == {s.tree : s \in {t \in UNION {{finals[r][i] : i \in DOMAIN finals[r]}
                                       : r \in Destinations} : Sound(t)}}
StageSeen == IF phase = "started" THEN "running"
             ELSE IF phase = "retired" THEN "retired"
             ELSE IF sentinel # None THEN "claimed"
             ELSE IF leaf = Blank THEN "fresh" ELSE "installed"
DiskSeen == IF phase = "started" THEN booted
            ELSE IF phase = "prepared" /\ sentinel = None THEN leaf ELSE None

\* To whoever may start the instance a restore is one step: it is as it was
\* prepared, claimed, or holds a whole point.
Promise == INSTANCE Installation WITH points <- Offered, stage <- StageSeen, disk <- DiskSeen
InstallsAtomically == Promise!Spec

\* A capture that was begun reaches the cache and then every destination,
\* unless its barrier is given up before it is captured.
CaptureSettles ==
    \A c \in Captures :
        job[c] # None ~> IF Captured(c) THEN \A d \in Destinations : job[c].copies[d] # None
                         ELSE held # c

\* A claimed instance is given back, started or not: no interrupted restore
\* leaves the sentinel there for good.
Released == sentinel # None ~> sentinel = None \/ phase # "prepared"

\* "a crash after commit replays as completed" (restore.py:27-28): a restore
\* whose sentinel is gone can still be recorded as committed.
CommitReplays ==
    \A s \in Restores : At(s, "staged") /\ sentinel = None => phase = "prepared"
=============================================================================
