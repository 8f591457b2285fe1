------------------------------- MODULE Backup -------------------------------
(***************************************************************************)
(* The backup worker (console/backup.py): it turns a capture barrier       *)
(* somebody else holds in the worker into a point of the local cache, and  *)
(* copies a captured point to the destinations of the workload.            *)
(*                                                                         *)
(* The lock of the journal admits one request at a time; a request that is *)
(* killed leaves its journal entry, its manifest and perhaps its restic    *)
(* child.  The source (worker.py freeze, thaw, start) goes on under it.    *)
(***************************************************************************)
EXTENDS Repository

CONSTANTS
    MaxWrites       \* bound: a source directory is written so often

ASSUME BackupAssumption == MaxWrites \in Nat /\ Contents = 0 .. MaxWrites

VARIABLES
    live,       \* the state directories of the source
    running,    \* the unit of the source is up
    held,       \* the capture whose barrier the worker holds
    released,   \* captures whose barrier was given up
    frozen,     \* history: what the source held when its barrier was complete
    job,        \* the journal of captures
    scratch,    \* the manifest in the staging directory of a capture
    request     \* the request under the lock of the journal

source == <<live, running, held, released, frozen>>
backupVars == <<source, job, scratch, request>>

\* _validate_job: a journal entry is captured when it has a cache record,
\* and then its completion is set and its copies are the same point.
Jobs == [completed : BOOLEAN, cache : Receipts \cup {None},
         copies : [Destinations -> Receipts \cup {None}]]
ASSUME JobsAssumption == None \notin Jobs

Journaled(j) ==
    /\ j.cache = None => \A d \in Destinations : j.copies[d] = None
    /\ j.cache # None =>
          /\ j.completed /\ j.cache.repository = Cache
          /\ \A d \in Destinations : j.copies[d] # None =>
                j.copies[d].repository = d /\ j.copies[d].manifest = j.cache.manifest

Captured(c) == job[c] # None /\ job[c].cache # None

\* _worker_snapshot: the worker holds the barrier of c and the unit is drained.
Barrier(c) == held = c /\ ~running

BackupInit ==
    /\ live = [l \in Leaves |-> 0] /\ running = TRUE
    /\ held = None /\ released = {} /\ frozen = [c \in Captures |-> None]
    /\ job = [c \in Captures |-> None] /\ scratch = [c \in Captures |-> None]
    /\ request = None

(***************************************************************************)
(* The source, external to this component.                                 *)
(***************************************************************************)

\* The workload writes one of its directories.
Write ==
    /\ running
    /\ \E l \in Leaves :
          live[l] < MaxWrites /\ live' = [live EXCEPT ![l] = @ + 1]
    /\ UNCHANGED <<running, held, released, frozen, job, scratch, request>>

\* freeze: an id is used once, and one barrier is held at a time.
Freeze(c) ==
    /\ held = None /\ c \notin released
    /\ held' = c
    /\ frozen' = IF running THEN frozen ELSE [frozen EXCEPT ![c] = live]
    /\ UNCHANGED <<live, running, released, job, scratch, request>>

\* The unit of a frozen source has stopped.
Drain ==
    /\ held # None /\ running
    /\ running' = FALSE
    /\ frozen' = [frozen EXCEPT ![held] = live]
    /\ UNCHANGED <<live, held, released, job, scratch, request>>

\* thaw: the barrier is given up for good; the unit stays stopped.
Thaw ==
    /\ held # None /\ ~running
    /\ released' = released \cup {held} /\ held' = None
    /\ UNCHANGED <<live, running, frozen, job, scratch, request>>

\* start, refused while a barrier is held.
Resume ==
    /\ held = None /\ ~running
    /\ running' = TRUE
    /\ UNCHANGED <<live, held, released, frozen, job, scratch, request>>

(***************************************************************************)
(* capture.                                                                *)
(***************************************************************************)
Empty == <<>>
Reading == request # None /\ request.step \in {"draft", "final"}
Whole == DOMAIN request.tree = Leaves

Working(step, c, r) == [step |-> step, capture |-> c, repository |-> r,
                        tree |-> Empty, manifest |-> Empty, snapshot |-> 0]

\* A request that goes on to journal the snapshot i of its repository.
Keeping(i) == [request EXCEPT !.step = "keep", !.snapshot = i]

\* A new or an unfinished capture: the barrier is proved before the entry is
\* written, and an entry that may have a point in the cache looks there first.
Begin(c) ==
    /\ request = None /\ ~Captured(c)
    /\ job[c] # None => ~(job[c].completed /\ Tagged(finals[Cache], c) # {})
    /\ Barrier(c)
    /\ job' = IF job[c] # None THEN job
              ELSE [job EXCEPT ![c] = [completed |-> FALSE, cache |-> None,
                                       copies |-> [d \in Destinations |-> None]]]
    /\ request' = Working("draft", c, Cache)
    /\ UNCHANGED <<source, scratch, finals>>

\* Mutant: a second final under the tag is a conflict.
MutAdopt(c) ==
    /\ request = None /\ job[c] # None /\ ~Captured(c) /\ job[c].completed
    /\ \E i \in Tagged(finals[Cache], c) :
          /\ Tagged(finals[Cache], c) = {i} /\ Sound(finals[Cache][i])
          /\ request' = [Working("keep", c, Cache) EXCEPT !.snapshot = i]
    /\ UNCHANGED <<source, job, scratch, finals>>
\* _find_cached_point: the retry of a capture whose completion was journaled
\* takes a final it finds under the tag, whether the barrier is held or not.
Adopt(c) ==
    /\ request = None /\ job[c] # None /\ ~Captured(c) /\ job[c].completed
    /\ \A i \in Tagged(finals[Cache], c) : Sound(finals[Cache][i])
    /\ \E i \in Tagged(finals[Cache], c) :
          request' = [Working("keep", c, Cache) EXCEPT !.snapshot = i]
    /\ UNCHANGED <<source, job, scratch, finals>>

\* restic reads one more directory of the source.
Extended(tree, l) == [k \in DOMAIN tree \cup {l} |-> IF k = l THEN live[l] ELSE tree[k]]
Read ==
    /\ Reading
    /\ \E l \in Leaves \ DOMAIN request.tree :
          request' = [request EXCEPT !.tree = Extended(@, l)]
    /\ UNCHANGED <<source, job, scratch, finals>>

\* Mutant: the barrier proved before the draft is trusted.
MutSeal ==
    /\ request # None /\ request.step = "draft" /\ Whole
    /\ job' = [job EXCEPT ![request.capture].completed = TRUE]
    /\ request' = [request EXCEPT !.step = "compose", !.manifest = request.tree]
    /\ UNCHANGED <<source, scratch, finals>>
\* _persist_completed: the barrier is proved again once the draft is read.
Seal ==
    /\ request # None /\ request.step = "draft" /\ Whole
    /\ IF Barrier(request.capture)
       THEN /\ job' = [job EXCEPT ![request.capture].completed = TRUE]
            /\ request' = [request EXCEPT !.step = "compose", !.manifest = request.tree]
       ELSE request' = None /\ UNCHANGED job
    /\ UNCHANGED <<source, scratch, finals>>

\* store, after the checkpoint: the manifest goes to the staging directory,
\* where another one is a conflict; a final already under the tag is taken
\* if it is this point, and otherwise the final backup starts.
Compose ==
    /\ request # None /\ request.step = "compose"
    /\ LET c == request.capture IN
       IF scratch[c] \notin {None, request.manifest}
       THEN request' = None /\ UNCHANGED scratch
       ELSE /\ scratch' = [scratch EXCEPT ![c] = request.manifest]
            /\ \/ Tagged(finals[Cache], c) = {}
                  /\ request' = [request EXCEPT !.step = "final", !.tree = Empty]
               \/ ~Unanimous(finals[Cache], c, request.manifest) /\ request' = None
               \/ Unanimous(finals[Cache], c, request.manifest)
                  /\ \E i \in Tagged(finals[Cache], c) : request' = Keeping(i)
    /\ UNCHANGED <<source, job, finals>>

\* The final backup is written; what it read is compared with the manifest.
Store ==
    /\ request # None /\ request.step = "final" /\ Whole
    /\ LET s == [capture |-> request.capture, tree |-> request.tree,
                 manifest |-> request.manifest]
       IN  /\ Append1(Cache, s)
           /\ request' = IF Sound(s) THEN Keeping(Len(finals'[Cache])) ELSE None
    /\ UNCHANGED <<source, job, scratch>>

(***************************************************************************)
(* upload, and the journal.                                                *)
(***************************************************************************)

\* copy_from: the cached point must still be the one of the journal, and
\* what the destination has under the tag must be that point.
Upload(c, d) ==
    /\ request = None /\ Captured(c) /\ job[c].copies[d] = None
    /\ Intact(job[c].cache)
    /\ Unanimous(finals[d], c, job[c].cache.manifest)
    /\ LET point == finals[Cache][job[c].cache.snapshot]
           copy == [Working("copy", c, d) EXCEPT !.tree = point.tree, !.manifest = point.manifest]
       IN  IF Tagged(finals[d], c) = {} THEN request' = copy
           ELSE \E i \in Tagged(finals[d], c) :
                   request' = [copy EXCEPT !.step = "keep", !.snapshot = i]
    /\ UNCHANGED <<source, job, scratch, finals>>

\* The copy has arrived; the destination is asked again for what it has.
Copy ==
    /\ request # None /\ request.step = "copy"
    /\ LET d == request.repository
           s == [capture |-> request.capture, tree |-> request.tree,
                 manifest |-> request.manifest]
           listing == Append(finals[d], s)
       IN  /\ Append1(d, s)
           /\ IF Unanimous(listing, s.capture, s.manifest)
              THEN \E i \in Tagged(listing, s.capture) : request' = Keeping(i)
              ELSE request' = None
    /\ UNCHANGED <<source, job, scratch>>

\* The record is journaled: the capture is captured, or a copy is recorded.
Keep ==
    /\ request # None /\ request.step = "keep"
    /\ LET r == request.repository
           record == Receipt(r, request.snapshot)
       IN  job' = [job EXCEPT ![request.capture] =
                      IF r = Cache THEN [@ EXCEPT !.cache = record]
                      ELSE [@ EXCEPT !.copies[r] = record]]
    /\ request' = None
    /\ UNCHANGED <<source, scratch, finals>>

(***************************************************************************)
(* Failures.                                                               *)
(***************************************************************************)

\* A command fails, or the worker is killed; its restic may be left behind.
Kill ==
    /\ request # None /\ faults < MaxFaults
    /\ faults' = faults + 1
    /\ request' = None
    /\ \/ UNCHANGED orphans
       \/ /\ request.step \in {"final", "copy"}
          /\ orphans' = orphans \cup {[repository |-> request.repository,
                capture |-> request.capture, tree |-> request.tree,
                manifest |-> request.manifest]}
    /\ UNCHANGED <<source, job, scratch, finals>>

\* An orphan backup reads on, whatever the source is doing by now.
OrphanRead ==
    /\ \E o \in orphans, l \in Leaves :
          /\ l \notin DOMAIN o.tree
          /\ orphans' = (orphans \ {o}) \cup {[o EXCEPT !.tree = Extended(@, l)]}
    /\ UNCHANGED <<source, job, scratch, request, finals, faults>>

SourceStep ==
    /\ \/ Write \/ Drain \/ Thaw \/ Resume
       \/ \E c \in Captures : Freeze(c)
    /\ UNCHANGED <<finals, orphans, faults>>

RequestStep ==
    /\ \/ Read \/ Seal \/ Compose \/ Store \/ Copy \/ Keep
    /\ UNCHANGED <<orphans, faults>>

Retry(c) ==
    /\ \/ Begin(c) \/ Adopt(c)
       \/ \E d \in Destinations : Upload(c, d)
    /\ UNCHANGED <<orphans, faults>>

OrphanStep == Orphan /\ UNCHANGED <<source, job, scratch, request, faults>>

BackupNext ==
    \/ SourceStep \/ RequestStep \/ Kill \/ OrphanRead \/ OrphanStep
    \/ \E c \in Captures : Retry(c)
=============================================================================
