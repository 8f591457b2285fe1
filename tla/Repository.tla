----------------------------- MODULE Repository -----------------------------
(***************************************************************************)
(* The restic repositories as console/repository.py uses them: the local   *)
(* cache a capture is stored in, and the destinations it is copied to.     *)
(* Only final snapshots are kept: a draft is read once, for its tree ids,  *)
(* and never listed.                                                       *)
(*                                                                         *)
(* restic is external.  What it promises here: a snapshot is never         *)
(* changed, and its tree says what the backup read.  restic runs in a      *)
(* session of its own (BoundedRunner), so it outlives the worker that      *)
(* started it when that worker is killed: see Orphan.                      *)
(***************************************************************************)
EXTENDS Naturals, Sequences

CONSTANTS
    Leaves,         \* the state mounts of the workload
    Contents,       \* what a state directory may hold
    Captures,       \* capture ids: the tag of a capture's snapshots
    Cache,          \* the local cache
    Destinations,   \* the repositories a capture is copied to
    MaxFaults,      \* bound: requests that are killed
    None

ASSUME RepositoryAssumption ==
    /\ Cache \notin Destinations /\ MaxFaults \in Nat
    /\ None \notin Contents \cup Captures \cup Destinations \cup {Cache}

VARIABLES
    finals,     \* the final snapshots of each repository, as they came
    orphans,    \* restic processes whose parent is gone
    faults      \* requests killed so far

Repositories == Destinations \cup {Cache}
Trees == [Leaves -> Contents]

\* `tree` is what was read, `manifest` the tree ids the sealed manifest binds.
Snapshots == [capture : Captures, tree : Trees, manifest : Trees]

\* What _receipt returns; `snapshot` is the place in finals.
Receipts == [repository : Repositories, snapshot : Nat \ {0}, manifest : Trees]

\* Mutant: the manifest is read, the trees are not.
MutSound(s) == TRUE
\* _inspect_final: the trees of the snapshot are those its manifest binds.
Sound(s) == s.tree = s.manifest

\* What a listing of finals has under the tag of capture c.
Tagged(listing, c) == {i \in DOMAIN listing : listing[i].capture = c}

Receipt(r, i) == [repository |-> r, snapshot |-> i, manifest |-> finals[r][i].manifest]

\* Every final under the tag is sound and is the point `manifest` describes:
\* otherwise repository-point-invalid or capture-conflict.
Unanimous(listing, c, manifest) ==
    \A i \in Tagged(listing, c) :
        Sound(listing[i]) /\ listing[i].manifest = manifest

\* What `inspect` answers is still the record of a journal.
Intact(record) ==
    /\ record.snapshot \in DOMAIN finals[record.repository]
    /\ Sound(finals[record.repository][record.snapshot])
    /\ Receipt(record.repository, record.snapshot) = record

Append1(r, s) == finals' = [finals EXCEPT ![r] = Append(@, s)]

RepositoryInit ==
    finals = [r \in Repositories |-> <<>>] /\ orphans = {} /\ faults = 0

\* An orphan backup writes its snapshot after all.
Orphan ==
    \E o \in orphans :
        /\ DOMAIN o.tree = Leaves
        /\ Append1(o.repository,
                   [capture |-> o.capture, tree |-> o.tree, manifest |-> o.manifest])
        /\ orphans' = orphans \ {o}

RepositoryTypeOK ==
    /\ finals \in [Repositories -> Seq(Snapshots)] /\ faults \in 0 .. MaxFaults
    /\ \A o \in orphans :
          /\ DOMAIN o = {"repository", "capture", "tree", "manifest"}
          /\ o.repository \in Repositories /\ o.capture \in Captures
          /\ DOMAIN o.tree \subseteq Leaves /\ \A l \in DOMAIN o.tree : o.tree[l] \in Contents
          /\ o.manifest \in Trees
=============================================================================
