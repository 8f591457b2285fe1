------------------------------ MODULE Provision ------------------------------
(***************************************************************************)
(* What a prepare and an adopt of the worker do on the disk of the host    *)
(* (console/worker.py), with the secrets program they run                  *)
(* (console/secrets.py): the directories of the instance, the unsealed     *)
(* secrets and the marker that says which version of them is in place.     *)
(*                                                                         *)
(* One instance with one state mount and one secret set.  A call holds the *)
(* lock of the worker.  The secrets program runs in a session of its own,  *)
(* so one whose worker was killed writes on; the escrow is two files that  *)
(* an operator replaces one after the other.                               *)
(***************************************************************************)
EXTENDS Distribution

CONSTANTS
    Versions,       \* sealed versions of the secret set, in the order they were sealed
    Names,          \* names of secret files
    FilesOf,        \* the files of a version
    Rollback        \* whether an operator may put an older version back

ASSUME ProvisionAssumption ==
    /\ Versions \subseteq Nat
    /\ FilesOf \in [Versions -> (SUBSET Names) \ {{}}]
    /\ Rollback \in BOOLEAN

VARIABLES
    escrow,     \* the version of the escrow record and of the sealed blob
    replaced,   \* whether a file of the escrow was ever replaced
    phase,      \* the row: none, preparing, prepared
    adopted,    \* the row's provenance
    dir,        \* the instance directory; None while there is none
    call,       \* the call under the lock; None while there is none
    orphans     \* secrets programs nobody waits for

provisionVars == <<escrow, replaced, phase, adopted, dir, call, orphans>>

Owners == {"root", "slot"}

\* A file holds what one version says it holds.
FileStates == [version : Versions, owner : Owners]
Files == UNION {[names -> FileStates] : names \in SUBSET Names}
NoFiles == [n \in {} |-> None]

Trees == [owner : Owners, files : Files]

\* `temporary`: the new marker has not been renamed yet.
Dirs == [owner : Owners, leaf : Owners \cup {None}, secrets : Trees \cup {None},
         marker : Versions \cup {None}, temporary : BOOLEAN]

\* A secrets program: what it has yet to write.
Programs == [step : {"open", "write"}, version : Versions, todo : SUBSET Names]

Steps == {"claim", "allocate", "leaf", "own", "load", "wipe", "remove", "unmark",
          "run", "gather", "give", "mark", "rename", "render"}

\* `names` is a listing of secrets/, less what the call is done with.
Calls == [step : Steps, version : Versions \cup {None}, names : SUBSET Names,
          program : Programs \cup {None}]

ASSUME AbsentAssumption ==
    /\ None \notin Dirs /\ None \notin Calls
    /\ None \notin Trees /\ None \notin Programs
    /\ None \notin Versions /\ None \notin Owners

ProvisionTypeOK ==
    /\ escrow \in [record : Versions, blob : Versions]
    /\ replaced \in BOOLEAN
    /\ phase \in {"none", "preparing", "prepared"} /\ adopted \in BOOLEAN
    /\ dir \in Dirs \cup {None}
    /\ call \in Calls \cup {None}
    /\ orphans \subseteq Programs
    /\ faults \in 0 .. MaxFaults

\* A replica of an instance that a peer prepared, all of it or what has arrived.
Replica(v, secrets, marker) ==
    [owner |-> "slot", leaf |-> "slot",
     secrets |-> IF secrets
                 THEN [owner |-> "slot",
                       files |-> [n \in FilesOf[v] |-> [version |-> v, owner |-> "slot"]]]
                 ELSE None,
     marker |-> IF marker THEN v ELSE None, temporary |-> FALSE]

ProvisionInit ==
    /\ escrow \in {[record |-> v, blob |-> v] : v \in Versions}
    /\ replaced = FALSE
    /\ phase = "none" /\ adopted = FALSE
    /\ \/ dir = None
       \/ \E v \in Versions, s, m \in BOOLEAN : dir = Replica(v, s, m)
    /\ call = None /\ orphans = {}

At(step) == call # None /\ call.step = step
Goto(step) == call' = [call EXCEPT !.step = step]
Tree == dir.secrets
Listed == DOMAIN dir.secrets.files
Filled(files) == [dir EXCEPT !.secrets = [owner |-> Tree.owner, files |-> files]]

\* WorkerError, or an error of the system: the call ends, the disk stays.
Stop == call' = None /\ UNCHANGED <<phase, adopted, dir>>

NewCall(step) ==
    call' = [step |-> step, version |-> None, names |-> {}, program |-> None]

(***************************************************************************)
(* The row.                                                                *)
(***************************************************************************)

\* The owners and the shape a matching pair of secrets/ and marker must have.
SlotOwned(tree) ==
    /\ tree # None /\ tree.owner = "slot" /\ DOMAIN tree.files # {}
    /\ \A n \in DOMAIN tree.files : tree.files[n].owner = "slot"

\* _verify_closure of the worker: every path of the bundle is there and is
\* what it was.
Intact == store \in {"unsigned", "signed"}

\* _adopt_dirs and _adopt_secrets, before the row is journaled.
Adoptable ==
    /\ dir # None /\ dir.owner = "slot" /\ dir.leaf = "slot"
    /\ SlotOwned(dir.secrets) /\ dir.marker = escrow.record

\* _prepare of an instance without a row: its directory must not be there.
Prepare ==
    /\ call = None /\ phase = "none" /\ dir = None
    /\ phase' = "preparing" /\ adopted' = FALSE
    /\ NewCall("allocate")
    /\ UNCHANGED <<escrow, replaced, dir, orphans>>

Adopt ==
    /\ call = None /\ phase = "none" /\ Adoptable
    /\ phase' = "preparing" /\ adopted' = TRUE
    /\ NewCall("claim")
    /\ UNCHANGED <<escrow, replaced, dir, orphans>>

\* _prepare of an instance whose row says preparing.
Resume ==
    /\ call = None /\ phase = "preparing"
    /\ NewCall(IF adopted THEN "claim" ELSE "allocate")
    /\ UNCHANGED <<escrow, replaced, phase, adopted, dir, orphans>>

(***************************************************************************)
(* The directories.                                                        *)
(***************************************************************************)

\* _adopt_dirs with a journaled row, and the chown that claims the directory.
Claim ==
    /\ At("claim")
    /\ dir' = [dir EXCEPT !.owner = "root"]
    /\ Goto("load")
    /\ UNCHANGED <<escrow, replaced, phase, adopted, orphans>>

\* _allocate_state_dirs: nothing but the mounts, secrets/ and the marker may be
\* there from an earlier attempt.
Allocate ==
    /\ At("allocate")
    /\ \/ /\ dir = None
          /\ dir' = [owner |-> "root", leaf |-> None, secrets |-> None,
                     marker |-> None, temporary |-> FALSE]
          /\ Goto("leaf")
          /\ UNCHANGED <<phase, adopted>>
       \/ dir # None /\ ~dir.temporary /\ Goto("leaf") /\ UNCHANGED <<phase, adopted, dir>>
       \/ dir # None /\ dir.temporary /\ Stop
    /\ UNCHANGED <<escrow, replaced, orphans>>

\* Mutant: a leaf of an earlier attempt is a conflict.
MutMakeLeaf ==
    /\ At("leaf")
    /\ IF dir.leaf = None
       THEN dir' = [dir EXCEPT !.leaf = "root"] /\ Goto("own") /\ UNCHANGED <<phase, adopted>>
       ELSE Stop
    /\ UNCHANGED <<escrow, replaced, orphans>>
MakeLeaf ==
    /\ At("leaf")
    /\ dir' = [dir EXCEPT !.leaf = IF @ = None THEN "root" ELSE @]
    /\ Goto("own")
    /\ UNCHANGED <<escrow, replaced, phase, adopted, orphans>>

OwnLeaf ==
    /\ At("own")
    /\ dir' = [dir EXCEPT !.leaf = "slot"]
    /\ Goto("load")
    /\ UNCHANGED <<escrow, replaced, phase, adopted, orphans>>

(***************************************************************************)
(* _provision_secrets.                                                     *)
(***************************************************************************)

\* The owner root and the shape of what a program has left.
Unsealed ==
    /\ Tree # None /\ Tree.owner = "root" /\ Listed # {}
    /\ \A n \in Listed : Tree.files[n].owner = "root"

\* Mutant: an adopted replica is provisioned like any other.
MutMayProvision == TRUE

\* An adopted replica is never provisioned over.
MayProvision == ~adopted

\* Mutant: the files an earlier attempt has left are taken as provisioned.
MutTearDown ==
    CASE Tree # None /\ Unsealed -> "gather"
      [] Tree # None /\ ~Unsealed -> "wipe"
      [] Tree = None /\ dir.marker # None -> "unmark"
      [] OTHER -> "run"

\* Whatever an earlier attempt has left goes before the program runs.
TearDown ==
    CASE Tree # None -> "wipe"
      [] Tree = None /\ dir.marker # None -> "unmark"
      [] OTHER -> "run"

\* The escrow record is read.  A marker of that version says done.
Load ==
    /\ At("load")
    /\ \/ /\ dir.marker = escrow.record /\ SlotOwned(Tree)
          /\ call' = [call EXCEPT !.step = "render", !.version = escrow.record]
          /\ UNCHANGED <<phase, adopted, dir>>
       \/ dir.marker = escrow.record /\ ~SlotOwned(Tree) /\ Stop
       \/ dir.marker # escrow.record /\ ~MayProvision /\ Stop
       \/ /\ dir.marker # escrow.record /\ MayProvision
          /\ call' = [call EXCEPT !.step = TearDown, !.version = escrow.record,
                        !.names = IF Tree # None THEN Listed ELSE {}]
          /\ UNCHANGED <<phase, adopted, dir>>
    /\ UNCHANGED <<escrow, replaced, orphans>>

\* _wipe_secrets_dir: the files of the listing, one by one.
Unlink ==
    /\ At("wipe")
    /\ IF call.names = {}
       THEN Goto("remove") /\ UNCHANGED dir
       ELSE \E n \in call.names :
              /\ dir' = Filled([m \in Listed \ {n} |-> Tree.files[m]])
              /\ call' = [call EXCEPT !.names = @ \ {n}]
    /\ UNCHANGED <<escrow, replaced, phase, adopted, orphans>>

\* rmdir, which fails on what came in since the listing.
Remove ==
    /\ At("remove")
    /\ IF Tree # None /\ Listed = {}
       THEN /\ dir' = [dir EXCEPT !.secrets = None]
            /\ Goto(IF dir.marker # None THEN "unmark" ELSE "run")
            /\ UNCHANGED <<phase, adopted>>
       ELSE Stop
    /\ UNCHANGED <<escrow, replaced, orphans>>

Unmark ==
    /\ At("unmark")
    /\ dir' = [dir EXCEPT !.marker = None]
    /\ Goto("run")
    /\ UNCHANGED <<escrow, replaced, phase, adopted, orphans>>

\* _run_secrets_cli: the program is started and waited for.
Run ==
    /\ At("run")
    /\ call' = [call EXCEPT !.step = "gather",
                  !.program = [step |-> "open", version |-> call.version,
                               todo |-> FilesOf[call.version]]]
    /\ UNCHANGED <<escrow, replaced, phase, adopted, dir, orphans>>

\* The program has answered: what it left is listed and looked at.
Gather ==
    /\ At("gather") /\ call.program = None
    /\ IF Unsealed
       THEN call' = [call EXCEPT !.step = "give", !.names = Listed]
            /\ UNCHANGED <<phase, adopted, dir>>
       ELSE Stop
    /\ UNCHANGED <<escrow, replaced, orphans>>

\* The listed files are given to the slot one by one, then the directory.
Give ==
    /\ At("give")
    /\ IF call.names = {}
       THEN /\ dir' = [dir EXCEPT !.secrets = [owner |-> "slot", files |-> Tree.files]]
            /\ Goto("mark")
       ELSE \E n \in call.names :
              /\ dir' = Filled([Tree.files EXCEPT ![n] =
                                   [version |-> @.version, owner |-> "slot"]])
              /\ call' = [call EXCEPT !.names = @ \ {n}]
    /\ UNCHANGED <<escrow, replaced, phase, adopted, orphans>>

\* write_file: a temporary file beside the marker, then a rename.
Mark ==
    /\ At("mark")
    /\ dir' = [dir EXCEPT !.temporary = TRUE]
    /\ Goto("rename")
    /\ UNCHANGED <<escrow, replaced, phase, adopted, orphans>>

Rename ==
    /\ At("rename")
    /\ dir' = [dir EXCEPT !.marker = call.version, !.temporary = FALSE]
    /\ Goto("render")
    /\ UNCHANGED <<escrow, replaced, phase, adopted, orphans>>

\* The runtime files, and the commit of the phase.
Render ==
    /\ At("render")
    /\ phase' = "prepared" /\ call' = None
    /\ UNCHANGED <<escrow, replaced, adopted, dir, orphans>>

(***************************************************************************)
(* The secrets program (provision), waited for or not.                     *)
(***************************************************************************)

\* _check_target: the target is not there, or it is private and empty.
TargetReady == Tree # None => Tree.owner = "root" /\ Listed = {}

\* The blob is read and proved to be the envelope's, then the target is made.
Opens(p) == p.step = "open" /\ escrow.blob = p.version /\ TargetReady
Open(p) ==
    /\ Opens(p)
    /\ dir' = [dir EXCEPT !.secrets = IF @ = None THEN [owner |-> "root", files |-> NoFiles]
                                      ELSE @]
Opened(p) == [p EXCEPT !.step = "write"]

\* _write_secret: O_EXCL, by the path.
Writes(p, n) == p.step = "write" /\ Tree # None /\ n \notin Listed
Write(p, n) ==
    /\ Writes(p, n)
    /\ dir' = Filled([m \in Listed \cup {n} |->
                        IF m = n THEN [version |-> p.version, owner |-> "root"]
                        ELSE Tree.files[m]])
Written(p, n) == [p EXCEPT !.todo = @ \ {n}]

Done(p) == p.step = "write" /\ p.todo = {}
Fails(p) ==
    \/ p.step = "open" /\ ~Opens(p)
    \/ p.step = "write" /\ \E n \in p.todo : ~Writes(p, n)

Program ==
    /\ call # None /\ call.program # None
    /\ LET p == call.program IN
       \/ /\ Open(p) /\ call' = [call EXCEPT !.program = Opened(p)]
          /\ UNCHANGED <<phase, adopted>>
       \/ /\ \E n \in p.todo : Write(p, n) /\ call' = [call EXCEPT !.program = Written(p, n)]
          /\ UNCHANGED <<phase, adopted>>
       \/ /\ Done(p) /\ call' = [call EXCEPT !.program = None]
          /\ UNCHANGED <<phase, adopted, dir>>
       \/ Fails(p) /\ Stop
    /\ UNCHANGED <<escrow, replaced, orphans>>

OrphanStep ==
    \E p \in orphans :
       /\ \/ Open(p) /\ orphans' = (orphans \ {p}) \cup {Opened(p)}
          \/ \E n \in p.todo :
                Write(p, n) /\ orphans' = (orphans \ {p}) \cup {Written(p, n)}
          \/ (Done(p) \/ Fails(p)) /\ orphans' = orphans \ {p} /\ UNCHANGED dir
       /\ UNCHANGED <<escrow, replaced, phase, adopted, call>>

(***************************************************************************)
(* Failures, and the operator.                                             *)
(***************************************************************************)

\* The worker is killed, and a program it waits for lives on; or a command or
\* the program fails or takes too long, and is killed with its group.
Interrupt ==
    /\ call # None /\ faults < MaxFaults
    /\ faults' = faults + 1
    /\ call' = None
    /\ \/ UNCHANGED dir
       \/ call.program = None /\ dir # None /\ dir.temporary /\ dir' = [dir EXCEPT !.temporary = FALSE]
    /\ orphans' \in {orphans} \cup
          (IF call.program = None THEN {} ELSE {orphans \cup {call.program}})
    /\ UNCHANGED <<escrow, replaced, phase, adopted>>

\* An operator seals a version and puts its record and its blob in place.
Rotate ==
    /\ replaced' = TRUE
    /\ \E v \in Versions, file \in {"record", "blob"} :
          /\ v > escrow[file] \/ (Rollback /\ v # escrow[file])
          /\ escrow' = [escrow EXCEPT ![file] = v]
    /\ UNCHANGED <<phase, adopted, dir, call, orphans>>

ProvisionStep ==
    \/ Claim \/ Allocate \/ MakeLeaf \/ OwnLeaf
    \/ Load \/ Unlink \/ Remove \/ Unmark \/ Run \/ Program
    \/ Gather \/ Give \/ Mark \/ Rename \/ Render

Begin == Intact /\ (Prepare \/ Adopt \/ Resume)

ProvisionNext ==
    \/ (Begin \/ ProvisionStep \/ OrphanStep \/ Rotate) /\ UNCHANGED faults
    \/ Interrupt
=============================================================================
