---------------------------- MODULE Distribution ----------------------------
(***************************************************************************)
(* The distribution of workload bundles (console/distribution.py): a fetch *)
(* copies an approved bundle into the Nix store, verifies it and keeps it  *)
(* from the garbage collector.                                             *)
(*                                                                         *)
(* One bundle and the references that may be asked for it.  A fetch holds  *)
(* the lock, every command of it is a step, and the collector may run      *)
(* between any two.  The record of a reference is replaced atomically.     *)
(***************************************************************************)
EXTENDS Naturals

CONSTANTS
    References,     \* reference ids
    MaxFaults,      \* bound: kills, failed commands, changed files, lost answers
    None

ASSUME DistributionAssumption == MaxFaults \in Nat

VARIABLES
    store,      \* the bundle in the store of the host
    record,     \* the record of a reference; "none" when there is no file
    root,       \* the references whose symlink in roots/ is an indirect root
    fetch,      \* the fetch that holds the lock
    faults      \* failures so far, at most MaxFaults

distributionVars == <<store, record, root, fetch>>

\* "unsigned": valid for the store, without a signature of a trusted key;
\* "damaged": a file of it is not what it was.
StoreStates == {"absent", "unsigned", "signed", "damaged"}

FetchSteps == {"copy", "sign", "verify", "root", "check", "keep"}

Fetches == [step : FetchSteps, ref : References]

ASSUME FetchAssumption == None \notin Fetches

DistributionTypeOK ==
    /\ store \in StoreStates
    /\ record \in [References -> {"none", "pending", "retained"}]
    /\ root \subseteq References
    /\ fetch \in Fetches \cup {None}

\* A bundle may have come to the host by another way.
DistributionInit ==
    /\ store \in {"absent", "unsigned"}
    /\ record = [r \in References |-> "none"]
    /\ root = {} /\ fetch = None

Fetching(step) == fetch # None /\ fetch.step = step
Proceed(step) == fetch' = [fetch EXCEPT !.step = step]

\* _fetch: the record is bound again, as pending, before anything is verified.
Fetch(r) ==
    /\ fetch = None
    /\ record' = [record EXCEPT ![r] = "pending"]
    /\ fetch' = [step |-> "copy", ref |-> r]
    /\ UNCHANGED <<store, root>>

\* nix copy: a path that is valid here is left as it is.
CopyIn ==
    /\ Fetching("copy") /\ Proceed("sign")
    /\ store' = IF store = "absent" THEN "signed" ELSE store
    /\ UNCHANGED <<record, root>>

\* store copy-sigs.
CopySignatures ==
    /\ Fetching("sign") /\ Proceed("verify") /\ store # "absent"
    /\ store' = IF store = "unsigned" THEN "signed" ELSE store
    /\ UNCHANGED <<record, root>>

\* Mutant: the record is written as retained before the root is made.
MutVerifyBundle ==
    /\ Fetching("verify") /\ Proceed("keep") /\ store = "signed"
    /\ UNCHANGED <<store, record, root>>

\* store verify, the files of the bundle, and the closure against its manifest.
VerifyBundle ==
    /\ Fetching("verify") /\ Proceed("root") /\ store = "signed"
    /\ UNCHANGED <<store, record, root>>

\* nix-store --add-root --realise.
AddRoot ==
    /\ Fetching("root") /\ Proceed("check") /\ store # "absent"
    /\ root' = root \cup {fetch.ref}
    /\ UNCHANGED <<store, record>>

\* The symlink is there and names the bundle; both directories are synced.
CheckRoot ==
    /\ Fetching("check") /\ Proceed("keep") /\ fetch.ref \in root
    /\ UNCHANGED <<store, record, root>>

\* The record becomes retained, with the digest of what was verified.
Retain ==
    /\ Fetching("keep")
    /\ record' = [record EXCEPT ![fetch.ref] = "retained"]
    /\ fetch' = None
    /\ UNCHANGED <<store, root>>

\* A command fails because of what it finds: the fetch ends as blocked.
Blocked ==
    /\ \/ Fetching("sign") /\ store = "absent"
       \/ Fetching("verify") /\ store # "signed"
       \/ Fetching("root") /\ store = "absent"
    /\ fetch' = None
    /\ UNCHANGED <<store, record, root>>

\* A command fails, or the program dies.
FetchFails ==
    /\ fetch # None /\ faults < MaxFaults
    /\ faults' = faults + 1
    /\ fetch' = None
    /\ UNCHANGED <<store, record, root>>

\* The collector takes what no root holds; an operator repairs what is damaged.
Collect ==
    /\ store # "absent" /\ root = {}
    /\ store' = "absent"
    /\ UNCHANGED <<record, root, fetch>>
Repair == store = "damaged" /\ store' = "signed" /\ UNCHANGED <<record, root, fetch>>

Damage ==
    /\ store \in {"unsigned", "signed"} /\ faults < MaxFaults
    /\ faults' = faults + 1
    /\ store' = "damaged"
    /\ UNCHANGED <<record, root, fetch>>

FetchStep == CopyIn \/ CopySignatures \/ VerifyBundle \/ AddRoot \/ CheckRoot
             \/ Retain \/ Blocked

DistributionNext ==
    \/ /\ \/ \E r \in References : Fetch(r)
          \/ FetchStep \/ Collect \/ Repair
       /\ UNCHANGED faults
    \/ FetchFails \/ Damage
=============================================================================
