----------------------------- MODULE Preparation -----------------------------
(***************************************************************************)
(* What an instance is made from: the bundle the distribution keeps in the *)
(* store and the secrets the worker unseals beside the state directories.  *)
(***************************************************************************)
EXTENDS Provision

vars == <<distributionVars, provisionVars, faults>>

Init == DistributionInit /\ ProvisionInit /\ faults = 0

Preparing == ProvisionNext /\ UNCHANGED distributionVars
Distributing == DistributionNext /\ UNCHANGED provisionVars

Next == Preparing \/ Distributing

Spec == Init /\ [][Next]_vars

\* The reporter repeats a prepare or an adopt until its receipt, the operator
\* asks again after a refusal; a call and a fetch carry on with what they began.
Fairness ==
    /\ SF_vars(Begin /\ UNCHANGED <<distributionVars, faults>>)
    /\ WF_vars(ProvisionStep /\ UNCHANGED <<distributionVars, faults>>)

FairSpec == Spec /\ Fairness

(***************************************************************************)
(* Properties.                                                             *)
(***************************************************************************)

TypeOK == DistributionTypeOK /\ ProvisionTypeOK

\* A reference that reads retained has its root, and its bundle is in the
\* store, whatever became of the fetches before and of the collector.
RetainedIsKept ==
    \A r \in References : record[r] = "retained" => r \in root /\ store # "absent"

\* A prepared instance has every file of the version its marker names, of that
\* version and its own, and no other file unless the escrow was replaced while
\* a secrets program outlived its worker.
PreparedIsSealed ==
    phase = "prepared" =>
        LET v == dir.marker IN
        /\ v # None /\ dir.leaf = "slot" /\ Tree # None /\ Tree.owner = "slot"
        /\ \A n \in FilesOf[v] :
              n \in Listed /\ Tree.files[n] = [version |-> v, owner |-> "slot"]
        /\ Listed = FilesOf[v] \/ replaced

\* What a peer's replica holds of secrets is taken or refused, never rewritten.
NeverProvisionedOver ==
    [][adopted' => dir # None /\ dir'.secrets = dir.secrets /\ dir'.marker = dir.marker]_vars

\* What an attempt may leave that no later one gets rid of: the temporary file of
\* the marker; a file of a program that outlived its worker beside the marker of
\* a version that replaced its own; for a replica, a replaced version.
Temporary == dir # None /\ dir.temporary
Foreign == /\ dir # None /\ dir.marker # None /\ Tree # None
           /\ ~(Listed \subseteq FilesOf[dir.marker])
Wedged == Temporary \/ Foreign \/ (adopted /\ replaced)

\* A prepare that is asked for again and again ends, whatever was killed before,
\* once the bundle stays intact and the two files of the escrow agree, unless
\* it is wedged.
PrepareSettles ==
    <>[](Intact /\ escrow.record = escrow.blob) =>
        (phase = "preparing" ~> phase = "prepared" \/ Wedged)

\* "the instance row is already journaled, so a crash anywhere here replays"
\* (worker.py:1120-1121): the attempt after a crash gets past the directories.
CrashReplays == [][At("allocate") /\ faults' = faults => call' # None]_vars

\* A prepared instance has no file its marker does not answer for.
NothingElse == phase = "prepared" => Listed = FilesOf[dir.marker]
=============================================================================
