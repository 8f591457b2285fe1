-------------------------- MODULE PreparationProofs --------------------------
(***************************************************************************)
(* What a fetch retains is there; what a prepare has prepared is sealed by *)
(* its marker; a replica is not provisioned over.  For every set of        *)
(* references and versions, every number of files, faults and orphans.     *)
(***************************************************************************)
EXTENDS Preparation, TLAPS

-----------------------------------------------------------------------------
(* The bundle                                                              *)

\* Nothing is collected once a root holds it, and a fetch that is about to
\* write its record has the root.
KeepInv ==
    /\ DistributionTypeOK
    /\ root # {} => store # "absent"
    /\ fetch # None /\ fetch.step = "keep" => fetch.ref \in root
    /\ \A r \in References : record[r] = "retained" => r \in root

LEMMA KeepInit == Init => KeepInv
  BY DEF Init, DistributionInit, KeepInv, DistributionTypeOK, StoreStates

LEMMA KeepStep == KeepInv /\ [Next]_vars => KeepInv'
<1> SUFFICES ASSUME KeepInv, [Next]_vars PROVE KeepInv'
  OBVIOUS
<1> USE FetchAssumption DEF KeepInv, DistributionTypeOK, Fetching, Proceed
<1>1. CASE UNCHANGED distributionVars
  BY <1>1 DEF distributionVars
<1>2. ASSUME NEW r \in References, Fetch(r) PROVE KeepInv'
  BY <1>2 DEF Fetch, Fetches, FetchSteps
<1>3. CASE CopyIn
  BY <1>3 DEF CopyIn, Fetches, FetchSteps, StoreStates
<1>4. CASE CopySignatures
  BY <1>4 DEF CopySignatures, Fetches, FetchSteps, StoreStates
<1>5. CASE VerifyBundle
  BY <1>5 DEF VerifyBundle, Fetches, FetchSteps
<1>6. CASE AddRoot
  BY <1>6 DEF AddRoot, Fetches, FetchSteps
<1>7. CASE CheckRoot
  BY <1>7 DEF CheckRoot, Fetches, FetchSteps
<1>8. CASE Retain
  BY <1>8 DEF Retain, Fetches
<1>9. CASE Blocked \/ FetchFails
  BY <1>9 DEF Blocked, FetchFails
<1>10. CASE Collect \/ Repair \/ Damage
  BY <1>10 DEF Collect, Repair, Damage, StoreStates
<1>11. QED
  BY <1>1, <1>2, <1>3, <1>4, <1>5, <1>6, <1>7, <1>8, <1>9, <1>10
     DEF Next, Preparing, Distributing, DistributionNext, FetchStep, vars

\* A reference that reads retained has its root and its bundle
\* (_verify_and_retain, _fetch), whatever failed and was collected before.
THEOREM RetainedIsKeptHolds == Spec => []RetainedIsKept
<1>1. KeepInv => RetainedIsKept
  BY DEF KeepInv, RetainedIsKept
<1>2. QED BY <1>1, KeepInit, KeepStep, PTL DEF Spec
-----------------------------------------------------------------------------
(* The shape of a call                                                     *)

PreparationTypeOK ==
    /\ escrow \in [record : Versions, blob : Versions]
    /\ replaced \in BOOLEAN
    /\ phase \in {"none", "preparing", "prepared"} /\ adopted \in BOOLEAN
    /\ dir \in Dirs \cup {None}
    /\ call \in Calls \cup {None}
    /\ orphans \subseteq Programs

\* The steps behind the directories, and those that know the version.
Late == {"load", "wipe", "remove", "unmark", "run", "gather", "give", "mark",
         "rename", "render"}
Numbered == Late \ {"load"}

CallShape ==
    call # None =>
      /\ phase = "preparing"
      /\ call.step # "allocate" => dir # None
      /\ call.step = "claim" => adopted
      /\ call.step \in Late => dir.leaf = "slot"
      /\ call.step \in Numbered => call.version \in Versions
      /\ call.step \in {"wipe", "give"} => dir.secrets # None
      /\ call.step = "give" => call.names \subseteq Listed
      /\ call.program # None => call.step = "gather"

\* A replica's call changes nothing but who owns the directory.
ReplicaShape ==
    adopted =>
      /\ dir # None /\ dir.leaf = "slot" /\ orphans = {}
      /\ call # None => call.step \in {"claim", "load", "render"}

Unstarted ==
    /\ phase = "none" => call = None /\ orphans = {} /\ ~adopted
    /\ orphans # {} => dir # None

Shape == PreparationTypeOK /\ CallShape /\ ReplicaShape /\ Unstarted

LEMMA FilesType ==
    ASSUME NEW names \in SUBSET Names, NEW f \in [names -> FileStates]
    PROVE  f \in Files
  BY DEF Files

LEMMA FilesAre ==
    ASSUME NEW f \in Files
    PROVE  /\ DOMAIN f \subseteq Names
           /\ f \in [DOMAIN f -> FileStates]
  BY DEF Files

LEMMA ReplicaType ==
    ASSUME NEW v \in Versions, NEW secrets \in BOOLEAN, NEW marker \in BOOLEAN
    PROVE  Replica(v, secrets, marker) \in Dirs
<1>1. [n \in FilesOf[v] |-> [version |-> v, owner |-> "slot"]] \in Files
  <2>1. FilesOf[v] \in SUBSET Names
    BY ProvisionAssumption
  <2>2. [n \in FilesOf[v] |-> [version |-> v, owner |-> "slot"]] \in [FilesOf[v] -> FileStates]
    BY DEF FileStates, Owners
  <2>3. QED BY <2>1, <2>2, FilesType
<1>2. QED BY <1>1 DEF Replica, Dirs, Trees, Owners

LEMMA ShapeInit == Init => Shape
<1>1. SUFFICES ASSUME Init PROVE Shape
  OBVIOUS
<1>2. dir \in Dirs \cup {None}
  BY <1>1, ReplicaType DEF Init, ProvisionInit
<1>3. escrow \in [record : Versions, blob : Versions]
  BY <1>1 DEF Init, ProvisionInit
<1>4. /\ replaced = FALSE /\ phase = "none" /\ adopted = FALSE
      /\ call = None /\ orphans = {}
  BY <1>1 DEF Init, ProvisionInit
<1>5. QED
  BY <1>2, <1>3, <1>4
     DEF Shape, PreparationTypeOK, CallShape, ReplicaShape, Unstarted

\* What the steps that write to secrets/ leave of it.
LEMMA FilledType ==
    ASSUME PreparationTypeOK, dir # None, dir.secrets # None, NEW f \in Files
    PROVE  /\ Filled(f) \in Dirs
           /\ Filled(f).secrets = [owner |-> dir.secrets.owner, files |-> f]
           /\ Filled(f).leaf = dir.leaf /\ Filled(f).marker = dir.marker
           /\ Filled(f).owner = dir.owner /\ Filled(f).temporary = dir.temporary
           /\ Filled(f).secrets # None
<1>1. dir \in Dirs /\ dir.secrets \in Trees
  BY DEF PreparationTypeOK, Dirs
<1>2. [owner |-> dir.secrets.owner, files |-> f] \in Trees
  BY <1>1 DEF Trees
<1>3. QED BY <1>1, <1>2, AbsentAssumption DEF Filled, Dirs, Tree

LEMMA ListedAre ==
    ASSUME PreparationTypeOK, dir # None, dir.secrets # None
    PROVE  /\ Listed \subseteq Names
           /\ dir.secrets.files \in [Listed -> FileStates]
           /\ dir.secrets.files \in Files
<1>1. dir.secrets.files \in Files
  BY DEF PreparationTypeOK, Dirs, Trees
<1>2. QED BY <1>1, FilesAre DEF Listed

LEMMA NewCallShape ==
    ASSUME NEW step \in Steps, NewCall(step)
    PROVE  call' \in Calls /\ call' # None /\ call'.step = step /\ call'.program = None
  BY AbsentAssumption DEF NewCall, Calls

LEMMA BeginShape == Shape /\ (Prepare \/ Adopt \/ Resume) => Shape'
<1> SUFFICES ASSUME Shape, Prepare \/ Adopt \/ Resume PROVE Shape'
  OBVIOUS
<1> USE DEF Shape, PreparationTypeOK, CallShape, ReplicaShape, Unstarted
<1>1. CASE Prepare
  <2>1. "allocate" \in Steps /\ NewCall("allocate")
    BY <1>1 DEF Prepare, Steps
  <2>2. QED BY <1>1, <2>1, NewCallShape DEF Prepare, Late, Numbered
<1>2. CASE Adopt
  <2>1. "claim" \in Steps /\ NewCall("claim")
    BY <1>2 DEF Adopt, Steps
  <2>2. QED BY <1>2, <2>1, NewCallShape DEF Adopt, Adoptable, Late, Numbered
<1>3. CASE Resume
  <2> DEFINE step == IF adopted THEN "claim" ELSE "allocate"
  <2>1. step \in Steps /\ NewCall(step)
    BY <1>3 DEF Resume, Steps
  <2>2. QED BY <1>3, <2>1, NewCallShape DEF Resume, Late, Numbered
<1>4. QED BY <1>1, <1>2, <1>3

LEMMA DirectoryShape ==
    Shape /\ (Claim \/ Allocate \/ MakeLeaf \/ OwnLeaf) => Shape'
<1> SUFFICES ASSUME Shape, Claim \/ Allocate \/ MakeLeaf \/ OwnLeaf PROVE Shape'
  OBVIOUS
<1> USE AbsentAssumption
    DEF Shape, PreparationTypeOK, CallShape, ReplicaShape, Unstarted, At, Goto, Stop,
        Calls, Steps, Late, Numbered
<1>1. CASE Claim
  BY <1>1 DEF Claim, Dirs, Owners, Listed
<1>2. CASE Allocate
  <2>1. /\ call # None /\ call.step = "allocate" /\ ~adopted
        /\ UNCHANGED <<escrow, replaced, orphans, phase, adopted>>
    BY <1>2 DEF Allocate
  <2>2. /\ dir' \in Dirs /\ dir' # None
        /\ call' = None \/ (call' = [call EXCEPT !.step = "leaf"])
    <3>1. [owner |-> "root", leaf |-> None, secrets |-> None,
           marker |-> None, temporary |-> FALSE] \in Dirs
      BY DEF Dirs, Owners
    <3>2. QED BY <1>2, <3>1 DEF Allocate
  <2>3. call' # None => call' \in Calls /\ call'.step = "leaf" /\ call'.program = call.program
    BY <2>1, <2>2
  <2>4. QED BY <2>1, <2>2, <2>3
<1>3. CASE MakeLeaf
  BY <1>3 DEF MakeLeaf, Dirs, Owners, Listed
<1>4. CASE OwnLeaf
  BY <1>4 DEF OwnLeaf, Dirs, Owners, Listed
<1>5. QED BY <1>1, <1>2, <1>3, <1>4

LEMMA LoadShape == Shape /\ Load => Shape'
<1> SUFFICES ASSUME Shape, Load PROVE Shape'
  OBVIOUS
<1> USE AbsentAssumption DEF Shape, PreparationTypeOK, CallShape, ReplicaShape, Unstarted
<1>1. /\ call \in Calls /\ call.step = "load" /\ dir # None /\ dir.leaf = "slot"
      /\ phase = "preparing" /\ call.program = None
      /\ UNCHANGED <<escrow, replaced, orphans, phase, adopted, dir>>
  BY DEF Load, At, Stop, Late
<1>2. escrow.record \in Versions
  OBVIOUS
<1>3. CASE dir.marker = escrow.record /\ SlotOwned(Tree)
  <2>1. call' = [call EXCEPT !.step = "render", !.version = escrow.record]
    BY <1>3 DEF Load
  <2>2. call' \in Calls /\ call'.step = "render" /\ call'.version = escrow.record
        /\ call'.program = None
    BY <1>1, <1>2, <2>1 DEF Calls, Steps
  <2>3. QED BY <1>1, <1>2, <2>2
<1>4. CASE dir.marker # escrow.record /\ MayProvision
  <2> DEFINE names == IF Tree # None THEN Listed ELSE {}
  <2>1. call' = [call EXCEPT !.step = TearDown, !.version = escrow.record, !.names = names]
    BY <1>4 DEF Load
  <2>2. TearDown \in {"wipe", "unmark", "run"} /\ (TearDown = "wipe" => dir.secrets # None)
    BY DEF TearDown, Tree
  <2>3. names \subseteq Names
    BY <1>1, ListedAre DEF Tree
  <2>4. /\ call' \in Calls /\ call'.step = TearDown /\ call'.version = escrow.record
        /\ call'.program = None
    BY <1>1, <1>2, <2>1, <2>2, <2>3 DEF Calls, Steps
  <2>5. ~adopted
    BY <1>4 DEF MayProvision
  <2>6. QED BY <1>1, <1>2, <2>2, <2>4, <2>5
<1>5. CASE call' = None
  BY <1>1, <1>5
<1>6. QED BY <1>3, <1>4, <1>5 DEF Load, Stop

\* Neither the version nor the program of the call changes.
Onward(step) ==
    /\ call' \in Calls /\ call'.step = step
    /\ call'.version = call.version /\ call'.program = call.program
    /\ call'.names = call.names

LEMMA GotoShape ==
    ASSUME call \in Calls, NEW step \in Steps, Goto(step)
    PROVE  Onward(step)
  BY DEF Goto, Calls, Onward

LEMMA WipeShape == Shape /\ (Unlink \/ Remove \/ Unmark) => Shape'
<1> SUFFICES ASSUME Shape, Unlink \/ Remove \/ Unmark PROVE Shape'
  OBVIOUS
<1> USE AbsentAssumption DEF Shape, PreparationTypeOK, CallShape, ReplicaShape, Unstarted
<1>1. /\ call \in Calls /\ call.step \in {"wipe", "remove", "unmark"}
      /\ call.step \in Late /\ call.step \in Numbered /\ call # None
      /\ UNCHANGED <<escrow, replaced, orphans, phase, adopted>>
  BY DEF Unlink, Remove, Unmark, At, Stop, Late, Numbered
<1>2. dir \in Dirs /\ dir.leaf = "slot" /\ ~adopted /\ call.program = None
      /\ call.version \in Versions
  BY <1>1
<1>3. CASE Unlink /\ call.names = {}
  <2>1. Onward("remove") /\ dir' = dir
    BY <1>1, <1>3, GotoShape DEF Unlink, Steps
  <2>2. QED BY <1>1, <1>2, <2>1 DEF Onward
<1>4. CASE Unlink /\ call.names # {}
  <2>1. PICK n \in call.names :
           /\ dir' = Filled([m \in Listed \ {n} |-> Tree.files[m]])
           /\ call' = [call EXCEPT !.names = @ \ {n}]
    BY <1>4 DEF Unlink
  <2>2. dir.secrets # None /\ call.step = "wipe"
    BY <1>1, <1>4 DEF Unlink, At
  <2>3. [m \in Listed \ {n} |-> Tree.files[m]] \in Files
    <3>1. Listed \ {n} \in SUBSET Names
      BY <1>2, <2>2, ListedAre
    <3>2. [m \in Listed \ {n} |-> Tree.files[m]] \in [Listed \ {n} -> FileStates]
      BY <1>2, <2>2, ListedAre DEF Tree
    <3>3. QED BY <3>1, <3>2, FilesType
  <2>4. dir' \in Dirs /\ dir'.leaf = dir.leaf /\ dir'.secrets # None
    BY <1>2, <2>1, <2>2, <2>3, FilledType
  <2>5. call' \in Calls /\ call'.step = "wipe" /\ call'.version = call.version
        /\ call'.program = None
    BY <1>1, <1>2, <2>1, <2>2 DEF Calls
  <2>6. QED BY <1>1, <1>2, <2>4, <2>5
<1>5. CASE Remove /\ Tree # None /\ Listed = {}
  <2>1. dir' = [dir EXCEPT !.secrets = None]
    BY <1>5 DEF Remove
  <2>2. dir' \in Dirs /\ dir'.leaf = dir.leaf
    BY <1>2, <2>1 DEF Dirs
  <2>3. \E step \in {"unmark", "run"} : Onward(step)
    BY <1>1, <1>5, GotoShape DEF Remove, Steps
  <2>4. QED BY <1>1, <1>2, <2>2, <2>3 DEF Onward
<1>6. CASE Remove /\ ~(Tree # None /\ Listed = {})
  BY <1>1, <1>2, <1>6 DEF Remove, Stop
<1>7. CASE Unmark
  <2>1. dir' \in Dirs /\ dir'.leaf = dir.leaf
    BY <1>2, <1>7 DEF Unmark, Dirs
  <2>2. Onward("run")
    BY <1>1, <1>7, GotoShape DEF Unmark, Steps
  <2>3. QED BY <1>1, <1>2, <2>1, <2>2 DEF Onward
<1>8. QED BY <1>3, <1>4, <1>5, <1>6, <1>7

LEMMA RunShape == Shape /\ (Run \/ Gather) => Shape'
<1> SUFFICES ASSUME Shape, Run \/ Gather PROVE Shape'
  OBVIOUS
<1> USE AbsentAssumption DEF Shape, PreparationTypeOK, CallShape, ReplicaShape, Unstarted
<1>1. /\ call \in Calls /\ call.step \in {"run", "gather"}
      /\ call.step \in Late /\ call.step \in Numbered /\ call # None
      /\ UNCHANGED <<escrow, replaced, orphans, phase, adopted, dir>>
  BY DEF Run, Gather, At, Stop, Late, Numbered
<1>2. dir # None /\ dir.leaf = "slot" /\ ~adopted /\ call.version \in Versions
  BY <1>1
<1>3. CASE Run
  <2> DEFINE p == [step |-> "open", version |-> call.version, todo |-> FilesOf[call.version]]
  <2>1. p \in Programs
    BY <1>2, ProvisionAssumption DEF Programs
  <2>2. call' = [call EXCEPT !.step = "gather", !.program = p]
    BY <1>3 DEF Run
  <2>3. call' \in Calls /\ call'.step = "gather" /\ call'.version = call.version
    BY <1>1, <2>1, <2>2 DEF Calls, Steps
  <2>4. QED BY <1>1, <1>2, <2>3
<1>4. CASE Gather /\ Unsealed
  <2>1. call.program = None /\ dir.secrets # None
        /\ call' = [call EXCEPT !.step = "give", !.names = Listed]
    BY <1>4 DEF Gather, Unsealed, Tree
  <2>2. Listed \subseteq Names
    BY <1>2, <2>1, ListedAre
  <2>3. call' \in Calls /\ call'.step = "give" /\ call'.version = call.version
        /\ call'.program = None /\ call'.names = Listed
    BY <1>1, <2>1, <2>2 DEF Calls, Steps
  <2>4. Listed' = Listed
    BY <1>1 DEF Listed
  <2>5. QED BY <1>1, <1>2, <2>1, <2>3, <2>4
<1>5. CASE Gather /\ ~Unsealed
  BY <1>1, <1>2, <1>5 DEF Gather, Stop
<1>6. QED BY <1>3, <1>4, <1>5

LEMMA GiveType ==
    ASSUME Shape, dir # None, dir.secrets # None, NEW n \in Listed,
           NEW f, f = [Tree.files EXCEPT ![n] = [version |-> @.version, owner |-> "slot"]]
    PROVE  f \in Files /\ DOMAIN f = Listed
<1>1. Listed \in SUBSET Names /\ Tree.files \in [Listed -> FileStates]
  BY ListedAre DEF Shape, Tree
<1>2. [version |-> Tree.files[n].version, owner |-> "slot"] \in FileStates
  BY <1>1 DEF FileStates, Owners
<1>3. f \in [Listed -> FileStates]
  BY <1>1, <1>2
<1>4. QED BY <1>1, <1>3, FilesType

LEMMA GiveShape == Shape /\ Give => Shape'
<1> SUFFICES ASSUME Shape, Give PROVE Shape'
  OBVIOUS
<1> USE AbsentAssumption DEF Shape, PreparationTypeOK, CallShape, ReplicaShape, Unstarted
<1>1. /\ call \in Calls /\ call.step = "give" /\ call # None
      /\ UNCHANGED <<escrow, replaced, orphans, phase, adopted>>
  BY DEF Give, At
<1>2. /\ dir # None /\ dir.leaf = "slot" /\ ~adopted /\ call.version \in Versions
      /\ dir.secrets # None /\ call.names \subseteq Listed /\ call.program = None
  BY <1>1 DEF Late, Numbered
<1>3. CASE call.names = {}
  <2>1. Onward("mark")
    BY <1>1, <1>3, GotoShape DEF Give, Steps
  <2>2. dir' = [dir EXCEPT !.secrets = [owner |-> "slot", files |-> Tree.files]]
    BY <1>3 DEF Give
  <2>3. [owner |-> "slot", files |-> Tree.files] \in Trees
    BY <1>2, ListedAre DEF Trees, Owners, Tree
  <2>4. dir' \in Dirs /\ dir'.leaf = dir.leaf
    BY <1>2, <2>2, <2>3 DEF Dirs
  <2>5. QED BY <1>1, <1>2, <2>1, <2>4 DEF Onward
<1>4. CASE call.names # {}
  <2>1. PICK n \in call.names :
           /\ dir' = Filled([Tree.files EXCEPT ![n] =
                               [version |-> @.version, owner |-> "slot"]])
           /\ call' = [call EXCEPT !.names = @ \ {n}]
    BY <1>4 DEF Give
  <2> DEFINE f == [Tree.files EXCEPT ![n] = [version |-> @.version, owner |-> "slot"]]
  <2>2. f \in Files /\ DOMAIN f = Listed
    BY <1>2, GiveType
  <2> HIDE DEF f
  <2>0. dir' = Filled(f)
    BY <2>1 DEF f
  <2>3. /\ dir' \in Dirs /\ dir'.leaf = dir.leaf /\ dir'.secrets # None
        /\ dir'.secrets.files = f
    <3>1. /\ Filled(f) \in Dirs /\ Filled(f).leaf = dir.leaf /\ Filled(f).secrets # None
          /\ Filled(f).secrets = [owner |-> dir.secrets.owner, files |-> f]
      BY <1>2, <2>2, FilledType
    <3>2. QED BY <2>0, <3>1
  <2>4. Listed' = Listed
    BY <2>2, <2>3 DEF Listed
  <2>5. call' \in Calls /\ call'.step = "give" /\ call'.version = call.version
        /\ call'.program = None /\ call'.names = call.names \ {n}
    BY <1>1, <1>2, <2>1 DEF Calls
  <2>6. QED BY <1>1, <1>2, <2>3, <2>4, <2>5
<1>5. QED BY <1>3, <1>4

LEMMA MarkShape == Shape /\ (Mark \/ Rename \/ Render) => Shape'
<1> SUFFICES ASSUME Shape, Mark \/ Rename \/ Render PROVE Shape'
  OBVIOUS
<1> USE AbsentAssumption DEF Shape, PreparationTypeOK, CallShape, ReplicaShape, Unstarted
<1>1. /\ call \in Calls /\ call.step \in {"mark", "rename", "render"}
      /\ call.step \in Late /\ call.step \in Numbered /\ call # None
      /\ UNCHANGED <<escrow, replaced, orphans, adopted>>
  BY DEF Mark, Rename, Render, At, Late, Numbered
<1>2. /\ dir \in Dirs /\ dir.leaf = "slot" /\ call.program = None
      /\ call.version \in Versions /\ phase = "preparing"
  BY <1>1
<1>3. CASE Mark
  <2>1. dir' \in Dirs /\ dir'.leaf = dir.leaf /\ phase' = phase
    BY <1>2, <1>3 DEF Mark, Dirs
  <2>2. Onward("rename")
    BY <1>1, <1>3, GotoShape DEF Mark, Steps
  <2>3. ~adopted
    BY <1>1, <1>3 DEF Mark, At
  <2>4. QED BY <1>1, <1>2, <1>3, <2>1, <2>2, <2>3 DEF Onward
<1>4. CASE Rename
  <2>1. dir' \in Dirs /\ dir'.leaf = dir.leaf /\ phase' = phase
    BY <1>2, <1>4 DEF Rename, Dirs
  <2>2. Onward("render")
    BY <1>1, <1>4, GotoShape DEF Rename, Steps
  <2>3. ~adopted
    BY <1>1, <1>4 DEF Rename, At
  <2>4. QED BY <1>1, <1>2, <1>4, <2>1, <2>2, <2>3 DEF Onward
<1>5. CASE Render
  BY <1>1, <1>2, <1>5 DEF Render
<1>6. QED BY <1>3, <1>4, <1>5

\* Every file that was there is there, and what else the call goes by.
Extends(d, e) ==
    /\ e.leaf = d.leaf /\ e.marker = d.marker
    /\ d.secrets # None =>
          /\ e.secrets # None /\ e.secrets.owner = d.secrets.owner
          /\ \A n \in DOMAIN d.secrets.files :
                n \in DOMAIN e.secrets.files /\ e.secrets.files[n] = d.secrets.files[n]

\* A secrets program adds these names to secrets/ and leaves the rest.
Added(names) ==
    /\ dir' \in Dirs /\ dir'.secrets # None /\ Extends(dir, dir')
    /\ \A n \in DOMAIN dir'.secrets.files :
          n \in names \/ (dir.secrets # None /\ n \in DOMAIN dir.secrets.files)

LEMMA OpenAdds ==
    ASSUME Shape, dir # None, NEW p, Open(p)
    PROVE  Added({})
<1> USE AbsentAssumption DEF Shape, PreparationTypeOK
<1>1. CASE dir.secrets # None
  <2>1. dir' = dir
    BY <1>1 DEF Open, Dirs
  <2>2. QED BY <1>1, <2>1 DEF Added, Extends
<1>2. CASE dir.secrets = None
  <2>1. NoFiles \in Files
    <3>1. NoFiles \in [{} -> FileStates]
      BY DEF NoFiles
    <3>2. QED BY <3>1, FilesType
  <2>2. [owner |-> "root", files |-> NoFiles] \in Trees
    BY <2>1 DEF Trees, Owners
  <2>3. dir' = [dir EXCEPT !.secrets = [owner |-> "root", files |-> NoFiles]]
    BY <1>2 DEF Open
  <2>4. dir' \in Dirs /\ dir'.leaf = dir.leaf /\ dir'.marker = dir.marker
        /\ dir'.secrets = [owner |-> "root", files |-> NoFiles]
    BY <1>2, <2>2, <2>3 DEF Dirs
  <2>5. DOMAIN dir'.secrets.files = {} /\ dir'.secrets # None
    BY <2>2, <2>4 DEF NoFiles
  <2>6. QED BY <1>2, <2>4, <2>5 DEF Added, Extends
<1>3. QED BY <1>1, <1>2

LEMMA WriteAdds ==
    ASSUME Shape, dir # None, NEW p \in Programs, NEW n \in p.todo, Write(p, n)
    PROVE  /\ Added({n}) /\ n \in DOMAIN dir'.secrets.files
           /\ dir'.secrets.files[n].version = p.version
<1> DEFINE f == [m \in Listed \cup {n} |->
                   IF m = n THEN [version |-> p.version, owner |-> "root"]
                   ELSE Tree.files[m]]
<1>1. dir.secrets # None /\ n \notin Listed
  BY DEF Write, Writes, Tree
<1>2. f \in Files /\ DOMAIN f = Listed \cup {n}
  <2>1. /\ Listed \in SUBSET Names /\ Tree.files \in [Listed -> FileStates]
        /\ n \in Names
    BY <1>1, ListedAre DEF Shape, Tree, Programs
  <2>2. [version |-> p.version, owner |-> "root"] \in FileStates
    BY DEF FileStates, Owners, Programs
  <2>3. f \in [Listed \cup {n} -> FileStates] /\ Listed \cup {n} \in SUBSET Names
    BY <2>1, <2>2
  <2>4. QED BY <2>3, FilesType
<1>3. dir' = Filled(f)
  BY DEF Write
<1>0. f[n].version = p.version /\ \A m \in Listed : f[m] = dir.secrets.files[m]
  BY <1>1 DEF Tree
<1> HIDE DEF f
<1>4. /\ Filled(f) \in Dirs /\ Filled(f).leaf = dir.leaf /\ Filled(f).marker = dir.marker
      /\ Filled(f).secrets = [owner |-> dir.secrets.owner, files |-> f]
      /\ Filled(f).secrets # None
  BY <1>1, <1>2, FilledType DEF Shape
<1>5. QED BY <1>0, <1>1, <1>2, <1>3, <1>4 DEF Added, Extends, Listed

LEMMA ProgramTypes ==
    ASSUME NEW p \in Programs
    PROVE  Opened(p) \in Programs /\ \A n \in p.todo : Written(p, n) \in Programs
  BY DEF Programs, Opened, Written

LEMMA ProgramShape == Shape /\ Program => Shape'
<1> SUFFICES ASSUME Shape, Program PROVE Shape'
  OBVIOUS
<1> USE AbsentAssumption DEF Shape, PreparationTypeOK, CallShape, ReplicaShape, Unstarted
<1> DEFINE p == call.program
<1>1. /\ call \in Calls /\ call # None /\ call.step = "gather" /\ p \in Programs
      /\ UNCHANGED <<escrow, replaced, orphans, adopted>>
  <2>1. call # None /\ call.program # None /\ UNCHANGED <<escrow, replaced, orphans>>
    BY DEF Program
  <2>2. UNCHANGED adopted
    BY DEF Program, Stop
  <2>3. p \in Programs
    BY <2>1 DEF Calls
  <2>4. QED BY <2>1, <2>2, <2>3
<1>2. dir # None /\ dir.leaf = "slot" /\ ~adopted /\ call.version \in Versions
  BY <1>1 DEF Late, Numbered
<1>3. ASSUME NEW names, Added(names), phase' = phase, NEW q \in Programs,
             call' = [call EXCEPT !.program = q]
      PROVE  Shape'
  <2>1. call' \in Calls /\ call'.step = "gather" /\ call'.version = call.version
    BY <1>1, <1>3 DEF Calls
  <2>2. QED BY <1>1, <1>2, <1>3, <2>1 DEF Added, Extends
<1>4. CASE Open(p) /\ call' = [call EXCEPT !.program = Opened(p)] /\ phase' = phase
  BY <1>1, <1>2, <1>3, <1>4, OpenAdds, ProgramTypes
<1>5. ASSUME NEW n \in p.todo, Write(p, n), phase' = phase,
             call' = [call EXCEPT !.program = Written(p, n)]
      PROVE  Shape'
  BY <1>1, <1>2, <1>3, <1>5, WriteAdds, ProgramTypes
<1>6. CASE call' = [call EXCEPT !.program = None] /\ UNCHANGED <<phase, adopted, dir>>
  <2>1. call' \in Calls /\ call'.step = "gather" /\ call'.version = call.version
        /\ call'.program = None
    BY <1>1, <1>6 DEF Calls
  <2>2. QED BY <1>1, <1>2, <1>6, <2>1
<1>7. CASE Stop
  BY <1>1, <1>2, <1>7 DEF Stop
<1>8. QED BY <1>4, <1>5, <1>6, <1>7 DEF Program

LEMMA OrphanShape == Shape /\ OrphanStep => Shape'
<1> SUFFICES ASSUME Shape, OrphanStep PROVE Shape'
  OBVIOUS
<1> USE DEF Shape, PreparationTypeOK, CallShape, ReplicaShape, Unstarted
<1>1. PICK p \in orphans :
         /\ \/ Open(p) /\ orphans' = (orphans \ {p}) \cup {Opened(p)}
            \/ \E n \in p.todo :
                  Write(p, n) /\ orphans' = (orphans \ {p}) \cup {Written(p, n)}
            \/ (Done(p) \/ Fails(p)) /\ orphans' = orphans \ {p} /\ UNCHANGED dir
         /\ UNCHANGED <<escrow, replaced, phase, adopted, call>>
  BY DEF OrphanStep
<1>2. p \in Programs /\ dir # None /\ ~adopted /\ phase # "none"
  OBVIOUS
<1>3. ASSUME NEW names, Added(names), NEW q \in Programs, orphans' = (orphans \ {p}) \cup {q}
      PROVE  Shape'
  BY <1>1, <1>2, <1>3, AbsentAssumption DEF Added, Extends, Listed
<1>4. CASE Open(p) /\ orphans' = (orphans \ {p}) \cup {Opened(p)}
  BY <1>2, <1>3, <1>4, OpenAdds, ProgramTypes
<1>5. ASSUME NEW n \in p.todo, Write(p, n),
             orphans' = (orphans \ {p}) \cup {Written(p, n)}
      PROVE  Shape'
  <2>1. Written(p, n) \in Programs
    BY <1>2, <1>5, ProgramTypes
  <2>2. PICK names : Added(names)
    BY <1>2, <1>5, WriteAdds
  <2> QED BY <1>3, <1>5, <2>1, <2>2
<1>6. CASE orphans' = orphans \ {p} /\ UNCHANGED dir
  BY <1>1, <1>2, <1>6 DEF Listed
<1>7. QED BY <1>1, <1>4, <1>5, <1>6

LEMMA InterruptShape == Shape /\ (Interrupt \/ Rotate) => Shape'
<1> SUFFICES ASSUME Shape, Interrupt \/ Rotate PROVE Shape'
  OBVIOUS
<1> USE AbsentAssumption DEF Shape, PreparationTypeOK, CallShape, ReplicaShape, Unstarted
<1>1. CASE Interrupt
  <2>1. /\ call \in Calls /\ call # None /\ call' = None /\ phase = "preparing"
        /\ UNCHANGED <<escrow, replaced, phase, adopted>>
    BY <1>1 DEF Interrupt
  <2>2. dir' \in Dirs \cup {None} /\ (dir # None => dir' # None /\ dir'.leaf = dir.leaf)
    <3>1. CASE UNCHANGED dir
      BY <3>1
    <3>2. CASE dir # None /\ dir' = [dir EXCEPT !.temporary = FALSE]
      <4>1. dir \in Dirs
        BY <3>2
      <4>2. dir' \in Dirs /\ dir'.leaf = dir.leaf
        BY <3>2, <4>1 DEF Dirs
      <4> QED BY <4>2
    <3> QED BY <1>1, <3>1, <3>2 DEF Interrupt
  <2>3. \/ orphans' = orphans
        \/ call.program # None /\ orphans' = orphans \cup {call.program}
    BY <1>1 DEF Interrupt
  <2>4. call.program # None => call.program \in Programs /\ dir # None /\ ~adopted
    BY <2>1 DEF Calls
  <2>5. QED BY <2>1, <2>2, <2>3, <2>4
<1>2. CASE Rotate
  <2>1. escrow' \in [record : Versions, blob : Versions] /\ replaced' \in BOOLEAN
    BY <1>2 DEF Rotate
  <2>2. UNCHANGED <<phase, adopted, dir, call, orphans>>
    BY <1>2 DEF Rotate
  <2>3. QED BY <2>1, <2>2 DEF Listed
<1>3. QED BY <1>1, <1>2

LEMMA ShapeStep == Shape /\ [Next]_vars => Shape'
<1>1. Shape /\ UNCHANGED provisionVars => Shape'
  BY DEF Shape, PreparationTypeOK, CallShape, ReplicaShape, Unstarted, Listed, provisionVars
<1>2. Shape /\ ProvisionNext => Shape'
  BY BeginShape, DirectoryShape, LoadShape, WipeShape, RunShape, ProgramShape, GiveShape,
     MarkShape, OrphanShape, InterruptShape DEF ProvisionNext, Begin, ProvisionStep
<1>3. QED BY <1>1, <1>2 DEF Next, Preparing, Distributing, vars

\* What a peer's replica holds of secrets is taken or refused, never rewritten
\* (_adopt_secrets, _provision_secrets), whatever the escrow and the programs do.
THEOREM NeverProvisionedOverHolds == Spec => NeverProvisionedOver
<1>1. ASSUME Shape, Next, adopted'
      PROVE  dir # None /\ dir'.secrets = dir.secrets /\ dir'.marker = dir.marker
  <2> USE <1>1 DEF Shape, PreparationTypeOK, CallShape, ReplicaShape, Unstarted
  <2>1. CASE UNCHANGED provisionVars
    BY <2>1 DEF provisionVars
  <2>2. CASE Begin
    BY <2>2 DEF Begin, Prepare, Adopt, Adoptable, Resume
  <2>3. CASE OrphanStep
    BY <2>3 DEF OrphanStep
  <2>4. CASE Rotate
    BY <2>4 DEF Rotate
  <2>5. CASE Interrupt
    BY <2>5 DEF Interrupt, Dirs
  <2>6. CASE Claim
    BY <2>6 DEF Claim, Dirs
  <2>7. CASE Load
    BY <2>7 DEF Load, MayProvision, Stop
  <2>8. CASE Render
    BY <2>8 DEF Render
  <2>9. CASE Allocate \/ MakeLeaf \/ OwnLeaf \/ Unlink \/ Remove \/ Unmark \/ Run
             \/ Program \/ Gather \/ Give \/ Mark \/ Rename
    <3>1. call # None /\ call.step \notin {"claim", "load", "render"}
      BY <2>9 DEF Allocate, MakeLeaf, OwnLeaf, Unlink, Remove, Unmark, Run, Program,
                  Gather, Give, Mark, Rename, At
    <3>2. ~adopted /\ adopted' = adopted
      BY <3>1, <2>9 DEF Allocate, MakeLeaf, OwnLeaf, Unlink, Remove, Unmark, Run, Program,
                  Gather, Give, Mark, Rename, Stop
    <3>3. QED BY <3>2
  <2>10. QED
    BY <2>1, <2>2, <2>3, <2>4, <2>5, <2>6, <2>7, <2>8, <2>9
       DEF Next, Preparing, Distributing, ProvisionNext, ProvisionStep
<1>2. QED BY <1>1, ShapeInit, ShapeStep, PTL DEF Spec, NeverProvisionedOver
-----------------------------------------------------------------------------
(* Types                                                                   *)

FaultsBounded == faults \in 0 .. MaxFaults

LEMMA FaultsStep == FaultsBounded /\ [Next]_vars => FaultsBounded'
  BY DistributionAssumption
     DEF Next, Preparing, Distributing, ProvisionNext, DistributionNext, Interrupt,
         FetchFails, Damage, vars, FaultsBounded

\* Every variable keeps its declared type (a fetch's record and step, a call's
\* step, listing and program, the instance directory), and the faults their bound.
THEOREM TypeCorrect == Spec => []TypeOK
<1>1. Init => FaultsBounded
  BY DistributionAssumption DEF Init, FaultsBounded
<1>2. KeepInv /\ Shape /\ FaultsBounded => TypeOK
  BY DEF FaultsBounded, KeepInv, Shape, PreparationTypeOK, ProvisionTypeOK, TypeOK
<1>3. QED BY <1>1, <1>2, KeepInit, KeepStep, ShapeInit, ShapeStep, FaultsStep, PTL DEF Spec
-----------------------------------------------------------------------------
(* The secrets a marker answers for                                        *)

\* Every file of the version is in place and the slot's.
Complete(d, v) ==
    /\ d.secrets # None /\ d.secrets.owner = "slot"
    /\ \A n \in FilesOf[v] :
          /\ n \in DOMAIN d.secrets.files
          /\ d.secrets.files[n] = [version |-> v, owner |-> "slot"]

\* Every file of the version but these has been written.
Present(d, v, todo) ==
    \A n \in FilesOf[v] \ todo :
       /\ d.secrets # None /\ n \in DOMAIN d.secrets.files
       /\ d.secrets.files[n].version = v

\* Every file of the version but these is the slot's.
Given(d, v, names) ==
    \A n \in FilesOf[v] :
       /\ n \in DOMAIN d.secrets.files /\ d.secrets.files[n].version = v
       /\ n \in names \/ d.secrets.files[n].owner = "slot"

\* A marker in place answers for every file, or is on its way out.
Marked ==
    phase # "none" /\ dir # None /\ dir.marker # None =>
       /\ dir.marker <= escrow.record
       /\ dir.marker < escrow.record \/ Complete(dir, dir.marker)

\* How far a call has come.
Stage ==
    call # None =>
      /\ call.step \in Numbered => call.version <= escrow.record
      /\ call.step \in {"wipe", "remove"} =>
            dir.marker = None \/ dir.marker < escrow.record
      /\ call.step \in {"run", "gather", "give", "mark", "rename"} => dir.marker = None
      /\ call.step = "gather" /\ call.program = None => Present(dir, call.version, {})
      /\ call.step = "gather" /\ call.program # None =>
            /\ call.program.version = call.version
            /\ Present(dir, call.version, call.program.todo)
      /\ call.step = "give" => Given(dir, call.version, call.names)
      /\ call.step \in {"mark", "rename"} => Complete(dir, call.version)
      /\ call.step = "render" => dir.marker = call.version /\ Complete(dir, call.version)

Ended ==
    phase = "prepared" =>
       dir # None /\ dir.leaf = "slot" /\ dir.marker # None /\ Complete(dir, dir.marker)

Answers(p) == p.version = escrow.record /\ p.todo \subseteq FilesOf[escrow.record]

\* While the escrow is the first, nothing else can be there.
First ==
    ~replaced /\ phase # "none" =>
      /\ \A p \in orphans : Answers(p)
      /\ call # None /\ call.step \in Numbered => call.version = escrow.record
      /\ call # None /\ call.program # None => Answers(call.program)
      /\ dir # None /\ dir.marker # None => dir.marker = escrow.record
      /\ dir # None /\ dir.secrets # None =>
            DOMAIN dir.secrets.files \subseteq FilesOf[escrow.record]

\* What is there before the row is a peer's.
Replicated ==
    phase = "none" /\ dir # None =>
       \E v \in Versions, s, m \in BOOLEAN : dir = Replica(v, s, m)

SealInv == Marked /\ Stage /\ Ended /\ First /\ Replicated

LEMMA ReplicaComplete ==
    ASSUME NEW v \in Versions, NEW s \in BOOLEAN, NEW m \in BOOLEAN,
           NEW d, d = Replica(v, s, m), d.secrets # None, d.marker # None
    PROVE  /\ d.marker = v /\ Complete(d, v)
           /\ DOMAIN d.secrets.files = FilesOf[v]
<1>1. d.secrets = [owner |-> "slot",
                   files |-> [n \in FilesOf[v] |-> [version |-> v, owner |-> "slot"]]]
  BY DEF Replica
<1>2. d.marker = v
  BY DEF Replica
<1>3. QED BY <1>1, <1>2 DEF Complete

LEMMA Kept ==
    ASSUME NEW d, NEW e, Extends(d, e), NEW v \in Versions
    PROVE  /\ Complete(d, v) => Complete(e, v)
           /\ \A todo : Present(d, v, todo) => Present(e, v, todo)
           /\ \A names : d.secrets # None /\ Given(d, v, names) => Given(e, v, names)
  BY DEF Extends, Complete, Present, Given

LEMMA MarkerNumber ==
    ASSUME PreparationTypeOK
    PROVE  /\ escrow.record \in Versions /\ escrow.record \in Nat
           /\ dir # None => dir.marker = None \/ (dir.marker \in Versions /\ dir.marker \in Nat)
  BY ProvisionAssumption DEF PreparationTypeOK, Dirs

LEMMA SealInit == Init => SealInv
  BY DEF Init, ProvisionInit, SealInv, Marked, Stage, Ended, First, Replicated

LEMMA BeginSeal == Shape /\ SealInv /\ (Prepare \/ Adopt \/ Resume) => SealInv'
<1> SUFFICES ASSUME Shape, SealInv, Prepare \/ Adopt \/ Resume PROVE SealInv'
  OBVIOUS
<1> USE DEF Shape, SealInv, Marked, Stage, Ended, First, Replicated, Answers, Late,
        Numbered
<1>1. CASE Prepare
  <2>1. call' # None /\ call'.step = "allocate" /\ call'.program = None
    BY <1>1, NewCallShape DEF Prepare, Steps
  <2>2. QED BY <1>1, <2>1 DEF Prepare, Unstarted
<1>2. CASE Adopt
  <2>1. /\ phase = "none" /\ dir # None /\ dir.marker = escrow.record
        /\ SlotOwned(dir.secrets) /\ orphans = {}
        /\ UNCHANGED <<escrow, replaced, dir, orphans>>
        /\ phase' = "preparing" /\ NewCall("claim")
    BY <1>2 DEF Adopt, Adoptable, Unstarted
  <2>2. dir.secrets # None /\ dir.marker # None
    BY <2>1, MarkerNumber, AbsentAssumption DEF SlotOwned
  <2>3. /\ Complete(dir, escrow.record)
        /\ DOMAIN dir.secrets.files = FilesOf[escrow.record]
    BY <2>1, <2>2, ReplicaComplete
  <2>4. escrow.record <= escrow.record
    BY MarkerNumber
  <2>5. call' # None /\ call'.step = "claim" /\ call'.program = None
    BY <2>1, NewCallShape DEF Steps
  <2>6. QED BY <2>1, <2>3, <2>4, <2>5
<1>3. CASE Resume
  <2>1. /\ UNCHANGED <<escrow, replaced, phase, dir, orphans>> /\ phase = "preparing"
        /\ \E step \in {"claim", "allocate"} : NewCall(step)
    BY <1>3 DEF Resume
  <2>2. call' # None /\ call'.step \in {"claim", "allocate"} /\ call'.program = None
    BY <2>1, NewCallShape DEF Steps
  <2>3. QED BY <2>1, <2>2
<1>4. QED BY <1>1, <1>2, <1>3

\* What a step leaves of the marker and of what it answers for.
LEMMA DirectorySeal ==
    Shape /\ SealInv /\ (Claim \/ Allocate \/ MakeLeaf \/ OwnLeaf \/ Mark) => SealInv'
<1> SUFFICES ASSUME Shape, SealInv, Claim \/ Allocate \/ MakeLeaf \/ OwnLeaf \/ Mark
    PROVE  SealInv'
  OBVIOUS
<1> USE DEF SealInv, Marked, Stage, Ended, First, Replicated, Answers, Late, Numbered
<1>1. /\ call \in Calls /\ call # None /\ phase = "preparing" /\ call.program = None
      /\ UNCHANGED <<escrow, replaced, phase, orphans>>
  BY DEF Shape, PreparationTypeOK, CallShape, Claim, Allocate, MakeLeaf, OwnLeaf, Mark,
         At, Stop
<1>2. \/ call' = None
      \/ /\ call' # None /\ call'.step \in {"load", "leaf", "own", "rename"}
         /\ call'.version = call.version /\ call'.program = None
         /\ call'.step = "rename" => call.step = "mark"
  BY <1>1, AbsentAssumption
     DEF Calls, Claim, Allocate, MakeLeaf, OwnLeaf, Mark, At, Goto, Stop
<1>3. \/ dir'.secrets = None /\ dir'.marker = None /\ call.step = "allocate"
      \/ dir # None /\ dir'.secrets = dir.secrets /\ dir'.marker = dir.marker
  <2>1. dir # None => dir \in Dirs
    BY DEF Shape, PreparationTypeOK
  <2>2. CASE Allocate
    BY <1>1, <2>1, <2>2 DEF Allocate, Stop, At
  <2>3. CASE Claim \/ MakeLeaf \/ OwnLeaf \/ Mark
    <3>1. dir # None
      BY <1>1, <2>3 DEF Shape, CallShape, Claim, MakeLeaf, OwnLeaf, Mark, At
    <3>2. QED
      BY <2>1, <2>3, <3>1 DEF Claim, MakeLeaf, OwnLeaf, Mark, Dirs
  <2>4. QED BY <2>2, <2>3
<1>4. QED BY <1>1, <1>2, <1>3 DEF Complete

LEMMA LoadSeal == Shape /\ SealInv /\ Load => SealInv'
<1> SUFFICES ASSUME Shape, SealInv, Load PROVE SealInv'
  OBVIOUS
<1> USE DEF SealInv, Marked, Stage, Ended, First, Replicated, Answers, Late, Numbered
<1>1. /\ call \in Calls /\ call # None /\ call.step = "load" /\ phase = "preparing"
      /\ dir # None /\ call.program = None
      /\ UNCHANGED <<escrow, replaced, phase, orphans, dir>>
  BY DEF Shape, PreparationTypeOK, CallShape, Load, At, Stop
<1>2. /\ escrow.record \in Nat
      /\ dir.marker = None \/ dir.marker \in Nat
  BY <1>1, MarkerNumber DEF Shape
<1>3. CASE call' = None
  BY <1>1, <1>3
<1>4. CASE dir.marker = escrow.record /\ SlotOwned(Tree)
  <2>1. call' = [call EXCEPT !.step = "render", !.version = escrow.record]
    BY <1>4 DEF Load
  <2>2. /\ call'.step = "render" /\ call'.version = escrow.record /\ call'.program = None
    BY <1>1, <2>1 DEF Calls
  <2>3. dir.marker # None
    BY <1>4, MarkerNumber, AbsentAssumption DEF Shape
  <2>4. Complete(dir, escrow.record)
    BY <1>1, <1>2, <1>4, <2>3
  <2>5. QED BY <1>1, <1>2, <1>4, <2>2, <2>4
<1>5. CASE dir.marker # escrow.record /\ MayProvision
  <2> DEFINE names == IF Tree # None THEN Listed ELSE {}
  <2>1. call' = [call EXCEPT !.step = TearDown, !.version = escrow.record, !.names = names]
    BY <1>5 DEF Load
  <2>2. /\ TearDown \in {"wipe", "unmark", "run"}
        /\ TearDown = "run" => dir.marker = None
    BY DEF TearDown
  <2>3. /\ call'.step = TearDown /\ call'.version = escrow.record /\ call'.program = None
    BY <1>1, <2>1 DEF Calls
  <2>4. dir.marker = None \/ dir.marker < escrow.record
    BY <1>1, <1>2, <1>5
  <2>5. QED BY <1>1, <1>2, <2>2, <2>3, <2>4
<1>6. QED BY <1>3, <1>4, <1>5 DEF Load, Stop

LEMMA WipeSeal == Shape /\ SealInv /\ (Unlink \/ Remove \/ Unmark) => SealInv'
<1> SUFFICES ASSUME Shape, SealInv, Unlink \/ Remove \/ Unmark PROVE SealInv'
  OBVIOUS
<1> USE DEF SealInv, Marked, Stage, Ended, First, Replicated, Answers, Late, Numbered
<1>1. /\ call \in Calls /\ call # None /\ call.step \in {"wipe", "remove", "unmark"}
      /\ phase = "preparing" /\ dir # None /\ dir \in Dirs /\ call.program = None
      /\ UNCHANGED <<escrow, replaced, phase, orphans>>
  BY DEF Shape, PreparationTypeOK, CallShape, Unlink, Remove, Unmark, At, Stop, Late
<1>2. /\ escrow.record \in Nat
      /\ dir.marker = None \/ dir.marker \in Nat
  BY <1>1, MarkerNumber DEF Shape
<1>3. CASE call' = None /\ dir' = dir
  BY <1>1, <1>3
<1>4. CASE Unlink /\ call.names = {}
  <2>1. /\ call'.step = "remove" /\ call'.version = call.version
        /\ call'.program = None /\ dir' = dir /\ call.step = "wipe"
    BY <1>1, <1>4 DEF Unlink, Goto, Calls, At
  <2>2. QED BY <1>1, <1>2, <2>1
<1>5. CASE Unlink /\ call.names # {}
  <2>1. PICK n \in call.names :
           /\ dir' = Filled([m \in Listed \ {n} |-> Tree.files[m]])
           /\ call' = [call EXCEPT !.names = @ \ {n}]
    BY <1>5 DEF Unlink
  <2>2. dir.secrets # None /\ call.step = "wipe"
    BY <1>1, <1>5 DEF Unlink, At, Shape, CallShape
  <2> DEFINE f == [m \in Listed \ {n} |-> Tree.files[m]]
  <2>3. f \in Files /\ DOMAIN f \subseteq Listed
    <3>1. /\ Listed \ {n} \in SUBSET Names
          /\ f \in [Listed \ {n} -> FileStates]
      BY <1>1, <2>2, ListedAre DEF Tree, Shape
    <3>2. QED BY <3>1, FilesType
  <2>0. dir' = Filled(f)
    BY <2>1
  <2> HIDE DEF f
  <2>4. /\ Filled(f).marker = dir.marker
        /\ Filled(f).secrets = [owner |-> dir.secrets.owner, files |-> f]
    BY <1>1, <2>2, <2>3, FilledType DEF Shape
  <2>5. dir'.marker = dir.marker /\ DOMAIN dir'.secrets.files \subseteq DOMAIN dir.secrets.files
    BY <2>0, <2>3, <2>4 DEF Listed
  <2>6. call'.step = "wipe" /\ call'.version = call.version
        /\ call'.program = None
    BY <1>1, <2>1, <2>2 DEF Calls
  <2>7. QED BY <1>1, <1>2, <2>2, <2>5, <2>6
<1>6. CASE Remove /\ Tree # None /\ Listed = {}
  <2>1. /\ call'.version = call.version /\ call'.program = None
        /\ call'.step = IF dir.marker # None THEN "unmark" ELSE "run"
        /\ call.step = "remove"
    BY <1>1, <1>6 DEF Remove, Goto, Calls, At
  <2>2. dir'.secrets = None /\ dir'.marker = dir.marker
    BY <1>1, <1>6 DEF Remove, Dirs
  <2>3. QED BY <1>1, <1>2, <2>1, <2>2
<1>7. CASE Unmark
  <2>1. call'.step = "run" /\ call'.version = call.version
        /\ call'.program = None
    BY <1>1, <1>7 DEF Unmark, Goto, Calls, At
  <2>2. dir'.secrets = dir.secrets /\ dir'.marker = None
    BY <1>1, <1>7 DEF Unmark, Dirs
  <2>3. QED BY <1>1, <1>2, <1>7, <2>1, <2>2 DEF Unmark, At
<1>8. QED BY <1>3, <1>4, <1>5, <1>6, <1>7 DEF Remove, Stop

LEMMA RunSeal == Shape /\ SealInv /\ (Run \/ Gather) => SealInv'
<1> SUFFICES ASSUME Shape, SealInv, Run \/ Gather PROVE SealInv'
  OBVIOUS
<1> USE DEF SealInv, Marked, Stage, Ended, First, Replicated, Answers, Late, Numbered
<1>1. /\ call \in Calls /\ call # None /\ call.step \in {"run", "gather"}
      /\ phase = "preparing" /\ dir # None
      /\ UNCHANGED <<escrow, replaced, phase, orphans, dir>>
  BY DEF Shape, PreparationTypeOK, CallShape, Run, Gather, At, Stop
<1>2. CASE Run
  <2> DEFINE p == [step |-> "open", version |-> call.version, todo |-> FilesOf[call.version]]
  <2>1. call' = [call EXCEPT !.step = "gather", !.program = p] /\ call.step = "run"
    BY <1>2 DEF Run, At
  <2>2. /\ call'.step = "gather" /\ call'.version = call.version
        /\ call'.program = p
    BY <1>1, <2>1 DEF Calls
  <2>3. p # None
    <3>1. call.version \in Versions
      BY <1>1, <2>1 DEF Shape, CallShape
    <3>2. p \in Programs
      BY <3>1, ProvisionAssumption DEF Programs
    <3>3. QED BY <3>2, AbsentAssumption
  <2>4. Present(dir, call.version, p.todo)
    BY DEF Present
  <2>5. QED BY <1>1, <2>1, <2>2, <2>3, <2>4
<1>3. CASE Gather /\ Unsealed
  <2>1. call.program = None /\ call.step = "gather"
        /\ call' = [call EXCEPT !.step = "give", !.names = Listed]
    BY <1>3 DEF Gather, At
  <2>2. /\ call'.step = "give" /\ call'.version = call.version
        /\ call'.program = None /\ call'.names = DOMAIN dir.secrets.files
    BY <1>1, <2>1 DEF Calls, Listed
  <2>3. Given(dir, call.version, DOMAIN dir.secrets.files)
    BY <1>1, <2>1 DEF Present, Given
  <2>4. QED BY <1>1, <2>1, <2>2, <2>3
<1>4. CASE call' = None
  BY <1>1, <1>4
<1>5. QED BY <1>2, <1>3, <1>4 DEF Gather, Stop

LEMMA GiveSeal == Shape /\ SealInv /\ Give => SealInv'
<1> SUFFICES ASSUME Shape, SealInv, Give PROVE SealInv'
  OBVIOUS
<1> USE DEF SealInv, Marked, Stage, Ended, First, Replicated, Answers, Late, Numbered
<1>1. /\ call \in Calls /\ call # None /\ call.step = "give" /\ call.program = None
      /\ phase = "preparing" /\ dir # None /\ dir \in Dirs /\ dir.secrets # None
      /\ call.version \in Versions /\ call.names \subseteq Listed
      /\ UNCHANGED <<escrow, replaced, phase, orphans>>
  BY DEF Shape, PreparationTypeOK, CallShape, Give, At
<1>2. /\ dir.secrets.files \in [Listed -> FileStates]
      /\ dir.marker = None /\ Given(dir, call.version, call.names)
  BY <1>1, ListedAre DEF Shape
<1>3. CASE call.names = {}
  <2>1. /\ call'.step = "mark" /\ call'.version = call.version
        /\ call'.program = None
    BY <1>1, <1>3 DEF Give, Goto, Calls
  <2>2. /\ dir'.marker = None
        /\ dir'.secrets = [owner |-> "slot", files |-> dir.secrets.files]
    BY <1>1, <1>2, <1>3 DEF Give, Dirs, Tree
  <2>3. dir'.secrets # None
    <3>1. dir.secrets.files \in Files
      BY <1>1, ListedAre DEF Shape
    <3>2. QED BY <2>2, <3>1, AbsentAssumption DEF Trees, Owners
  <2>4. Complete(dir', call.version)
    <3>1. \A n \in FilesOf[call.version] :
             /\ n \in Listed /\ dir.secrets.files[n] \in FileStates
             /\ dir.secrets.files[n].version = call.version
             /\ dir.secrets.files[n].owner = "slot"
      BY <1>2, <1>3 DEF Given, Listed
    <3>2. \A n \in FilesOf[call.version] :
             dir.secrets.files[n] = [version |-> call.version, owner |-> "slot"]
      BY <3>1 DEF FileStates
    <3>3. QED BY <2>2, <2>3, <3>1, <3>2 DEF Complete, Listed
  <2>5. QED BY <1>1, <1>2, <2>1, <2>2, <2>4
<1>4. CASE call.names # {}
  <2>1. PICK n \in call.names :
           /\ dir' = Filled([Tree.files EXCEPT ![n] =
                               [version |-> @.version, owner |-> "slot"]])
           /\ call' = [call EXCEPT !.names = @ \ {n}]
    BY <1>4 DEF Give
  <2> DEFINE f == [Tree.files EXCEPT ![n] = [version |-> @.version, owner |-> "slot"]]
  <2>2. f \in Files /\ DOMAIN f = Listed
    BY <1>1, GiveType
  <2>3. \A m \in Listed : /\ f[m].version = dir.secrets.files[m].version
                          /\ f[m].owner = IF m = n THEN "slot" ELSE dir.secrets.files[m].owner
    BY <1>2 DEF Tree
  <2>4. dir' = Filled(f)
    BY <2>1
  <2> HIDE DEF f
  <2>5. /\ Filled(f).marker = dir.marker
        /\ Filled(f).secrets = [owner |-> dir.secrets.owner, files |-> f]
    BY <1>1, <2>2, FilledType DEF Shape
  <2>6. dir'.marker = None /\ dir'.secrets.files = f
    BY <1>2, <2>4, <2>5
  <2>7. /\ call'.step = "give" /\ call'.version = call.version
        /\ call'.program = None /\ call'.names = call.names \ {n}
    BY <1>1, <2>1 DEF Calls
  <2>8. Given(dir', call.version, call.names \ {n})
    BY <1>2, <2>2, <2>3, <2>6 DEF Given, Listed
  <2>9. DOMAIN dir'.secrets.files = DOMAIN dir.secrets.files
    BY <2>2, <2>6 DEF Listed
  <2>10. QED BY <1>1, <1>2, <2>6, <2>7, <2>8, <2>9
<1>5. QED BY <1>3, <1>4

LEMMA RenderSeal == Shape /\ SealInv /\ (Rename \/ Render) => SealInv'
<1> SUFFICES ASSUME Shape, SealInv, Rename \/ Render PROVE SealInv'
  OBVIOUS
<1> USE DEF SealInv, Marked, Stage, Ended, First, Replicated, Answers, Late, Numbered
<1>1. /\ call \in Calls /\ call # None /\ call.step \in {"rename", "render"}
      /\ phase = "preparing" /\ dir # None /\ dir \in Dirs /\ dir.leaf = "slot"
      /\ call.version \in Versions /\ call.program = None
      /\ UNCHANGED <<escrow, replaced, orphans>>
  BY DEF Shape, PreparationTypeOK, CallShape, Rename, Render, At, Late
<1>2. CASE Rename
  <2>1. /\ call'.step = "render" /\ call'.version = call.version /\ call'.program = None
        /\ call.step = "rename" /\ phase' = phase
    BY <1>1, <1>2 DEF Rename, Goto, Calls, At
  <2>2. dir'.secrets = dir.secrets /\ dir'.marker = call.version
    BY <1>1, <1>2 DEF Rename, Dirs
  <2>3. Complete(dir', call.version)
    BY <1>1, <2>1, <2>2 DEF Complete
  <2>4. QED BY <1>1, <2>1, <2>2, <2>3
<1>3. CASE Render
  <2>1. call.step = "render" /\ call' = None /\ dir' = dir /\ phase' = "prepared"
    BY <1>3 DEF Render, At
  <2>2. dir.marker # None
    BY <1>1, <2>1, AbsentAssumption
  <2>3. QED BY <1>1, <2>1, <2>2
<1>4. QED BY <1>2, <1>3

LEMMA ProgramSeal == Shape /\ SealInv /\ Program => SealInv'
<1> SUFFICES ASSUME Shape, SealInv, Program PROVE SealInv'
  OBVIOUS
<1> USE DEF SealInv, Marked, Stage, Ended, First, Replicated, Answers, Late, Numbered
<1> DEFINE p == call.program
<1>1. /\ call \in Calls /\ call # None /\ call.step = "gather" /\ p \in Programs
      /\ phase = "preparing" /\ dir # None /\ call.version \in Versions
  BY DEF Shape, PreparationTypeOK, CallShape, Program, Calls
<1>2. UNCHANGED <<escrow, replaced, orphans>>
  BY DEF Program
<1>3. /\ p # None /\ p.version = call.version /\ Present(dir, call.version, p.todo)
      /\ dir.marker = None
  BY <1>1 DEF Program
<1>4. ASSUME NEW names \in SUBSET p.todo, Added(names), phase' = phase, NEW q \in Programs,
             q.version = call.version, q.todo \subseteq p.todo,
             call' = [call EXCEPT !.program = q], Present(dir', call.version, q.todo)
      PROVE  SealInv'
  <2>1. call'.step = "gather" /\ call'.version = call.version /\ call'.program = q
    BY <1>1, <1>4 DEF Calls
  <2>2. q # None
    BY AbsentAssumption
  <2>3. ~replaced =>
           /\ Answers(q)
           /\ DOMAIN dir'.secrets.files \subseteq FilesOf[escrow.record]
    BY <1>1, <1>3, <1>4 DEF Added
  <2>4. dir'.marker = None
    BY <1>3, <1>4 DEF Added, Extends
  <2>5. QED BY <1>1, <1>2, <1>4, <2>1, <2>2, <2>3, <2>4
<1>5. CASE Open(p) /\ call' = [call EXCEPT !.program = Opened(p)] /\ phase' = phase
  <2>1. /\ Opened(p) \in Programs /\ Opened(p).version = call.version
        /\ Opened(p).todo = p.todo
    BY <1>1, <1>3, ProgramTypes DEF Opened, Programs
  <2>2. Added({}) /\ Present(dir', call.version, p.todo)
    BY <1>1, <1>3, <1>5, OpenAdds, Kept DEF Added
  <2>3. QED BY <1>4, <1>5, <2>1, <2>2
<1>6. ASSUME NEW n \in p.todo, Write(p, n), phase' = phase,
             call' = [call EXCEPT !.program = Written(p, n)]
      PROVE  SealInv'
  <2>1. /\ Written(p, n) \in Programs /\ Written(p, n).version = call.version
        /\ Written(p, n).todo = p.todo \ {n}
    BY <1>1, <1>3, ProgramTypes DEF Written, Programs
  <2>2. /\ Added({n}) /\ n \in DOMAIN dir'.secrets.files
        /\ dir'.secrets.files[n].version = call.version
    BY <1>1, <1>3, <1>6, WriteAdds
  <2>3. Present(dir', call.version, p.todo)
    BY <1>1, <1>3, <2>2, Kept DEF Added
  <2>4. Present(dir', call.version, p.todo \ {n})
    BY <2>2, <2>3 DEF Present, Added
  <2>5. QED BY <1>4, <1>6, <2>1, <2>2, <2>4
<1>7. CASE Done(p) /\ call' = [call EXCEPT !.program = None] /\ UNCHANGED <<phase, dir>>
  <2>1. /\ call'.step = "gather" /\ call'.version = call.version /\ call'.program = None
    BY <1>1, <1>7 DEF Calls
  <2>2. Present(dir, call.version, {})
    BY <1>3, <1>7 DEF Done
  <2>3. QED BY <1>1, <1>2, <1>3, <1>7, <2>1, <2>2
<1>8. CASE Stop
  BY <1>1, <1>2, <1>8 DEF Stop
<1>9. QED BY <1>5, <1>6, <1>7, <1>8 DEF Program

LEMMA OrphanSeal == Shape /\ SealInv /\ OrphanStep => SealInv'
<1> SUFFICES ASSUME Shape, SealInv, OrphanStep PROVE SealInv'
  OBVIOUS
<1> USE DEF SealInv, Marked, Stage, Ended, First, Replicated, Answers, Late, Numbered
<1>1. PICK p \in orphans :
         /\ \/ Open(p) /\ orphans' = (orphans \ {p}) \cup {Opened(p)}
            \/ \E n \in p.todo :
                  Write(p, n) /\ orphans' = (orphans \ {p}) \cup {Written(p, n)}
            \/ (Done(p) \/ Fails(p)) /\ orphans' = orphans \ {p} /\ UNCHANGED dir
         /\ UNCHANGED <<escrow, replaced, phase, adopted, call>>
  BY DEF OrphanStep
<1>2. p \in Programs /\ dir # None /\ dir \in Dirs /\ phase # "none"
  BY DEF Shape, PreparationTypeOK, Unstarted
<1>3. ASSUME NEW names \in SUBSET p.todo, Added(names), NEW q,
             q.version = p.version, q.todo \subseteq p.todo,
             orphans' = (orphans \ {p}) \cup {q}
      PROVE  SealInv'
  <2>1. /\ dir'.marker = dir.marker /\ dir'.leaf = dir.leaf /\ Extends(dir, dir')
        /\ dir' # None
    BY <1>3, AbsentAssumption DEF Added, Extends
  <2>2. \A v \in Versions : /\ Complete(dir, v) => Complete(dir', v)
                            /\ \A todo : Present(dir, v, todo) => Present(dir', v, todo)
                            /\ \A given : dir.secrets # None /\ Given(dir, v, given)
                                            => Given(dir', v, given)
    BY <2>1, Kept
  <2>3. /\ call # None /\ call.step \in Numbered => call.version \in Versions
        /\ call # None /\ call.step = "give" => dir.secrets # None
        /\ dir.marker # None => dir.marker \in Versions
    BY <1>2 DEF Shape, CallShape, Dirs
  <2>4. Marked' /\ Ended'
    BY <1>1, <1>2, <2>1, <2>2, <2>3
  <2>5. Stage'
    BY <1>1, <1>2, <2>1, <2>2, <2>3
  <2>6. First'
    BY <1>1, <1>2, <1>3, <2>1 DEF Added
  <2>7. QED BY <1>1, <1>2, <2>4, <2>5, <2>6
<1>4. CASE Open(p) /\ orphans' = (orphans \ {p}) \cup {Opened(p)}
  <2>1. Opened(p).version = p.version /\ Opened(p).todo = p.todo
    BY <1>2 DEF Opened, Programs
  <2>2. QED BY <1>2, <1>3, <1>4, <2>1, OpenAdds
<1>5. ASSUME NEW n \in p.todo, Write(p, n),
             orphans' = (orphans \ {p}) \cup {Written(p, n)}
      PROVE  SealInv'
  <2>1. Written(p, n).version = p.version /\ Written(p, n).todo = p.todo \ {n}
    BY <1>2 DEF Written, Programs
  <2>2. Added({n})
    BY <1>2, <1>5, WriteAdds
  <2>3. QED BY <1>3, <1>5, <2>1, <2>2
<1>6. CASE orphans' = orphans \ {p} /\ UNCHANGED dir
  BY <1>1, <1>2, <1>6
<1>7. QED BY <1>1, <1>4, <1>5, <1>6

\* Where the marker is late, it stays late: versions only advance.
LEMMA OperatorSeal ==
    ASSUME Rollback = FALSE
    PROVE  Shape /\ SealInv /\ (Interrupt \/ Rotate) => SealInv'
<1> SUFFICES ASSUME Shape, SealInv, Interrupt \/ Rotate PROVE SealInv'
  OBVIOUS
<1> USE DEF SealInv, Marked, Stage, Ended, First, Replicated, Answers, Late, Numbered
<1>1. CASE Interrupt
  <2>1. /\ call # None /\ call' = None /\ phase = "preparing"
        /\ UNCHANGED <<escrow, replaced, phase>>
    BY <1>1 DEF Interrupt, Shape, CallShape
  <2>2. \/ dir' = dir
        \/ dir # None /\ dir'.secrets = dir.secrets /\ dir'.marker = dir.marker
    BY <1>1 DEF Interrupt, Shape, PreparationTypeOK, Dirs
  <2>3. \/ orphans' = orphans
        \/ call.program # None /\ orphans' = orphans \cup {call.program}
    BY <1>1 DEF Interrupt
  <2>4. dir = None => dir' = None
    BY <1>1 DEF Interrupt
  <2>5. QED BY <2>1, <2>2, <2>3, <2>4 DEF Complete
<1>2. CASE Rotate
  <2>1. /\ replaced' /\ UNCHANGED <<phase, dir, call, orphans>>
        /\ escrow'.record \in Nat /\ escrow.record \in Nat
        /\ escrow'.record = escrow.record \/ escrow'.record > escrow.record
    BY <1>2, ProvisionAssumption DEF Rotate, Shape, PreparationTypeOK
  <2>2. dir # None /\ dir.marker # None => dir.marker \in Nat
    BY MarkerNumber DEF Shape
  <2>3. call # None /\ call.step \in Numbered => call.version \in Nat
    BY ProvisionAssumption DEF Shape, CallShape
  <2>4. call # None /\ call.step \in {"wipe", "remove"} => dir # None
    BY DEF Shape, CallShape
  <2>5. QED BY <2>1, <2>2, <2>3, <2>4
<1>3. QED BY <1>1, <1>2

LEMMA SealStep ==
    ASSUME Rollback = FALSE
    PROVE  Shape /\ SealInv /\ [Next]_vars => SealInv'
<1>1. Shape /\ SealInv /\ UNCHANGED provisionVars => SealInv'
  BY DEF SealInv, Marked, Stage, Ended, First, Replicated, Answers, provisionVars
<1>2. Shape /\ SealInv /\ ProvisionNext => SealInv'
  BY BeginSeal, DirectorySeal, LoadSeal, WipeSeal, RunSeal, ProgramSeal, GiveSeal,
     RenderSeal, OrphanSeal, OperatorSeal DEF ProvisionNext, Begin, ProvisionStep
<1>3. QED BY <1>1, <1>2 DEF Next, Preparing, Distributing, vars

\* A prepared instance has every file of the version its marker names
\* (_provision_secrets, _adopt_secrets), for any versions that only advance and any
\* number of kills and of secrets programs that outlive their worker.
THEOREM PreparedIsSealedHolds ==
    ASSUME Rollback = FALSE
    PROVE  Spec => []PreparedIsSealed
<1>1. Shape /\ SealInv => PreparedIsSealed
  BY DEF SealInv, Ended, First, Complete, PreparedIsSealed, Listed, Tree
<1>2. QED BY <1>1, ShapeInit, ShapeStep, SealInit, SealStep, PTL DEF Spec

=============================================================================
