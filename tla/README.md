# Nexus-Infra: a TLA+ model of the placement and workload control plane

This directory holds a formal model of the programs under `console/` and of the
NixOS units under `host-modules/` that decide **which host may run which
instance of a workload**, and that make the decision survive crashes, lost
answers, clocks that move and two actors at once. It has

* TLA+ modules translated from the Python source (every definition names its
  lines in `PROJECT.json`, `map`),
* TLC configurations that check them on small instances,
* theorems checked by TLAPS for every value of the constants.

`PROJECT.json` is the index: components, runs, mutants, the map, findings,
hazards and theorems. Line numbers below are those of the repository's files.

## 1. The system

Nexus runs *workloads* (services packed into NixOS VMs) on a few hosts. A
workload has a sealed definition per *revision*; each time it is placed it gets
a new *instance* with the next *generation* number. One registry decides
placements; every host has a root worker that executes operations and a
reporter that connects worker and registry; a controller, run by the operator
or a timer, journals multi-step jobs (move, failover); an ingress proxies
routed services to the host that is ready.

```
   operator ── controller ──(mTLS)── registry ──(mTLS)── reporter ── worker ── systemd
                  │   journal           │ SQLite           │ journal     │ SQLite   │
                  │                     │                  │             │        guard
                  └──── local worker ───┘            ingress consumer ── ingress
                        backup / restore / repository (per host, beside the worker)
```

### 1.1 Inventory

| Component (source) | State it keeps | Operations | What makes it correct |
|---|---|---|---|
| Evidence predicates (`registry.py` `_ready`, `_retired_drained`, `_observed_state`; `controller.py` `_fresh_observation`…) | none, pure | readings of one report | the three readers never disagree about what a report proves |
| Registry core (`registry.py`) | SQLite: placements, instances, sessions, observations, fences, requests, operations, version; volatile: epoch, last clock reading, receipt times | assign, publish, withdraw, fence, open session, observe, post/claim/finish operation, state and routes views, restart with `_check_compat` | one lineage of generations per workload; a succession rests on evidence; a request takes effect once; a database it wrote it can reopen; stale evidence never revives; a route lives no longer than its evidence; queue bounded |
| Local worker and guard (`worker.py`, `workload-host.nix`) | SQLite: instances, generations, captures, operations; systemd units; permit files | prepare, adopt, start, stop, retire, freeze, thaw, observe, the reconcile before each, guard | only the current generation has processes; a retired instance stays down; a held capture is quiet; an acknowledged stop is over an empty unit; a start is let through once; every journalled operation ends |
| Reporter (`reporter.py`) | file: session id, epoch, next sequence, operation journal | open session, post observation, poll, claim, execute, receipt | an observation is never accepted twice or out of order; an operation is executed by its claimer only; uncertain is retried, never reported |
| Controller (`controller.py`) | job file: phases, checkpoints, deferral, error | plan, execute, failover, status, abort; a step per phase of a move or a failover | no overlap of source and target; nothing written is lost; abort only while ownership has not moved; a crash at any step resumes |
| Registry API (`registry_api.py`) | none (connections) | framing, certificate to identity, dispatch | each call is one registry action |
| Ingress and consumer (`ingress.py`, `ingress_consumer.py`) | rendered file, high-water mark, tokens | poll, authorize, dynamic_config; the consumer renders once per tick | never routes after `validUntil`; never goes back to an older snapshot |
| Backup worker (`backup.py`) | one JSON record per capture; a scratch directory | capture, upload, status | a point is taken from a frozen, drained instance; barrier released |
| Restore worker (`restore.py`) | one JSON record per restore; sentinel, staging directory | stage, commit, status | an instance starts from all or none of a restore |
| Repository adapter (`repository.py`) | external restic repository | verify identity, inspect, list points, check, store, copy, restore | a point that inspects well holds what was stored; a copy is the point it was copied from |
| Recovery, policy, catalog (`recovery.py`, `policy.py`, `catalog.py`) | documents, no state | manifests: build, validate, encode, decode, the catalog of a list; policy: build, validate, evaluate (a class per point, whether a capture is due), plan (due work in order), advisory, nothing is deleted; catalog: seal and validate a definition, look up, admit | what the policy protects or still needs is never classed as expired; the catalog is acyclic |
| Secrets (`secrets.py`) | the target directory it fills; the escrow | seal, verify, provision, inspect | what is provisioned is all of one version, whatever was killed |
| Artifacts, distribution (`artifacts.py`, `distribution.py`) | reference records, roots in the Nix store | build and validate a manifest; fetch, which verifies and retains | a retained reference is never collected |
| Console, agent, console API (`server.py`, `agent.py`, `common.py`, `console_api.py`) | sessions, last observation per host, event log | poll, state, login, start, stop or restart of a VM's unit, pages | an action is submitted once, never retried, and no two on one VM within five seconds |
| State files (`statefiles.py`) | — | checked read, atomic replace | readers see the old or the new file |
| Nix modules and tests | configuration | — | unit has `ExecCondition`, `Restart=no` |

### 1.2 How the components interact

* **registry ↔ reporter**: the reporter opens a session (the registry allocates
  it, in this epoch), posts numbered observations of the worker's rows, polls
  the host's operation queue, claims an operation, hands it to the worker and
  posts a receipt. Every one of the four calls can be lost in either direction.
* **registry ↔ controller**: writes carry a request id; a replay of a recorded
  request returns its receipt. Reads are `/v2/state`, the words of `Evidence`.
* **worker ↔ systemd ↔ guard**: the worker commits a *permit* and asks systemd
  to start the unit; systemd runs the guard, which without any lock reads the
  row and consumes the permit in a second statement.
* **controller ↔ worker**: directly on the local host, through the registry's
  queue on a remote one; backup and restore run between freeze and thaw.
* **registry → ingress**: a route snapshot with `validUntil`.

### 1.3 The hard behaviours

Two statements of the guard with the worker in between; a crash between any two
commits of a call; a systemctl call whose answer is lost; an operation resumed
by a different call; a receipt replayed after its operation was resolved; a
wall clock set back with or without a restart; evidence recorded under an
earlier session; a generation superseded while its operation is under way; a
queue at its limit. `PROJECT.json`, `hazards`, lists them at their lines with
the properties that would catch them.

## 2. The modules

| Module | Models | Shape |
|---|---|---|
| `Evidence` | what one observation proves | pure operators |
| `Registry`, `MCRegistry` | the registry core | one action per handler |
| `Worker`, `MCWorker` | the local worker, its guard and systemd | one action per commit, look or systemctl call |
| `Controller`, `MCController` | the controller's journal and its calls, over the registry, reporters, workers and data its steps need | one action per check, step, save and advance of a call, and per move of everybody else |
| `Dispatch`, `MCDispatch` | the host reporter between the registry's queue and the worker's receipts | one action per exchange, save or execution of a cycle |
| `Ingress`, `MCIngress` | the edge: poller, guard, rendered document | one action per handler, and per move of Traefik, the clocks and the registry |
| `Repository` | restic repositories as the adapter uses them | state and operators shared by the next two |
| `Backup` | the backup worker and its source | one action per commit, read or command of a request |
| `Restore` | the restore worker and its target | the same |
| `Transfer`, `MCTransfer` | `Backup` and `Restore` over the same repositories | composition, and what the whole promises |
| `Installation` | what a restore promises whoever may start the instance | abstract specification, refined by `Transfer` |
| `Distribution` | the fetch of a bundle, the store and its collector | one action per command of a fetch |
| `Provision` | a prepare or an adopt on the disk, with the secrets program | one action per change of the disk |
| `Preparation`, `MCPreparation` | `Distribution` and `Provision` side by side | composition, and what the whole promises |
| `RegistryProofs`, `EvidenceProofs`, `IngressProofs`, `PreparationProofs`, `WorkerProofs`, `ControllerProofs`, `DispatchProofs` | theorems about the module of the same name | TLAPS |
| `TransferProofs` | theorems about `Transfer`: its capture half, its restore half and the refinement of `Installation` | TLAPS |

How they hang together: `Worker` is what `Controller` and `Dispatch` see through
receipts and what `Backup` and `Restore` see through barriers, phases and the
sentinel; `Registry` is what `Dispatch` sees through its queue, what
`Controller` sees through words and evidence (`Evidence`), and what `Ingress`
sees through snapshots. Where a module needs a neighbour it has as much of it as
its steps can tell apart, and no assumption about it that the neighbour's own
module does not show.

### 2.1 Evidence

`Report` is the payload of an observation (`_validate_observation`):
phase, unit state, drained, retired, ready services. `ReadyFor` and
`RetiredDrained` are the payload parts of the registry's commit gates,
`ObservedState` is the word `/v2/state` shows, `TakenAsFresh`,
`ControllerReady` are what the controller makes of that word. Times are
integers; `MaxAge` and `LostAfter` stand for 30 s and 300 s.

### 2.2 Registry

Every handler runs under the lock and one `BEGIN IMMEDIATE`, so every handler is
one action. Its guard is the conjunction of the checks that do not raise, its
effect the rows written. A call that is refused or that replays a recorded
request leaves the database alone but may consume a clock reading; all of these
are the one action `ReadClock`. `Restart` begins a new epoch, forgets the last
reading and demands `_check_compat`; `Tick` and `SetClock` are the two clocks.

Abstracted: identities are model values (the certificate check is the API's),
canonical JSON and digests (a request is a record compared as a value), secrets
metadata, sizes and formats. The controller's inputs are enumerated, so nothing
is assumed about how a controller behaves.

Bounds: `MaxVersion` database writes, `MaxTime` on each clock, `MaxEpoch`
restarts, `MaxSequence` observations per session. They are guards of the
actions and of nothing else.

### 2.3 Worker

`row` is the `instances` table, `known` the `generations` table, `capture` the
`captures` table, `ops` the `operations` table. `unit` is what systemd and the
cgroup do, `call` the call that holds the host lock. A call goes through the
stages of the code:

| `call.at` | code | action |
|---|---|---|
| `reconcile` | `_reconcile`, one look and one commit per row | `ReconcileLook`, `ReconcileApply` |
| — | receipt of a settled operation, or observe | `Answer` |
| `serve` | `execute`: resume it, resume what is in its way, or journal it | `Serve` |
| `probe` | the look a decision rests on | `Probe` |
| `act` | `_prepare`, `_adopt`, `_start`, `_resume_start`, `_stop`, `_resume_stop`, `_retire`, `_freeze`, `_thaw` up to their commit | one action each |
| `render` | directories, secrets and runtime files of a prepare | `Render` |
| `issue-*` | `systemctl start`, `systemctl stop` | `IssueStart`, `IssueStop` |
| `wait-*`, `look-*` | the return of systemctl and the look after it | `JobEnded`, `LookAfter` |
| `settle-*` | `_settle_start`, `_settle_stop` | `SettleStart`, `SettleStop` |
| `finish` | `_finish`, the receipt | `Finish` |

The guard's two statements are `GuardRead` and `GuardConsume`; `Started`,
`Exits`, `Stopped`, `Drains` are systemd and the processes, which are external.

Faults, at most `MaxFaults` of them: `Interrupt` (the worker process dies, a
systemctl call outlasts its timeout, an internal error ends the call: in each
the lock is released and the commits stay), `Reboot`, a look whose answer is
lost (`Look`), a unit started by hand (`StrayStart`).

Simplifications, each in the direction of more behaviours unless said:

* gates on the bundle, the mount, capacity, directories and secrets may refuse
  at any time;
* an operation id names one action on one instance; a second request under the
  same id with another content is refused by the code and is no step here;
* `live` is "this boot and before the deadline"; it becomes false at any time;
* `_check_workload_drained` looks at every sibling's unit; the model takes the
  looks at one moment (fewer behaviours: a unit of a sibling cannot come up
  between the look at it and the look at the next. A sibling can come up only
  by consuming a permit, and a sibling in phase `starting` is refused by the
  unique index at the commit);
* `observe` is a call with no operation; unknown instances' units are not
  modelled.

### 2.4 Controller

`job` is the journal: the phase of each job and the state of that phase's
checkpoint (`mark`). `call` is the one invocation that holds the controller's
flock; everything before its phase is behind it. A job's phases are
`StepsOf(j)`, and a phase is a `Script` of one or more labels, the calls its
`_step_*` method makes in order.

| code | action |
|---|---|
| `_plan`, `_new_failover_job` | `Plan` |
| `_execute`, `_failover` taking the lock | `Execute` |
| the dependency gate of `_run_phases` before some phases | `Gate` |
| `_step_validate`, `_step_refresh`, `_step_fence`, the waits | `Look` |
| `_step_assign`, `_step_publish`, the fence post | `RegistryStep` |
| a worker, backup or restore operation on the own host | `LocalStep` |
| `_remote_step`: the post and the looks at the operation | `Dispatch`, `View` |
| the save of the checkpoint, the advance of the phase | `Save`, `Advance` |
| `_abort` | `Abort` |

What an accepted request does to the registry is `Commit`, what the commit and
the completion of a worker operation leave of an instance are `Revoked` and
`Carried`.

`Defer` saves the checkpoint as `deferred` and ends the call; `Blocked` is an
error that ends it without a save. The next `Execute` begins at the first label
of the saved phase again, under the same request and operation ids.

Around the journal, as little as its steps need: `placement`, `fences` and
`requests` of the registry (a recorded request is replayed), `shown`, the word
`/v2/state` has for the placed instance, and `ready`, one bit for the whole
dependency closure; `queue`, the dispatched operations; `receipt`, the record an
operation has on its host; `proc`, the instances there, with the amount of data
they wrote; `barrier` and `snapshot`, the capture a job holds and its content. A
worker operation begins (`HostBegins`, its commit) and completes, and freeze and
retire (`TwoPhased`) wait for the unit in between. `Worker` has those operations
in detail; here they are what its receipts promise.

Simplifications:

* one workload, one controller; the target session and its reports enter only
  through the word of the placed instance, and any other refusal of a read is
  an `Interrupt`;
* the polls of one call are one look, the last;
* a failed worker operation keeps its receipt and fails every replay; backup,
  restore and observe may be asked again when the host is the own one;
* the row shows `stopping` where the registry may say `unknown`: no step of the
  controller tells the two apart;
* the replica a failover adopts is external: its data is not followed.

`NoOverlap` is about the time in which only moves have assigned
(`MovedByMoves`). Failovers may be under way meanwhile, and a fence one of them
left when it was aborted or refused stays in the registry, where `assign` accepts
it for whoever asks next under that generation although the incumbent serves
again. A move does not rest on it, because its journal waits for its own source
to be retired; the scene *stray* of the run `jobs` is such a pair. A second
failover would rest on it: whether the incumbent is down is then the word of its
caller, which is the design of a fence.

`JournalHonest` says of every step behind a job that what it was for has
happened. A publish is behind a job when its routes are published *or* the
placement has gone on: a successor that is itself moved leaves `published` false
again until the next move publishes. The scene *back* of the run `jobs` has such
a pair of moves.

Bounds: `MaxFaults` interruptions, lost evidence, lost dependencies and starts
by hand; `MaxWrites` writes. `faults`, `byHand` and `heard` are history.

### 2.5 Dispatch

One cycle of `run_once` after another. `cycle.at` says where it is:

| `cycle.at` | code | action |
|---|---|---|
| `idle` | the start of `run_once` | `Begin` |
| `open` | `_open_session` | `Open` |
| `sample` | `_observe_instance`, `_allocate_sequence` | `Sample` |
| `post` | `_post_observation` and the one retry after `SessionLost` | `PostObservation` |
| `resume`, `fetch` | `_dispatch_journal`, `_fetch_operations` | `Resume`, `Fetch` |
| `entry` | the next entry of `_dispatch_cycle`, journaled as `claiming` | `Entry` |
| `claim`, `receipt` | `_post_receipt` of a claim, of an outcome | `Claim`, `PostReceipt` |
| `authorize` | `_held`, payload checks | `Authorize` |
| `run` | `_worker_result`, `_cli` | `RunWorker`, `RunProgram` |

`posted` counts the operations of the registry and `seq` is the count at which
one was posted; a cycle works off the set `todo`, the lowest `seq` first (`Op`).
`Accepts` and `TakeReport` are what `observe` of the registry does with a
message, `TakeClaim` and `TakeFinal` what `operation_receipt` does. `NextStage`
is where an entry of the journal goes on. Each exchange may be lost, be late (`late`, delivered by
`Arrive` at any later time) or lose its answer (`NoAnswer`); the process may die
anywhere (`Die`); the registry may forget its sessions (`LoseSession`). `worker`
is the receipt the worker keeps of an operation, which another caller may settle
meanwhile (`Resumed`); an operation with a receipt is not run again, which is
what `Worker` shows. Programs (`backup`, `restore`) have no such receipt, may be
run again, and a failure they report may hide what they got done.

Simplifications: one host, one workload, one instance to report on; payloads
are refused or not by choice; the two registries of receipts that the code keys
by request id are one status, because request ids derive from the operation.

### 2.6 Ingress

`poll` is the polling thread with the answer it holds, `snapshot` what is in
force, `document` the rendered file and `loaded` what Traefik routes by. Times
are relative to now, so that `Tick` shifts what is held instead of counting up;
`offset` is the wall clock of the edge less that of the registry, and `Step`
moves it. `Answer` draws how much lease the registry's evidence left; the answer
ages while it is under way. `Acceptable` is `validate_snapshot`, `Fresh` the
guard's `_fresh` on both clocks. `Commit`, `Lapse` and `Restore` are the
registry; restoring an earlier database is what the high-water mark is for.

### 2.7 Repository, Backup, Restore, Transfer

A capture has a barrier in the worker, a journal entry, a manifest in its
scratch directory and finals in the repositories. `request` is the one under the
journal's lock:

| `request.step` | code | action |
|---|---|---|
| — | `_begin_capture`, `_find_cached_point`, `upload` | `Begin`, `Adopt`, `Upload` |
| `draft`, `final` | restic reads the source, one directory at a time | `Read` |
| end of `draft` | `_persist_completed`: the barrier proved again, the completion journaled | `Seal` |
| `compose` | the manifest goes into the scratch directory; a final that is already there is taken | `Compose` |
| end of `final` | the final is written and compared with the manifest | `Store` |
| `copy` | `copy_from` and the listing after it | `Copy` |
| `keep` | the record is journaled | `Keep` |

The source writes, is frozen, drained, thawed and resumed under a request
(`SourceStep`). A killed request leaves its journal, its scratch and, because
`BoundedRunner` starts restic in a session of its own while the reporter's
`CliRunner` kills only the group of the backup program, perhaps its restic: an
`orphan` reads on (`OrphanRead`) and writes its final later (`OrphanStep`),
whatever the source does by then.

A restore claims its sentinel, verifies the point, extracts into a staging area,
is staged; a commit moves each directory with a removal and a rename, drops the
staging area and the sentinel, and journals `committed`:

| `work.step` | code | action |
|---|---|---|
| — | `_target_context`, `_claim_sentinel`; the gates of `commit` | `Claim`, `Commit` |
| `verify` | the second observation, `inspect`, the new entry | `Verify`, `Refuse`, `Blocked` |
| `extract` | the copies, the staged entry | `Extract`, `Staged` |
| `move` | `_commit_leaves` | `Move`, `Unstage` |
| `unclaim`, `record` | the sentinel, the committed entry | `Unclaim`, `Record` |

`Interrupt` ends a request anywhere. `Start` and `Retire` are the worker's, with
the gates of its own that concern a restore (`_restore_pending`,
`_check_state_dirs`).

`Installation` is what this is for: an instance that may be started is as it was
prepared, or holds a whole point; in between it is claimed. `Transfer` refines
it; the mapping reads a claimed instance off the sentinel.

Simplifications: a replay of a job that is captured, copied or committed only
reads, and is no step; the order of the directories is left open; the `cp` of an
interrupted stage dies with it; ownership, free space and secret metadata are
refusals by choice; a scratch manifest of another capture and a listing that
disagrees with the entry are in the model but no step reaches them.

### 2.8 Distribution, Provision, Preparation

What an instance is made from. A fetch holds the lock of the distribution and
runs one command after another; the garbage collector may run between any two:

| `fetch.step` | code | action |
|---|---|---|
| — | `_fetch`: the reference recorded as pending | `Fetch` |
| `copy`, `sign` | `nix copy`, `copy-sigs` | `CopyIn`, `CopySignatures` |
| `verify` | `store verify`, the files and the closure | `VerifyBundle` |
| `root`, `check` | `nix-store --add-root`, the symlink read back | `AddRoot`, `CheckRoot` |
| `keep` | the record as retained | `Retain` |

`Worker` has the render of a prepare as one step; `Provision` is what is in it.
`dir` is the instance directory as the code lists it: its owner, the leaf of
the state mount, `secrets/` with the version and owner of every file, the marker
`.nexus-secrets`, and the temporary file of `write_file`:

| `call.step` | code | action |
|---|---|---|
| — | `_prepare` without a row, `_adopt`, `_prepare` with a row | `Prepare`, `Adopt`, `Resume` |
| `claim` | `_adopt_dirs` and the chown | `Claim` |
| `allocate`, `leaf`, `own` | `_allocate_state_dirs` | `Allocate`, `MakeLeaf`, `OwnLeaf` |
| `load` | `_load_secret_record` and the marker's word | `Load` |
| `wipe`, `remove`, `unmark` | `_wipe_secrets_dir`, the unlink of the marker | `Unlink`, `Remove`, `Unmark` |
| `run` | `_run_secrets_cli`; the program itself is `Open`, `Write`, `Done`, `Fails` | `Run`, `Program` |
| `gather`, `give` | the listing, one chown per file and one for the directory | `Gather`, `Give` |
| `mark`, `rename` | `write_file` of the marker | `Mark`, `Rename` |
| `render` | `_render_runtime_files`, the commit of the phase | `Render` |

A kill may come before any of these (`Interrupt`), and a secrets program whose
worker was killed goes on in a session of its own: an *orphan* (`OrphanStep`),
of which there may be several. `escrow` is two files, record and blob, that an
operator replaces one after the other (`Rotate`). The program writes only if the
blob is the version it was asked for.

Simplifications: one instance, one state mount, one secret set (a definition
without one goes from `load` to `render`); versions are put in place in the order
they were sealed, unless `Rollback`; the order of the files is left open; names
and owners of a replica that does not fit are refusals, so a replica is what a
peer prepared or the part of it that has arrived; a prepare of a prepared row
only reads; nix, age and the sealing are external.

## 3. What is checked

A run that asks several questions of one module does so in *scenes*: the state
constraint `InScene` of the MC module keeps the states that lie within the
bounds of at least one scene (which operations arrive, how much fails, what is
placed). These bounds are on things that only grow, so each scene is explored
whole, and the actions and properties are those of the module. Only runs
without liveness have a constraint.

### 3.1 Passing runs

| Run | Question | Instance, and why it is enough |
|---|---|---|
| `handover` | Lineage, attribution and reopening over successions; does every handover and publication rest on what is known at its commit? | scene *handover*: two hosts, three instances, so generation 1 is succeeded by retirement or fence and generation 2 again (a fence of generation 1 is then there to be mistaken), four request ids for races and replays, one operation posted, which a reopened database has to accept, a restart. Scene *dependency*: two workloads on one host, the second needing the first, three instances, a restart, which may come between the report of the dependency and the dependent's commit |
| `limits` | Do evidence and routes expire on time under moving clocks? Do the words of `/v2/state` say what the gates decide? Does the queue hold its limit? | scene *clock*: one instance, wall set to any value at any time, two epochs, two sequence numbers, a report of a ready or of a retired instance; `MaxAge`=1, `RouteTTL`=2, so a route would outlive its evidence if either clock were ignored. Scene *queue*: limit 1, two operations, two receipts, two hosts, one succession |
| `worker` | A retired instance stays down, acknowledged means down, a start is let through once, only the current generation runs, nothing runs while a capture is held | scene *life*: one instance, two starts, a stop and a retire, two faults. Scene *generations*: two instances of one workload, one retired, two faults. Scene *capture*: two instances, a freeze and a thaw, starts on both, one fault. Two generations and two actors are what each of the races needs |
| `worker_settles` | Every journalled operation gets its receipt | prepare, start, freeze, thaw and retire of one instance, one fault, fair |
| `jobs` | Source and target never overlap, nothing written is lost, the journal is honest, a revived incumbent is not fenced | scene *move*: off the controller's own host, a dependency, two failures, an abort at any moment: a fault before, during and after the irrevocable retire. Scene *moves*: two moves of one workload to two other hosts, one failure: the interleavings in which a wrong succession check would let two targets run need one. Scene *failovers*: two failovers, three failures. Scene *back*: a move and the move back to the host it came from, so that a placement is followed by another and a journal by a later one. Scene *stray*: a move beside an attested failover that posts its fence and never assigns (it is aborted or left), with three failures: the fence stays under the generation of the serving incumbent, and the move could be assigned on it |
| `move_settles` | A move ends; nothing is lost when the source is remote | a move from a remote host to the controller's own, a dependency, one write, two failures, fair |
| `dispatch` | Are receipts honest, claims first, operations in order, reports monotone? Is every operation served? | one operation of the worker and one of a program, two samples, two placements, three faults, fair: a lost answer, a death after it and a late message meet in one behaviour |
| `ingress` | Does a request ever go past its lease, to a backend long withdrawn or back in versions? | two backends, allowance 1, validity 3, clock offsets past the allowance on both sides, one version change, one crash or failed write. The theorems below hold for all values |
| `transfer` | Is what is recorded, offered and booted what was frozen? Do captures and restores finish? | two directories, so that a mixture of two moments exists; a write, a capture, two restores of one instance, two killed requests: a kill, an orphan of it, and a kill of the retry |
| `preparation` | Is what is retained kept, what is prepared all of one version, a replica never written over? Does a repeated prepare end? | two versions of the secrets with one file in common and one each, so that a mixture exists; one reference; two faults (a kill and a kill of the retry, two orphans, a damaged bundle), both escrow files replaced at any moment, fair |

Each property has a mutant in `PROJECT.json`: a plausible bug in one mapped
definition under which the same run finds the property violated.

### 3.2 Findings

Two runs check a statement of the repository that the code does not keep.

* `worker_superseded` — the retire of a stopped instance whose successor is
  already prepared on the same host sets phase `stopping`, which the unique
  index `current_workload` refuses. The operation stays pending, is answered
  `uncertain` for ever, and every other operation on the workload is answered
  `operation-in-progress`. No fault is needed.
* `move_deferred` — `_step_retire_source` skips the local retire when its
  checkpoint reads `deferred`, meaning that the retire was done and its evidence
  is awaited. The dependency gate saves the same word when it stops the step
  before it ran. Every later execute then waits for the evidence of a retire
  that nobody will carry out; the source is down and not retired.

Nine more disagreements were met while modelling and are not kept as runs. The
definitions named are in the modules and do not hold; a reader who puts one into
the run's configuration sees the counterexample.

* `Worker!StoppedIsDown` (`worker.py:1601`) — `_reconcile` settles a `starting`
  row as `stopped` on a drained unit without asking whether its permit is live.
  The guard, past its read, consumes the permit between look and update: the row
  reads `stopped` and the start is receipted as failed while the unit comes up.
  `_resume_start` answers the same situation with `uncertain`.
* `Controller!AbortBeforePublish` (`controller.py:2115`) — abort looks at the
  journal only. When the publish was committed and its answer lost, abort is
  accepted although the routes belong to the successor.
* `Ingress!LeaseNeverExtended` (`ingress.py:63`) — a lease ends at the
  registry's `validUntil` for every clock within the allowance; a clock that led
  by more when a slow answer was accepted and then by less lets requests through
  for as long as the answer took. `LeaseHonoured` says exactly how far.
* `Transfer!CommitReplays` (`restore.py:27-28`) — a commit that is killed after
  it removed the sentinel and before it journaled `committed` leaves an instance
  that may be started at once. After the start, the replay is refused as
  `instance-not-fresh` for ever and the restore stays `staged`. The data is whole.
* `Dispatch!OnlyHeldRun` (`reporter.py:918`) — the reporter means to refuse an
  operation whose generation its host no longer holds, and asks the registry for
  the host's assignments. The answer keeps every generation ever placed there,
  so the refusal never comes; what is left is the check of whoever carries it out.
* `Preparation!CrashReplays` (`worker.py:1120-1121`, "a crash anywhere here
  replays") — a kill inside `write_file`, between `mkstemp` and the rename, leaves
  a `.worker-*` file in the instance directory. `_allocate_state_dirs` accepts
  only the mounts, `secrets` and the marker, so every later prepare is refused as
  `storage-state-conflict` until somebody removes the file.
* `Preparation!NothingElse` — a secrets program that outlived its worker can add
  a file of a replaced version to a directory the next attempt fills or has
  filled. It never takes the place of a file of the new version; it stays beside
  them, and a check of the directory may then refuse the instance.
* `PreparedIsSealed` with `Rollback = TRUE` (`worker.py:1189-1193`) — an attempt
  with a new version wipes the old files before it removes the old marker. If it
  is killed after the first and the operator puts the old version back, the
  marker matches what is left and the partial set is taken for done: "a marker
  matching the local escrow record … means done". It takes a listing that is
  still of the right owner and not empty. With versions that only advance it
  does not happen, which is what the run checks.
* `controller.py:1127` says every word but `stale` and `lost` means a fresh
  observation, but `_observed_state` returns `unknown` with the observation
  attached whenever the wall clock stands before the stamp. After a restart with
  the clock set back the controller can take an observation of the earlier epoch
  as fresh; the registry's own gates do not.

### 3.3 Fairness

Only the runs with a liveness property assume fairness. `worker_settles` and
`worker_superseded`:

* strong fairness of resubmitting a pending operation: the reporter dispatches
  every claimed and unexecuted entry again on every cycle
  (`reporter.py` `_dispatch_cycle`), and a call that was interrupted frees the lock;
* weak fairness of the steps of a call (the process runs), of systemd's jobs
  (`TimeoutStartSec`, and SIGKILL at the end of a stop), and of the permit's
  deadline (time passes). The processes of a killed cgroup eventually leave it;
* faults are finitely many (`MaxFaults`).

Nothing is assumed about new requests, about the instance exiting by itself,
or about strays.

`move_settles` and `move_deferred`:

* strong fairness of executing a job: the module docstring of the controller
  leaves a deferred or blocked job to the operator, who executes it again;
* weak fairness of the steps of a call, of each reporter's work and receipts
  (its cycle), of a report of the placed instance, of a unit that is going
  down, and of the return of a lost dependency;
* faults are finitely many.

No job is assumed to be planned, and none to be aborted. `JobEnds` excuses a job
one of whose operations failed for good, whose target was stopped or started
by somebody else, or that lost its workload to another job.

`dispatch`: the cycle is run again and again (`run`: weak fairness of `Cycle`,
which is always enabled), and an operation that is executed again and again is
some time not uncertain (strong fairness of `Decided`). The last is a claim about
the worker and is what `PendingSettles` of `worker_settles` gives; where that
fails, `worker_superseded` shows what the queue then does.

`transfer`: the caller asks for a capture and its upload, for a stage and for a
commit again until the answer is `completed` (weak fairness of `Retry`,
`StageRequest`), under the same capture or restore id, which makes it the same
request. On the controller's own host the caller is the step of its job, executed
again by the operator. On another host the reporter repeats what it has journaled
and got no answer for, but an answer of `blocked` ends its operation as failed
(`_cli` raises `_Refused`) and the job with it: whoever goes on then is the
operator, with the program and the id of the job. Each worker carries on with
what it began (`RequestStep`, `RestoreStep`), and the commit is strongly fair:
while a stage of the same restore is asked for too, the lock is not always free,
and it refuses rather than queues. Nothing is assumed about the source, thawing
included, about orphans or about the start of the target.

`preparation`: the reporter repeats a prepare or an adopt until its receipt, and
after a refusal the operator asks again (strong fairness of `Begin`, which is
possible only while no call is under way and the bundle is intact); the call
carries on (weak fairness of `ProvisionStep`). Nothing is assumed about fetches,
repairs, orphans or the escrow: `PrepareSettles` asks only for the case that the
bundle stays intact and the two files of the escrow agree in the end, and excuses
what is wedged for one of the reasons above.

## 4. What is proved

Every safety invariant and every action property of every passing run is stated
by a theorem: the runs show it on a small instance, the theorem for all values
of the constants that meet the named assumptions.

`RegistryProofs` (about `Spec` of `Registry`, any workloads, hosts, instances,
requests, operations and bounds; the assumptions are `AgeAssumption`,
`RegistryAssumption`, `NoneAssumption`):

* `TypeCorrect`: `[]TypeOK`.
* `LineageHolds`, `ScopedHolds`, `ReopenableHolds`. None of the three is
  inductive by itself: a new generation is free only because the placement row
  carries the highest one, an operation is scoped only because instance rows
  are never changed, and the start-up check is kept only because every assign
  re-checks what `_check_compat` will ask. The inductive invariant
  `RegistryInv` is their conjunction with `TypeOK`; the proof goes action by
  action, with the tables an action leaves alone handled by lemmas.
* `NeverRevivedHolds`: a stored observation that a reading found not fresh is
  not fresh at any later reading. It needs the invariant `PastInvariant`: a stored
  receipt time never lies ahead of the monotonic clock within an epoch, a stored
  stamp never ahead of the readings, and sessions only move forward.
* `AttributedHolds`: every generation that was succeeded has a receipt that
  accounts for it, and exactly one. The generation of a receipt of an assign
  never runs ahead of the placement (`ReceiptsInRange`), so a new receipt
  cannot speak for a generation that already has one.
* `QueueBoundHolds`: the outstanding operations of a host are a finite set within
  the limit (`Bounded`). Finiteness is part of the induction, since nothing is
  assumed finite about the operation ids.
* `FinalHolds`: what is written is final. An operation's claim and outcome are
  each decided once, because one that is pending has neither (`Unclaimed`). The
  version never goes back, and a step that leaves it alone leaves every table
  alone (`VersionSteps`).
* `RestsOnEvidenceHolds`: at the commit that hands a workload over, the incumbent
  is retired in evidence of this moment or fenced in the very generation that
  ends; at one that publishes, the instance is ready; at both, so is every
  dependency. `SaidNow` spells out what "of this moment" takes (the open session
  of this process, both clocks within the age), independently of the handlers'
  `Fresh`; that `Fresh` implies it needs that a row is never ahead of its session
  (`SessionRows`).
* `WordAgreesHolds`: for a row of the running process the controller's reading of
  the word is what the commit gates decide. It carries `ReadyAgreement` and
  `RetiredAgreement` of `EvidenceProofs` over to the reachable rows; a clock
  that is accepted is never before the stamp of such a row.
* `DependenciesPlacedHolds`: what the revision of a placed instance depends on has
  a placement and was reported at some time. The assign saw the report
  (`Reported`); placements and observations are never removed, and an instance's
  revision never changes (`RegistryInv`).
* `RouteWindowHolds`: an answered route never outlives the evidence of any
  backend it lists. A lease is the least of several ends; that the least exists
  is a lemma over the well-founded order of the naturals.

`EvidenceProofs` (no state; every report, age and set of services):

* `ReadyAgreement`: the controller's reading of the word and the services is
  the commit gate of the registry. `QuietWords`: a word that says nothing runs
  is shown only for a fresh report of a unit down and drained.
  `RetiredAgreement`: what assign accepts as retirement is shown as retired.

`IngressProofs` (any backends, allowance, validity, offsets; `IngressAssumption`
and the finiteness and integrality of `Offsets`):

* `TypeCorrect`, `LeaseHonouredHolds`, `WithdrawnWithinHolds`,
  `NeverBackHolds`. A request is judged by what the edge holds, so the
  invariant `IInv` says what that can be: the lease of an answer or a snapshot
  is bounded by its age and the clocks it was taken under (`AnswerInLease`,
  `SnapshotInLease`), and what is held is at the high-water mark (`AtTheMark`).
  The case with work is `Tick`, where every relative time moves at once.

`TransferProofs` (any directories, captures, destinations, contents and bounds;
`JobsAssumption`, `RestoreAssumption`, `EntryAssumption`, `RepositoryAssumption`).
The capture half:

* `SoundIsFrozenHolds`, `RecordsFrozenHolds`. The repositories by themselves
  say nothing of the source. `CaptureInv` adds why they can be trusted: a
  barrier is given out once per capture, so what a capture froze is settled when
  the barrier is complete (`OneBarrier`); a draft is read under it or the
  barrier is gone (`DraftUnderBarrier`); every sealed manifest, in a request, in
  the hands of an orphan or with a final, is what was frozen
  (`SealedIsFrozen`); a record names a final that is there.

The restore half:

* `NothingDroppedHolds`, `BootsWholeHolds` and `InstallsAtomicallyHolds`, the
  refinement of `Installation`: the initial states map to initial states, and
  each step of `Transfer` maps to a step or a stutter of the promise.
  `InstallInv` is about an instance that may still be started: under a sentinel
  one restore owns it, and from the moment the journal says `staged` each
  directory of its point is in the staging area or in place; without a sentinel
  the instance is untouched, or holds all of the one point the journal has.
  `BootsWhole` (the target starts on what one source froze, or on nothing) is
  proved only, since `InstallsAtomically` and `SoundIsFrozen` are what the run
  checks.

`PreparationProofs` (any references, versions, files and faults;
`DistributionAssumption`, `FetchAssumption`, `ProvisionAssumption`,
`AbsentAssumption`):

* `RetainedIsKeptHolds`. The record alone says nothing of the store: `KeepInv`
  adds that nothing is collected while a root is there and that a fetch about to
  write its record has its root.
* `NeverProvisionedOverHolds`. `Shape` says which steps a call can be in: one for
  an adopted row is at `claim`, `load` or `render`, and while the row is adopted
  no secrets program exists, because a row is adopted only from nothing and a
  program starts only in a call that provisions.
* `PreparedIsSealedHolds`, for versions that only advance (`Rollback = FALSE`).
  The property speaks of the end of a prepare; `SealInv` says how far each step
  of it has come: what the program has written is its version's and is never
  taken back while its call waits (`Stage`); a marker either answers for every
  file or is older than the escrow and can no longer be taken for done
  (`Marked`), which is why a kill between the wipe and its removal does no harm;
  and until the escrow is replaced every program writes the one version there is
  (`First`). A stray program only adds (`Extends`), and what it adds is never a
  name of the version in place.
* `TypeCorrect`: `[]TypeOK`.

`WorkerProofs` (any workloads, instances, operations, captures and faults;
`RequestAssumption`):

* `TypesHold`, `OnlyCurrentRunsHolds`, `OneInstanceRunsHolds`,
  `FrozenIsQuietHolds`, `StartsOnceHolds`, `RetiredStaysDownHolds` and
  `AcknowledgedDownHolds`. The properties are about units, and the worker only
  has rows and looks that grow old while it is between two commits. `WorkerInv`
  says what may still be relied on then. `Lives`: a permit exists only between
  its grant and its use or the end of the start, and a retired row is never in a
  start again. `Ages`: no two rows of a workload are of one generation, and the
  host knows at least the highest. `LookHolds`: a look that found nothing running
  is outdated only by a guard that passes, and then the row tells, so the
  commit that rests on the look would be refused. `StopHolds`: what a stop is
  acknowledged on is still true when its receipt is written. `FreezeHolds`: the
  same for the capture of a freeze. `Counts`: each activation and each permit
  that is out has a start operation of its own, which is why a start resumed
  over and over lets at most one activation through.
* The proof first reduces the decisions of the worker to a few effects on the
  row and the call (`Created`, `Replied`, ...), and shows for each part that
  every effect keeps it; a property of the host's own steps (the guard, systemd,
  the processes) is a case of its own.
* `OneInstanceRuns` (two instances of one workload never have processes at the
  same time) is proved only; it follows from `OnlyCurrentRuns` and `Ages`.

`DispatchProofs` (any operations of either kind, generations, samples and
faults; `OperationAssumption`, `NoneAssumption`):

* `HonestReceiptHolds`, `ClaimedFirstHolds`, `InOrderHolds`, `TypesHold`. One
  lemma says what a step can do to an operation (`Moves`); then each concern has
  an invariant of its own: an entry of the journal and the registry's status
  of its operation match (`JournalOK`), a message under way was sent for a phase
  that is not over or is settled (`LateOK`), the journaled operations are in hand
  and so is everything posted before them (`CycleOK`, `Ordered`), and a verdict
  in the journal or in the registry says what was done (`DoneOK`).
* `NoOlderReportHolds`: the registry's observation never goes back. Within a
  session a later sequence number carries a later sample, also among the messages
  still under way (`ReportsOK`); across sessions the registry takes only the one
  it opened last.

`ControllerProofs` (any jobs, instances, hosts and faults; `JobAssumption`: the
successor of a job is one generation on and belongs to that job alone, because
its id derives from the operation id):

* `TypesHold`, `JournalHonestHolds`, `NoOverlapHolds`, `NothingLostHolds`,
  `RevivedNotFencedHolds`. The proof has one idea: a label that is finished is
  finished for ever. A call finishes the labels of a step in order (`Progress`), a
  step that lies behind a job has finished its last label (`Journal`), and so
  whatever a host or the registry is asked to do was earned by what was done
  before (`Asked`, `Earned`). `Owned` ties requests to the placement row,
  `Receipts` the records of a host to the capture and the instances; `Seated`: the
  row has moved on since a job was planned, or still names its source; `Lone`:
  while only moves have assigned, every instance but the placed one is retired
  and down or was never prepared. A stray fence of a failover lets the registry
  accept such an assign, so what keeps `Lone` is the move alone: it is past its
  own `retire-source` (`MoveAssigns`). `Heard`: a call that has heard of the incumbent all along
  has not passed the point at which it would fence it.
* The lemma `StepMoves` says what one step can do to the hosts, the queue, the
  registry and the call. That finished labels stay finished is proved once, for
  these moves, and every part of the invariant cites it.
* The attempt corrected a property: `JournalHonest` used to demand that a
  published move stays published, which a second move of the same workload
  breaks without anything being wrong. The scene *back* now covers the case.

Nothing else is assumed: each module with an `ASSUME` is extended by the module
of a run, where TLC evaluates it.

Only model-checked: liveness (`PendingSettles`, `JobEnds`, `Served`,
`CaptureSettles`, `Released`, `PrepareSettles`), which is out of the prover's
reach, fairness and ENABLED included. The other way round, the type invariants
of `Registry`, `Controller`, `Ingress`, `Preparation` and `Dispatch`, and
`Scoped`, `DependenciesPlaced`, `BootsWhole` and `OneInstanceRuns`, are proved
and not run; that of `Transfer` is neither, since its theorems rest on the parts
of it they need. The theorems of `Worker`, `Controller` and `Dispatch` are about
each by itself: that the receipts `Controller` and `Dispatch` take from a worker
are those `Worker` gives is an argument of the text, not of a proof.

## 5. What is not modelled yet, and the plan

In this order:

1. **Ownership**: the composition of registry, reporters and workers as a
   refinement of an abstract specification in which a workload has at most one
   running host.
2. **Policy, catalog and recovery** as pure operators against reference
   definitions; **Console** sessions and per-VM actions.

Left out for good: TLS and certificate handling, canonical JSON and digests,
HTML and systemd unit text (formats, covered by unit tests); the restic, age and
nix binaries (external, modelled at most by their outcomes); file descriptors
and permissions in `statefiles.py` (the model takes a save as atomic and
durable, which is what its replace with fsync provides).
