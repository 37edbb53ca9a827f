# TLA+ models of hummingbird-k8s

`hbird` manages a small Kubernetes cluster (one control plane, some workers) whose
nodes are bootc virtual machines on a KVM host. It runs on an operator's
workstation and reaches everything else over SSH. This directory holds TLA+ models
of its protocols, the TLC runs that check them, and TLAPS proofs.

* [Inventory](#inventory): the parts of the system and what makes each one correct
* [Plan](#plan): the modules and how they relate
* one section per module: [RollingUpdate](#rollingupdate), [UpdateLock](#updatelock),
  [KeyRotation](#keyrotation), [EtcdRestore](#etcdrestore), [ImageCache](#imagecache),
  [ClusterVms](#clustervms), and [the commands](#hbirdcommands) that HbirdCommands puts
  together: [ClusterChecks](#clusterchecks), [SwitchToGhcr](#switchtoghcr),
  [KubeconfigExport](#kubeconfigexport), [SshCommand](#sshcommand),
  [NetworkPlan](#networkplan), [ConfigFile](#configfile),
  [CiliumPreflight](#ciliumpreflight)
* [Findings](#findings): where code and documentation disagree
* [Not modelled](#not-modelled)

`PROJECT.json` lists the components, runs, mutants, hazards and theorems, and maps
each definition to the lines it models. Line numbers without a file name are lines
of `rust/crates/hbird-cli/src/commands/update_cluster.rs`.

## Inventory

| Component | State | Operations | Hard behaviour | Correct when |
|---|---|---|---|---|
| `update-cluster`: rolling upgrade | `Plan`, `InFlight`, `Results`; on the cluster: cordon flags, booted and staged images, bootIDs, timers | per node: stop timer, drain, capture bootID, `bootc upgrade --apply`, wait for SSH, apiserver, bootID, Ready, DaemonSets, uncordon, start timer | node state seen through a stale apiserver; rc 255 means both success and failure; Ctrl-C anywhere; reruns after a partial failure | at most one node is disrupted, a passed gate means the node rebooted, nothing stays cordoned unreported, every run ends |
| `update-cluster`: per-user lock | lock file, `flock` helper process group, `FLOCK_CHILD_PID` | spawn helper, probe, settle, release, signal handler | several processes per invocation racing for one lock; signals and crashes | one roll at a time, the lock is released when the run ends |
| `hbird-ssh` | one `ssh` child per call, stdin and output pipes, two reader threads | run, run with stdin, watchdog | watchdog against a late exit; full pipes; a helper process that keeps a pipe open | a call returns the whole answer of a reaped child, within its budget |
| `etcd`: key rotation | `EncryptionConfiguration`, the static pod | prepend key, restart, health check, re-encrypt, drop old keys, verify | health answered by the old apiserver; death between two steps; two operators | every row stays readable, old keys are retired |
| `etcd`: backup, restore | static-pod manifests, `/var/lib/etcd`, snapshot files | save, fetch; push, restore script, rollback, verify | the remote script outlives its connection; the rollback races it | no data directory is lost, a restore that succeeds serves its snapshot, a failed one leaves a control plane that starts |
| `deploy-cluster`: images (`cache.rs`) | podman store, disk templates with sidecars, bib's output directory | pull or make, assess, build, move, write sidecar | template and sidecar written separately; sources mixed | a deploy boots the image it pulled or made |
| `deploy-cluster`: network plan | MACs, addresses, DHCP reservations of the libvirt network | resolve, validate, reserve | leftovers of earlier deploys, case of a MAC, ends of a subnet | accepted plans have distinct NICs and addresses, refused ones do not |
| `deploy-cluster`, `spawn-workers`, `destroy-cluster`, `clean-vms`: VMs | libvirt domains, disks, seeds, reservations | guard, clone, seed, install, wait, join; destroy, undefine, remove, sweep | each call fails with or without effect; any sequence of cut-off commands | nothing installed is overwritten, leftovers never block, exit 0 means done |
| `switch-to-ghcr` | booted and staged image per VM | list, read, switch, re-read, reboot | partial failure, VMs that come and go | every VM listed is switched or counted as failed |
| `verify`, `kube-bench` | probe pod, namespace, Jobs in the cluster | apply, wait, read, delete | lost answers, kills, leftovers of earlier runs | PASS is true, nothing is left behind, a report is of this run |
| `get-kubeconfig`, `export-argocd` | OUTPUT, its backups, a temporary file | check, fetch, rewrite, back up, rename | other writers between check and rename; kills | OUTPUT is a usable kubeconfig, no file is lost |
| `preflight` | two version pins, the support matrix | resolve, classify, hint, exit | numbers compared as text, ends of the window | the exit status and the hint are right |
| `hbird-config` | `cluster.local.conf` | tokenize, build the config | a second reader: the shell of the nightly scripts | both readers see the same nodes |
| `hbird-virt` | none of its own | virsh calls, output parsing | transport and virsh failures told apart | (seen through ClusterVms and NetworkPlan) |
| staged-update pipeline (`bootc-semver-update.sh`, `hbird-staged-check.sh`, `hbird-rolling-apply.sh`, `health-check-rollback.sh`) | staged deployment, rollback marker, cordon flag, bootIDs | stage, check, apply node by node, roll back | marker consumed before the verdict, second reboot during the wait | one node at a time, an unhealthy deployment is rolled back once |
| node first boot (`k8s-init.sh`, `worker-init.sh`) | marker files, kubeadm state | init or join, once | crash before the marker is written | a repeated run converges |
| `nodes`, `kubectl`, image build | none | queries, recipes | none | (not modelled) |

How the parts interact: `update-cluster` resolves addresses through `hbird-virt`,
runs every command through `hbird-ssh`, and takes the lock before its first side
effect. On the nodes it meets the staged-update pipeline: the auto-update timer
stages images and is stopped while a node is in flight. The kubelets and the
apiserver are the only channel through which it sees that a node has rebooted.
`deploy-cluster` runs the network plan, the image cache and the boot of the VMs one
after the other; the first two hand over a validated plan and two disk templates and
nothing else, which is why they are modules of their own. All commands that work on a
KVM host share its domains, pool and reservations (ClusterVms). Every remote call of
every command is an `hbird-ssh` call (SshCommand), whose answers the other modules
take as: success, a non-zero exit, or an error with or without the effect.

The hazards that follow from this are listed in `PROJECT.json`, each with its line
and the properties aimed at it.

## Plan

| Module | Models | Composes or refines | Proved |
|---|---|---|---|
| RollingUpdate | `update-cluster`: the roll | | RollingUpdateProofs |
| UpdateLock | `update-cluster`: the lock, why RollingUpdate may consider one run at a time | refines ExclusiveSection | UpdateLockProofs |
| KeyRotation | `etcd rotate-key` | | KeyRotationProofs |
| EtcdRestore | `etcd backup`, `etcd restore` | | EtcdRestoreProofs |
| ImageCache | `deploy-cluster`: images | | ImageCacheProofs |
| ClusterVms | `deploy-cluster`: VMs, `spawn-workers`, `destroy-cluster`, `clean-vms` | the four commands on one host | ClusterVmsProofs |
| HbirdCommands | the dispatch of `main.rs` | ClusterChecks, SwitchToGhcr, KubeconfigExport, SshCommand, NetworkPlan, ConfigFile, CiliumPreflight | ClusterChecksProofs, HbirdCommandsProofs |

The modules `MC...` give TLC what a configuration cannot say.

Every invariant and every action property of a passing run is also a theorem, as is
the refinement of ExclusiveSection; each proof section says from which assumptions and
along which argument. Some theorems have a hypothesis on a constant (`PromptReload`,
`Exclusive`, a fault kind that does not occur). Each such hypothesis is one the run has
as well, names something the code relies on and does not ensure, and is listed with what
happens without it. Beyond types and bounds, the proofs assume of the constants:

* `SomeVmAssumption` (SwitchToGhcr), `SomeContextAssumption` (KubeconfigExport) and
  `ImagesAssumption` (ImageCache): sets that the model chooses from are not empty.
* `NoneAssumption` (ImageCache), `DirsAssumption` (EtcdRestore), `NamesAssumption`: the
  values that stand for "nothing" are none of the things.
* `PowersAssumption` (NetworkPlan): `2^p * 2^(AddrBits - p) = 2^AddrBits`. It is a fact
  of arithmetic, true of every width, that the backends do not know: they have no axioms
  for `^`. It cannot be derived without induction. TLC evaluates it for the run's width.

Only model-checked are the five liveness properties, `RunTerminates`, `RollCompletes`,
`LockReleased`, `ControlPlaneReturns` and `SshCallReturns` (fairness and ENABLED are beyond the
prover), and the properties of the runs that expect a violation.

## RollingUpdate

### Model

Node 0 is the control plane and `1..NumWorkers` are `WORKER_NAMES` in order. The
variables come in five groups.

* *Nodes* (environment): `up`, `boot` (the bootID as a number), `image`, `staged`,
  `pending` (a remote bootc at work, or a reboot queued), `timer`.
* *Apiserver* (environment): `api`, and what the node objects say: `seenBoot`,
  `ready`, `cordoned`. `seenBoot` and `ready` change only when a kubelet posts or
  the node monitor gives up on it, so they may lag behind the nodes.
* *The process*: `pc` is the next call it makes; `args` its flags; `todo`, `cur`,
  `succeeded`, `failed` the walk and the `Results` record.
* *The attempt in flight*: `pre` (`pre_bootid`), `preDigest`, and the `InFlight`
  flags `drained`, `uncordoned`.
* *History*, read only by properties: `hinted`, `left`, `blind`, `boot0`.

One action models one remote call with every outcome the code tells apart, because
the node and the apiserver move between two calls. `bootc_upgrade_apply_with_exec`
is therefore six actions (`UpgradeProbe`, `ApplyStart`, `ApplyReturns`,
`FallbackStage`, `FallbackReboot`, `PostDigest`). A bounded wait is an action with
two outcomes: the condition holds, or (fault kind `timeout`) the budget is used up.
The sleeps and the elapsed counters are abstracted to that choice. `Fail` is what
leaving `update_worker` with an error does: `InFlight::drop`, then
`run_one_worker`'s two branches. `Signal` ends the process without any destructor,
as `emulate_default_handler` does. `--parallel` does not appear, since the code
runs a batch serially (2489-2497).

`Faults` selects the fault kinds of a run: failing or lost SSH and kubectl calls,
a drain that fails after its cordon, an empty digest, a failing bootc or
`systemctl reboot` (`upgrade`), timeouts,
a wedged kubectl call, signals. A lost answer is modelled wherever the remote
effect matters: `ApplyReturns` (bootc dies or goes on), `FallbackStage`,
`FallbackReboot`, `Drain`, `Uncordon`, `AlreadyCurrent`.

### Properties and runs

| Run | Instance | Checks |
|---|---|---|
| `roll_safety` | CP with and one worker without `--apply`, every flag and every rejected flag combination, two runs in sequence, every fault (3.2 million states) | `TypeOK`, `NoSilentDisruption`, `GatedMeansRebooted`, `SummaryIsComplete` |
| `roll_errors` | CP alone, or two workers (one without `--apply`) with and without `--continue-on-error`; every error a call can return, fair (500 000 states) | `HintForEveryCordonedNode`, `RunTerminates` |
| `roll_completes` | CP and two workers, no fault, fair | `RollCompletes` |
| `hint_signal` | one worker, signals | violation, see [Findings](#findings) |

* `NoSilentDisruption`: every node other than the one in flight is up, schedulable
  and has no reboot coming, unless its attempt failed (`left`) or it went through
  without usable reboot evidence (`blind`: `--skip-gates`, an empty baseline, or on
  the two-step fallback a baseline older than the boot the reboot was asked of, or
  a digest compare that ran before the reboot).
* `GatedMeansRebooted`: after the bootID gate the node runs the new image in a
  later boot than the baseline. This holds although `pre` comes from a possibly
  stale node object, rc 255 is ambiguous and a remote bootc may outlive its `ssh`.
* `SummaryIsComplete`: a run that prints its summary names each target once, and a
  target still cordoned is in the failed list or was left by an earlier run. The
  latter needs two runs: an aborted drain and then `--skip-drain`.
* `HintForEveryCordonedNode`, `RunTerminates`, `RollCompletes`: the recovery hint,
  termination, and the fault-free outcome.

*Bounds.* `MaxRuns` = 2 is enough for a rerun to start in every state an aborted
run leaves behind, including a remote bootc still at work and a kubelet that has
not posted. One worker suffices for the per-node properties because the process
holds no state about a node once it has moved on; two workers are used where the
order matters. The proofs below remove both bounds for the safety properties.
`boot` is unbounded in the specification and finite in each run, because reboots
are asked for by runs.

*Fairness.* `WF(Updater)`: the process is scheduled and each wait in it is bounded.
`WF(NodeStep(n))`: a machine told to reboot goes down and boots, bootc finishes,
the kubelet posts its status periodically. `WF(ApiserverStarts)`: the kubelet
restarts the static pod. Nothing is assumed of signals, the staging timer, the node
monitor or the operator. `roll_errors` leaves out the fault
kind `hang`: `cp_ssh_opts` (2650) sets no watchdog, so a kubectl call that wedges
after authentication stalls the run, and `RunTerminates` does not hold with it. It
also leaves out `drain`, for which the hint is missing: a drain that times out has
already cordoned, but `mark_drained` (2382) is not reached.

*Deadlock* is not checked: a finished run with no launch left is the normal end.

### Proofs (`RollingUpdateProofs`)

For every number of workers, set of nodes with `--apply`, set of command lines,
number of runs and set of faults (`NumWorkersAssumption`, `HasApplyAssumption`,
`LaunchesAssumption`, `FaultsAssumption`, `MaxRunsAssumption`):

| Theorem | States | Inductive invariant |
|---|---|---|
| `TypeCorrect` | `Spec => []TypeOK` | `TypeInv`: types, and `cur` is a node exactly while an attempt is in progress |
| `GateCorrect` | `Spec => []GatedMeansRebooted` | `GateInv` adds `NodeInv` and `BaselineInv` |
| `NoSilentDisruptionHolds` | `Spec => []NoSilentDisruption` | `DisruptionInv` adds `ApplyInv`, `AskedInv`, `PassedInv`, `CordonInv`, `QuietInv` |
| `SummaryCorrect` | `Spec => []SummaryIsComplete` | `PlanInv` on top of `CordonInv` |
| `HintsArePrinted` | `Spec => [](runs <= 1 => HintForEveryCordonedNode)`, without `signal` and `drain` | `HintInv` on top of `PlanInv` |

*The gate.* `GatedMeansRebooted` is not inductive: that the apiserver shows a
bootID other than `pre` says something about the node only because `seenBoot` never
runs ahead of `boot` and `pre` was once a `seenBoot` (`NodeInv`, `BaselineInv`). A
changed bootID is then a later boot, and a boot that happened after the attempt's
baseline brought up the new image, because every queued reboot has a staged
deployment behind it or a node that is current.

*Disruption.* A node the roll has left is quiet for good unless somebody acts on
it, so the work is to show that it is quiet when the roll leaves it. `ApplyInv` and
`AskedInv` follow the request for a reboot through the upgrade calls: which of
`none`, `upgrade`, `reboot` can be pending in which `pc`. `PassedInv` says that
after the gate the asked-for reboot has happened and nothing is pending.
`CordonInv` accounts for the cordon flag; `QuietInv` is the property restated for
the nodes that are not in flight.

*The layout.* The lemmas `NodesWriters` ... `HistoryWriters` say which actions write
which group of variables, so that each invariant's step lemma has one case per
action that can disturb it. `AttemptFrame`, `ControlFlow` and `Monotone` are the
facts about the control flow and the node life cycle used by all of them.

*The hint.* `HintsArePrinted` is about the first run on a cluster without cordoned
nodes (`runs <= 1`), for every command line, and excludes the fault kinds `signal` and
`drain`: a signal runs no destructor, and a drain that fails after its cordon is not
marked. A later run is excluded for a reason too: on a node that an earlier one left
cordoned, an attempt that fails before its own drain succeeds prints nothing. `HintInv`
has what the property lacks. A node the walk has not reached is not cordoned, a cordoned
node in flight was drained by this very attempt and not yet uncordoned, so that
`InFlight::drop` will print, and an attempt cannot succeed with its node cordoned. That
the walk never comes back to a node is `PlanInv`.

*Only model-checked:* the two liveness properties.

## UpdateLock

### Model

The lock is held by a helper, `flock -n PATH -c <shell loop>`, whose shell inherits
the locked file description. For each invocation `pc` is its main thread, `child`
the helper and `probe` the second `flock` that `acquire_lock` runs to confirm the
first. `child` distinguishes a helper that has not reached flock(2) (`starting`)
from one that has the lock, one that was refused, and one whose shell has been told
to exit but still has the descriptor open (`dying`). Killing `flock` alone
(`Child::kill`, in `Bail`) does not release the lock; killing the group does.

`PromptFlock` is the assumption behind the 2 s settle window: a spawned helper has
tried the lock by then. The code cannot guarantee it, so it is a constant and the
configuration `MCUpdateLock_slow.cfg` drops it. The choice of the lock directory (`lock_dir`) is left out.

### Properties and runs

| Run | Instance | Checks |
|---|---|---|
| `lock` | three invocations, signals, crashes, failing probe, fair (45 000 states) | `IndInv`, `MutualExclusion`, `ImplementsSection`, `LockReleased` |

`IndInv` includes `LockHeldWhileRunning` (an invocation in its roll has a helper with
the lock) and `EndedReleases` (one that has ended has none, unless it crashed or
bailed).

Three invocations allow a holder, a contender and an orphaned helper at once.
`MutualExclusion` does not count an invocation whose signal handler has begun: the
handler kills the group first and ends the process afterwards, and for that moment
its main thread still runs. *Fairness*: `WF(Progress(r))`, the scheduling of the
processes on the host, and that a rolling update ends (`RunTerminates`).

### Proofs (`UpdateLockProofs`)

Under `PromptFlock`, for every set of invocations and faults:
`IndInvariant` (`IndInv` is inductive), `Exclusive` (`MutualExclusion`) and
`Refinement` (UpdateLock implements ExclusiveSection with `section` mapped to the
invocations in their rolling update). The invariant's core is that no two helpers
have the lock (flock(2)) and that a helper found alive after the settle window is
not `starting` and so has it. `LockReleased` is liveness and stays with TLC.

## KeyRotation

Line numbers in this section are lines of `rust/crates/hbird-cli/src/commands/etcd.rs`.

### Model

`run_rotate_key` (1421) installs a config with a fresh primary key in front of the
old ones, restarts the apiserver, rewrites all Secrets and ConfigMaps, installs a
config with the new key alone, restarts again and verifies.

* *Control plane* (environment): `file` and `upload` are the config and its staging
  file, `touched` and `serving` the static pod, `loaded` the config the apiserver
  read when it last started, `rows` the key each row is encrypted with. A row may
  also be `Plain`, which the trailing `identity` provider reads.
* *Each rotation*: `pc` is its next remote effect, `stage` the config it is about to
  install or has installed (1 dual, 3 single), `before` the config it fetched, `todo`
  the rows that `kubectl replace` has still to rewrite.

A config is its primary key and its set of keys: `insert_primary_key` prepends,
`drop_non_primary_keys` keeps the first, and the order of the other keys decides
nothing (a row names its key). A rotation's key carries the rotation's name, for
`rotation_key_name` is a time stamp and the secret is random. The install script is
two actions, `Install` and `Touch`, because the apiserver may restart in between by
itself. The two `get | replace` pipelines are one, with the rows rewritten one at a
time in any order. `Abort` is the end of a rotation at any call: a declined prompt, a
failed health check, a failed or interrupted call, an answer that is lost after the
effect, a `replace` that meets a conflict. It undoes nothing, as in the code. The
apiserver may stop and start at any time, and clients write whenever it serves.

Two constants stand for what the code relies on and does not ensure:

* `PromptReload`: when /healthz is asked, 30 s after the touch (1453), the apiserver
  has restarted. This is what the comment at 1307 expects of a touched manifest.
  Without it any apiserver may answer.
* `Exclusive`: rotations do not overlap; the remote script of an interrupted one is
  over before the next one fetches. No lock is taken.

### Properties and runs

| Run | Instance | Checks |
|---|---|---|
| `rotate` | three rotations in sequence, two rows, `PromptReload` (120 000 states) | `IndInv`, `RowsReadable`, `OldKeyRetired` |
| `rotate_slow` | one rotation, two rows, without `PromptReload` | violation, see [Findings](#findings) |

* `RowsReadable`: both the config the apiserver runs with and the one it will read
  when it next starts decrypt every row, at every moment, wherever rotations were cut
  off. This is the claim of `docs/etcd-encryption.md` that a partial run is
  recoverable by running the command again.
* `OldKeyRetired`: from the end of a completed rotation until the next one installs
  its key, the file, the apiserver and every row know the new key alone.

*Bounds.* With three rotations a completed one can follow two that were cut off in
different stages, so that the file, the apiserver and the rows have three different
keys at the start. Two rows let one be rewritten and the other not. The proofs remove
both bounds. Deadlock is checked: the apiserver never stops for good.

### Proofs (`KeyRotationProofs`)

Under `PromptReload` and `Exclusive`, for any sets of rotations and rows:
`IndInvariant` (`IndInv` is inductive), `AlwaysReadable` (`RowsReadable`) and
`Retires` (`OldKeyRetired`). `RowsReadable` is not inductive: the apiserver may still
write with its primary key, so that key has to be in both configs as well
(`PrimariesListed`), and `Install` of the single-key config is safe only because by
then every row has the new key and the apiserver writes no other. `StageInv` carries
that fact from the health check (the apiserver has loaded the dual config), through
the rewriting (a row no longer in `todo` has the new key, and a client's write cannot
change that) to Stage 3. `OneActive` keeps the file that a rotation fetched the one it
replaces. One lemma per action; `OthersRest` and `ConfigsStay` serve them all.

## EtcdRestore

Line numbers are lines of `commands/etcd.rs`.

### Model

* *Control plane* (environment): `live` (the manifests are in place, not in
  `manifests.disabled`), `kubelet`, `dir` (`/var/lib/etcd`), `kept` (the directories
  moved aside), `open` (the directory the running etcd uses), `tmp` (the pushed file).
* *The remote script* (1040-1066): `script` is its next command (`Aside`, `Sleep`,
  `StopKubelet`, `MoveData`, `RestoreData`, `Back`, `StartKubelet`). It is a process of
  its own: when the connection is lost or hbird dies, it goes on.
* *The command*: `pc` is its next call; a backup is save, fetch, remove, write; a restore
  is preflight, push, apply, verify, or rollback when apply failed. `file` holds the
  snapshot files, which are written in place and may be left half written.
* *History*: `opened`, `rolled`, `upFirst`.

A data directory is a number and an origin (the cluster's own, a snapshot, or an empty
one the kubelet made for the pod). `PromptStop` stands for what the script's `sleep 10`
(1054) expects: the static pods are gone by then. `RepairByHand` is the operator
doing what the error messages say. A new command starts when the script of the
last one is over.

### Properties and run

`restore`: two snapshots, three new directories, failing calls, failing script
commands of both scripts, lost connections, crashes (2.8 million states).

* `NothingLost`: no directory an etcd ever ran on disappears, wherever backups, restores
  and rollbacks are cut off.
* `RestoreServesSnapshot`: a restore that succeeds has etcd on the snapshot the operator
  named, whatever earlier ones left. Without `PromptStop` it does not hold: the old etcd
  still runs when its directory is moved.
* `ControlPlaneReturns` (liveness): after a rollback that ran when the script was over,
  and whose two commands worked (`rolled`), etcd comes up again. The rollback script
  exits 0 whichever of them fails (1069-1076), so hbird itself cannot tell.
  *Fairness*: the script, the kubelet's stop and start of static pods, and hbird's own
  calls run on; nothing is assumed of operators.

*Bounds.* Three directories allow a restore that fails after the move, a second one on
what it left, and an empty directory in between; the invariants do not depend on the
bound, and `ControlPlaneReturns` excepts a behaviour that has used it up.

### Proofs (`EtcdRestoreProofs`)

For any set of snapshots, any bound on directories and any faults:

* `TypeCorrect` and `NoDirectoryLost` (`NothingLost`), the latter inductive by itself
  given the types: a directory leaves `/var/lib/etcd` only for the kept ones, and a new
  one is made only where there is none. No hypothesis on timing is needed, so this also
  holds when the old etcd is still running during the move.
* `RestoreServes` (`RestoreServesSnapshot`, an action property), under `PromptStop`. The
  invariant follows the remote script: `ScriptHasCaller` and `BeforeScript` say that
  nobody but the restore that waits for it starts one and that nothing touches the
  manifests or kubelet before it runs; `AtStep` says what each of its commands finds
  (manifests aside, no etcd, no directory, then the snapshot's); `Served` holds from the
  end of the script to the verification. It is stated only while hbird waits for the
  script (`pc = "apply"`), because after a lost connection the rollback runs against
  it and none of this holds.

`ControlPlaneReturns` is liveness and stays with TLC.

## ImageCache

### Model

The state that deploys share: `store` (podman), `staging` (bib's `qcow2/disk.qcow2`),
`template` and `sidecar` per flavor; `origin` is what a registry or the checkout has now
(`Publish` moves it on). A deploy walks through `Pull`, `AssessImage` (the comparison of
a pulled image with the checkout), and per flavor `Expect` (`compute_expected_build_id`),
`CacheCheck` (`assess_qcow2_cache`), `Bib`, `Move`, `ClearStaging`, `WriteSidecar`; `Abort`
cuts it off anywhere. An image is a record: its source, its `rev`, which is all that a
build id sees of it (the commit in the label, or the Containerfile; the hash is taken to
be injective), and the `rest`: base image, copied files, and the pubkey config bib is
given. `Publish` may change either, so two images may have one build id. The operator's
own inputs change between deploys, and under one only with the fault kind `edit`.
`CleanVms` removes the templates, as `clean-vms` does. The podman store is forgotten when
no deploy runs (`StoreAfter`): each deploy pulls or makes both images before it reads it.

### Properties and runs

| Run | Instance | Checks |
|---|---|---|
| `cache` | one operator again and again, two images of ghcr with different labels and two of the checkout with one Containerfile, failing inspections and sidecar writes, aborts | `TypeOK`, `SidecarIsTrue`, `TemplateIsFresh` |
| `strict` | the same without faults | `StrictFailsClosed`, violated |

* `SidecarIsTrue`: a sidecar is the id of the image its template was built from, unless
  the build that replaced the template did not get to write its sidecar (`unsealed`). It
  rests on the order move, then sidecar, and on a failed build leaving both alone.
* `TemplateIsFresh` (action property): a template that a deploy has built is of its flavor
  and of the very image it pulled or made. A template that it reuses is of its flavor, its
  source and its commit or Containerfile, but for three reuses: a sidecar of another
  source, one older than a cut-off build, and, without `STRICT_CACHE`, an unverifiable
  one. It need not be of the very image, as the id does not see the `rest` (see Findings).

Two images per source are enough for old and new, the two sources for a cross-source sidecar.
Deadlock is checked: an operator can always start again.

### Proofs (`ImageCacheProofs`)

Under `Exclusive` (deploys into one pool do not overlap) and without the fault kind
`edit` (an input of the local images edited while a deploy builds from it), for any set
of deploys, sources and images: `TypeCorrect`, `SidecarsTrue` (`SidecarIsTrue`) and
`TemplatesFresh` (`TemplateIsFresh`). `Progress(d)` says what deploy `d` has at each call:
the images of both flavors after the pulls, an `expected_id` of the very image it has
(or none), its own disk in bib's output directory before the move and in the template
after it. This is where `Exclusive` enters, since the directory is shared. `OneRuns` and
`TemplatesNamed` complete the invariant. Type correctness itself needs it: that a
template is never half written is a matter of who wrote the output directory last.

## ClusterVms

### Model

One KVM host: per VM `domain`, `disk` (none, a clone of the template, the VM's own),
`seed`, `joins` (the cluster whose join command it carries), `member` (the cluster it
made or joined), `resv`. Clusters are told apart by a number, reused when nothing refers
to it any more. `cmd`, `pc`, `vm`, `todo`, `token` are the command at hand. Every call of
hbird-virt is one action with its outcomes: done; failed without effect (`call`); for
the calls that create something, done but answered by an error (`lost`); a poll that
runs out (`slow`). The removals of `clean-vms`' sweep fail file by file. With `discover`,
guestfish does not find the deployment's directory, `inject_join_env` writes the join
command to the physical root instead and reports success (`Misplaced`). The final checks of
a deploy are fatal with `STRICT_CACHE`. `Crash` ends a command anywhere. The VMs
themselves (`CpInit`, `WorkerJoins`) and the rebuild of spawn-workers' template are environment.

| Command | Actions, in order |
|---|---|
| `deploy-cluster` | seed of the CP, guard, clone, reservation, virt-install, wait for CP, token, and per worker guard to virt-install again, wait for all nodes |
| `spawn-workers` | CP address, template check, per worker guard, clone, mint, inject (undo of the clone on failure), virt-install, and the optional switch |
| `destroy-cluster` | per VM probe, destroy, undefine, reservation, disk, seed; warnings counted |
| `clean-vms` | list, per domain destroy and undefine with storage, sweep of leftover files, pool refresh |

The order of the workers within one command is open (`todo` is a set), which covers
every order of `WORKER_NAMES`.

### Properties and run

`vms`: CP, one configured and one spawned worker, one of the names without the
`hummingbird-` prefix, two clusters (4.5 million states).

* `InstalledDiskKept`: deploy and spawn never touch the disk or the join command of a
  VM that is defined.
* `NoWorkerWithoutJoin`: no worker is installed without a join command, whatever failed;
  only a failed discovery leaves one that the worker does not see.
* `DeployDelivers`: a deploy that succeeds has all its VMs in the cluster of its CP, not
  in an older one.
* `LeftoversNeverBlock`: a deploy without a fault fails only if a VM of its plan was
  defined at the start.
* `DestroyIsComplete`: exit 0 means no domain, disk or seed of the plan is left, nor a
  reservation of a VM that was found.
* `OthersUntouched`: no command touches a VM outside its plan.

*Bounds.* One VM of each kind, since the loops treat VMs independently; two clusters
let a token or a disk be of another one than the CP. The run leaves out the fault
kinds `dump` and `misread` (see [Findings](#findings)) and has `WorkersSet` and `Pinned`.
Deadlock is checked: a command can always be started.

### Proofs (`ClusterVmsProofs`)

For any sets of workers, spawned and other VMs, any number of clusters and both values
of `WorkersSet` and `Pinned`:

| Theorem | Property | Hypothesis on `Faults` | Invariant on top of `Base` |
|---|---|---|---|
| `TypeCorrect` | `TypeOK` | | |
| `CommandsStayInScope` | `OthersUntouched` | | |
| `DeploySucceeds` | `DeployDelivers` | | `Polled` |
| `DeployNotBlocked` | `LeftoversNeverBlock` | | `Unbooted` |
| `DisksSurvive` | `InstalledDiskKept` | no `misread` | `Cleared` |
| `WorkersCanJoin` | `NoWorkerWithoutJoin` | no `misread` | `Cleared`, `Tokens` |
| `DestroyLeavesNothing` | `DestroyIsComplete` | no `misread`, no `dump` | `Destroyed` |

`Base` places every command: its labels (`Routed`), the VM at hand and the ones to come
within its plan (`Placed`), and for `clean-vms` that what it has listed is defined
(`Listed`). `Cleared` says that the guard's answer is still true at each call behind it,
`Tokens` that a join command in hand is of a cluster that exists (and that one on a disk is
misplaced only with `discover`), `Polled` that a node
once seen in the cluster stays there while the others are polled, `Unbooted` that a
deploy defines no VM before its turn, and `Destroyed` what a destroy that has not warned
has removed of the VM at hand and of those it has passed. The hypotheses are the two
faults under which the code takes a failed query for "there is none"
(see [Findings](#findings)); that the first four theorems need neither was not evident
from the run, which excludes both.

## HbirdCommands

`main.rs` runs one command per process. HbirdCommands places the commands below side by
side; `cmd` is fixed at the start, so that the state space is their sum and not their
product. They share nothing but the dispatch: what holds of the
whole is what holds of each. The run `commands` (2.9 million states) checks all of them;
`CHECK_DEADLOCK` is off because a process that is over stays over. The fairness of `SshCommand` is the only
one stated.

The proofs are in HbirdCommandsProofs, and for ClusterChecks in ClusterChecksProofs. Each
component has an inductive invariant of its own; the lemmas `Starts` and `Steps` say that
an initial state of the binary is one of each component and that each of its steps is a
step of a component or leaves its variables alone, and carry the results over.
`CommandsTypeCorrect` puts the types of all of them together.

### ClusterChecks

`verify` and `kube-bench` (`verify.rs`, `kube_bench.rs`, `cp_kubectl.rs`). The cluster is
what really holds (`real`) and what the checks put into it: the probe pod, the smoke-test
namespaces, the Jobs, each with the run that made it. A call (`Outcome`) reaches
the cluster or not, its connection is cut or not, what it wrote was heard or not, and it
ends in an exit status or in an error of hbird-ssh (a timeout, a wait or a write that
fails). A cut connection is mostly the exit status 255 of `ssh`, which is an answer to the
lenient helpers (`Lenient`) and an error only to the strict ones (`Raw`). `Logs` accepts
what was heard whatever the exit status, as `kube_bench.rs` 515-521 do. An apply whose
connection was cut is taken to reach the cluster before the delete that follows it. Two
commands in sequence, each killed anywhere.

* `PassIsTrue`: PASS is never said of a cluster that is not so. In warn mode the answer
  carries the marker though the pod is admitted, and the check must not take that for a
  rejection. It does so in one case, which the property names: the connection was cut
  after the warning (`cutOff`, see [Findings](#findings)).
* `NothingLeftBehind`: pod, namespace and Jobs are gone at the end, also after a lost
  connection, unless a best-effort delete failed, hbird was killed, or the probe's apply
  ended in an error of hbird-ssh itself, which skips the delete.
* `ReportIsFresh`: the kube-bench report is of this run's Jobs, not of leftovers.

*Proofs* (`ClusterChecksProofs`, for any set of targets, number of runs and faults):
`PassesAreTrue`, `NoLeftovers`, `ReportsFresh`, `ChecksTypeCorrect`. `Routed` ties each
call to its subcommand; `Seen` records which facts about the cluster the calls before
the one at hand have established; `Numbered` says that what an earlier run left bears an
earlier number; `Guarded` that a pod, namespace or Job of this run exists only between
the call that makes it and the one that deletes it; `Reported` that a target already
done was reported from a Job of this run.

### SwitchToGhcr

Each VM has a booted and a staged image. The command takes its plan from flag, config
and environment, lists the running VMs and for each waits for a lease and ssh, reads the
booted image, switches, re-reads and reboots. `WalkCovers`: in all-VMs mode each VM
listed has the image of its own flavor booted or staged, or is counted as failed, and
exit 0 means none is.

*Proof*: `SwitchCoversAll`, for any sets of VMs of each kind and any tags. `Walked` says
of every VM listed that it is still to come, at hand, counted as failed, skipped as
"already tracking" with another image staged (`swStale`, see [Findings](#findings)), or
on its own image (staged, or booted with nothing else staged, which a reboot does not
change); `SwitchShape` has the plan and the VM at hand.

### KubeconfigExport

OUTPUT is absent, a file of somebody, or a symlink, to a file or to nothing. The
kubeconfig is a sequence of the lines that matter (names, references, server). What the
control plane answers (`fetched`) is its `admin.conf`, the part of one that kubeadm is just
writing (`HalfConf`), or something else; what passes the sanity check is rewritten line by
line. Another program may write OUTPUT at any time. `OutputIsUsable`: what hbird put there
is the whole rewrite of a document that passed the check, never a piece of it, and every
reference in it resolves when that was a whole `admin.conf`. `OldFileKept` (action
property): the rename overwrites nothing that has no backup, but for a dangling symlink
and for what another program wrote after the command last looked.

*Proofs*: `ExportIsUsable` and `BackupsFirst`. `Whole` says that what is being written,
what hbird renames to OUTPUT, and so what is there under its name, is a whole rewrite of a
document that passed the check. `ChecksOut` says which answers pass, `StillLooks` that
their rewrites still look like a kubeconfig. The lemma `RewrittenLines`
computes what the rewriting makes of each line of kubeadm's `admin.conf`, and
`RewriteResolves` that the references in the result resolve for every context name and
server, also when the context is named like one of kubeadm's own entries.
`BackupInTime` says that from the backup on, unless another program has written there
since, OUTPUT is absent, a dangling symlink, or backed up.

### SshCommand

One call of `run_inner_impl`: the identity check, the spawn, the stdin write, the two
reader threads as one (`Drain`), `wait_with_timeout`, the kill and the joins, against a
child that reads, writes, exits or hangs, and a helper process (a `ProxyCommand`, for
instance) that holds the output pipe. Pipes hold `PipeSize` chunks.

* `AnswerIsWhole`: an answer carries everything the child wrote and its exit status, and
  no child is left running or unreaped, unless the operating system refuses the wait:
  `Error::Wait` (`WaitFails`, 420-424) returns at once and leaves the child as it is.
* `SshCallReturns` (liveness): every call returns, but for the two cases outside the
  budget that `CallReturns` names. *Fairness*: the process and its threads run, time
  passes, a child that is not stuck goes on, a helper without its `ssh` ends. `WaitFails` is
  not fair.

One chunk per pipe and two to say are enough for a full pipe on both sides.

*Proof*: `AnswersAreWhole`, for any pipe size and any length of input and output.
`ChildAt` ties the state of the call to that of the child (spawned, killed, reaped) and
says that an answer is given only when the child has nothing left to write and the pipe
is empty; `Conserved`, that no chunk
is lost or made up between child, pipe and reader, gives the bounds in the types.

### NetworkPlan

What deploy checks before it touches the host, one check per step; a knob gets any
value when it is first read. `PlanIsSound`: the checks accept exactly the plans in which
every NIC has a MAC of its own, in whatever case it is written, and no address of the
second network is used twice or inside the pod and service ranges that the config sets
(stated over the enumerated ranges, against the mask arithmetic of `ip_in_cidr`); and a
deploy without a warning has an entry for every VM with an address, the one it asked for
unless the MAC already had one. Two things an operator might expect are not promised, since
the code does not check them: that addresses avoid the image's default ranges when a knob
is unset, and that an entry found under a MAC gives the address asked for (see
[Findings](#findings)). Addresses have 2 bits instead of 32: every prefix length and both
ends of a range occur.

*Proof*: `PlansAreSound`, for any number of workers and NICs and any address width.
`MacsRuled` and `ExtraRuled` show that the two loops over MACs, with their sets of what
has been seen, refuse exactly a duplicate; `RangeIsMask` shows that the mask comparison of
`ip_in_cidr` is membership in the enumerated range (from `PowersAssumption`), and
`AddressesRuled` uses it; `ReserveFacts` that a reservation preserves `Booked`.
`Booked` follows the VMs in order, each under a MAC of its own.

### ConfigFile

`cluster.local.conf` line by line, read at once by `tokenize`/`parse_array`/`build_config`
and by the shell that sources it in the nightly scripts. `CP_NAME`, `GHCR_TAG`,
`AUTO_UPDATE_CP`, `WORKER_NAMES` and `TYPO` stand for the keys read in the same way:
required (with `SSH_PUBKEY_FILE`), lenient, validated, array and unknown. Values are
literal, without `$` or backslash. `SameNodes`: of a file without a strange line, hbird
accepts only what the scripts accept and both see the same nodes; and hbird refuses a file
for a missing key only if the scripts find a required key without a value as well, and for
an open array only if they do not get through the file. The strange lines, on which the
readers differ, are those of `Divergent` (a quoted value followed directly by `#`, a bare
value with a second word, `KEY= x`, an open quote) and the array lines `ReadAlike` leaves
out: a comment on a line that does not close the array (`parser.rs` 217), text after `)`,
an open quote, and a `)` in quotes.

*Proof*: `SameNodesRead`, for files of any number of lines and arrays of any length. `Alike`
is the relation between the two readers after each line without an error: the same keys,
arrays with the same elements, and for a scalar the same first element (the shell keeps
the others of an array it is assigned to). `EndFacts` turns it into the same nodes.

### CiliumPreflight

The two pins come from flags or committed files, as texts with or without `v` and patch
level. `PreflightIsRight`: the command ends with 2 exactly if a pin cannot be read, with 1
exactly if `--strict` (without `--dry-run`) meets a pair the matrix does not list or a
Cilium flag written with a `v`, and with 0 otherwise; the verdict is right for what was
given, and the hint of a mismatch points to the side on which the matching Cilium versions
are. It is judged on the texts given, not on what the program made of them. The minors
of the run lie on both sides of every window and of the step from one to two digits.

*Proof*: `PreflightRight`, for any minors. `K8sResolved` and `CiliumResolved` show that
the text parsed is the minor meant, but for the `v` of a Cilium flag, `PinsReadable` when a
pin is found at all, `JudgedRight` that the verdict and the side of the hint follow from
comparing numbers, `RowIsWindow` that each row of the matrix is an interval.

## Findings

Each is a run in which TLC finds the stated property violated.

| Run | What happens |
|---|---|
| `hint_signal` | Ctrl-C after the drain: the handler ends the process by the default disposition, `InFlight::drop` never runs, the worker stays cordoned without the hint that 2350-2353 and 2152-2153 promise |
| `rotate_slow` | the apiserver that has not restarted yet answers /healthz; Stage 2 rewrites every row under the old key, Stage 3 drops it, and the next start of the apiserver can read no row |
| `strict` | `STRICT_CACHE=1` reuses a disk template whose sidecar is of another source, although `docs/boot-test-overrides.md:122` says it fails closed on a cross-source reference |

Four more configurations are not part of the standard runs; TLC violates the one
property each of them names:

| Configuration | What happens |
|---|---|
| `MCRollingUpdate_fallback.cfg` | `AlreadyCurrentIsCurrent`: without `--apply`, `systemctl reboot` returns 0 while sshd still answers; the digest is unchanged and the node is classified `AlreadyCurrent` (1946: "No update available") with its reboot queued |
| `MCRollingUpdate_abort_timer.cfg` | `AbortRestoresTimer`: a fail-fast error leaves the auto-update timer of the node in flight stopped, where `docs/update-cluster.md:944-947` says the abort restarts it |
| `MCUpdateLock_bail.cfg` | `BailLeavesLockFree`: the probe can win the race against its own helper; the helper then holds the lock behind the failed acquisition (846-848 say it never got it) |
| `MCUpdateLock_slow.cfg` | `MutualExclusion`: a helper not scheduled within 2 s counts as the holder; two rolls run |

Seen in the models, without a configuration of their own:

* `LockReleased` has to leave out an invocation that crashed, since the helper's shell
  survives a SIGKILL of its invocation and keeps the lock; and a helper can be refused
  by its own invocation's probe, so that a lone invocation may end in `busy`.
* After a restore that failed between moving `/var/lib/etcd` and restoring, the rollback
  brings the manifests back and etcd comes up on an empty directory (`etcd.rs` 1069).
  The data are kept aside (`NothingLost`), but the cluster that returns is empty.
* A restore that starts with kubelet already stopped leaves the old etcd running, and
  the restored directory is not served: `RestoreServesSnapshot` asks for `upFirst`.
* `dominfo` exiting non-zero for any reason counts as "no such VM"
  (`destroy_cluster.rs` 190, and the guards of deploy and spawn): with the fault kind
  `misread`, `DestroyIsComplete` and `InstalledDiskKept` do not hold.
* `destroy-cluster` takes no default for `WORKER_NAMES`, `deploy-cluster` takes two
  workers, the nightly scripts none (`hbird-config` lib.rs 210, `hbird-staged-check.sh`
  32): with the key left out, destroy leaves the workers and the nightly roll skips them.
* `clean-vms` sweeps the disk of a VM with the prefix also when its destroy or undefine
  has failed and it still runs; it exits 0 with warnings.
* A VM that runs the wanted image with another one staged is "already tracking" to
  `switch-to-ghcr` (674) and boots the other one next.
* An `ssh` child that fills its output pipe while hbird still writes stdin blocks both
  for good; the budget does not cover the write (`hbird-ssh` lib.rs 323).

* Not all that decides a local image is in its build id: `docs/boot-test-overrides.md:124`
  says it folds in `BASE_IMAGE` and the rendered bib config, but
  `compute_expected_build_id` (`deploy_cluster.rs` 605-625, `cache.rs` 98-104) hashes the
  Containerfile alone. A reused local template may be of another base image or pubkey;
  `TemplateIsFresh` therefore asks of a reused one only the same source and `rev`.
* `docs/deploy-cluster.md:331-333` says that `STRICT_CACHE` does not fail on the
  unverifiable case; `assess_qcow2_cache` returns `StrictFail` for it.
* `inject_join_env` drops a failed discovery of stateroot or deployment
  (`spawn_workers.rs` 637-656): the join command goes to the physical root,
  `spawn-workers` exits 0, and the worker never joins.
* The error of a failed restore says "manifests moved back and kubelet started"
  (`etcd.rs` 1169) whenever the rollback script was sent, whichever of its commands failed;
  1156-1158 promise an annotation of whether it succeeded.
* `verify.rs` 499-500 and `cp_kubectl.rs` 200-201 and 240-243 say that failures of the SSH
  transport are errors, but a lost connection is exit 255 of `ssh` and comes back as
  `success = false`. If it goes after the warning of a cluster that only warns, the
  PodSecurity check passes; if it goes in the middle of `kubectl logs`, `kube-bench` takes
  the part it got for the report (`kube_bench.rs` 515-521).
* With `POD_CIDR` or `SERVICE_CIDR` unset the addresses of the second network are not
  compared with the defaults the image then uses (`k8s-init.sh` 64-65,
  `deploy_cluster.rs` 2130-2132).
* `cluster.example.conf:34-36` calls a reserved address guaranteed; an entry left under the
  same MAC with another address is kept without a word (`deploy_cluster.rs` 1826).
* Text after the `)` of an array is dropped by the parser (`parser.rs` 201-204, 212-215)
  and run as a command by the shell that sources the file.
* `preflight cilium --cilium=v1.17.16` is told that the matrix is stale, and fails with
  `--strict`, although the pair is listed: `cilium_minor_of` (335-337) strips no `v`.
* An `admin.conf` read while kubeadm writes it may lack its users and still pass the sanity
  check of the two exporting commands.

## Not modelled

* In RollingUpdate: dry-run, log text, address and name resolution (addresses are
  resolved once, at 460, so that a lease that changes over a reboot misleads the
  waits), `--parallel` (serial in the code), the pods behind
  `wait_node_daemonsets_ready`, and a boot that fails or falls back to the previous
  deployment (`BootUp` always boots what is staged).
* In KeyRotation: dry-run, address resolution, YAML text, file modes, the moment
  between unlinking and rewriting the file inside `install(1)`, overlapping rotations
  (both runs have `Exclusive`), and snapshots taken before a rotation.
* Two rolls at once: excluded by the lock, under `PromptFlock`. A roll by another
  user or from another host takes another lock and is outside both modules.
* Two commands at once on one KVM host (ClusterVms), two restores at once
  (EtcdRestore): no command takes a lock for it, and neither module covers it.
  ImageCache does have several operators as a constant; with two at once
  (`Exclusive = FALSE`) its properties do not hold, since bib's output directory is
  shared.
* The shell scripts that run inside the node images (first boot, staged updates,
  rollback) and the nightly roll on the host: they are not part of the Rust program.
  RollingUpdate, KeyRotation, ClusterVms and ConfigFile have what the program sees of
  them.
* `nodes`, `kubectl`, image build: pass-through calls and recipes.
* Text: rendering of user data, XML and YAML, virsh and ssh argument vectors, dry-run
  and log output of every command.
