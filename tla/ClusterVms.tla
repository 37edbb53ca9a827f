------------------------------ MODULE ClusterVms ------------------------------
(***************************************************************************)
(* The virtual machines of a cluster: the boot half of deploy-cluster (from *)
(* the seed of the control plane on), spawn-workers, destroy-cluster and   *)
(* clean-vms, which share the libvirt domains, the files of the storage    *)
(* pool and the DHCP reservations of one KVM host.  Every call goes        *)
(* through hbird-virt's Connection: it succeeds, virsh fails, or the       *)
(* transport fails, with or without its effect.  Commands follow one       *)
(* another in any order, each cut off anywhere; no two overlap.            *)
(***************************************************************************)
EXTENDS Integers

CONSTANTS
  CP,          \* the control plane's VM
  Worker,      \* WORKER_NAMES, or deploy's default for them
  Spawned,     \* hummingbird-k8s-worker-<i>
  Hummingbird, \* the VMs whose name starts with "hummingbird-"
  WorkersSet,  \* the config sets WORKER_NAMES
  Pinned,      \* the config sets CP_IP and WORKER_IPS
  MaxGen,      \* bound: clusters that are told apart at once
  Faults       \* "call", "lost", "crash", "slow", "discover", "dump", "misread"

VM == {CP} \cup Worker \cup Spawned

ASSUME NamesAssumption ==
  CP \notin Worker \cup Spawned /\ Worker \cap Spawned = {} /\ Hummingbird \subseteq VM
ASSUME ConfigAssumption == WorkersSet \in BOOLEAN /\ Pinned \in BOOLEAN
ASSUME MaxGenAssumption == MaxGen \in Nat

NoGen == 0
Gens == NoGen .. MaxGen
\* A join command that is on the disk, where the worker does not look for it.
Misplaced == -1

VARIABLES
  \* the KVM host
  domain,    \* "none", "off" or "running"
  disk,      \* <name>.qcow2: "none", a "clone" of the template, or the VM's "own"
  seed,      \* VMs with a <name>-seed.iso
  joins,     \* the cluster whose join command is in the seed or the disk, or Misplaced
  member,    \* the cluster the VM has made (CP) or joined
  resv,      \* VMs with a DHCP reservation on the default network
  template,  \* spawn-workers' hummingbird-k8s-worker.qcow2 exists
  \* the command
  cmd,       \* "deploy", "spawn", "destroy" or "clean", the last one started
  pc,        \* its next call, or "done" or "failed"
  vm,        \* the VM it is at
  todo,      \* the VMs still to come
  token,     \* the cluster its join command is for
  warned,    \* it counted a warning
  found,     \* the VMs its probe found defined
  \* history of the command
  faulted,   \* a call of a deploy failed
  blocked    \* a VM of a deploy's plan was defined when it started

hostVars == <<domain, disk, seed, joins, member, resv, template>>
cmdVars == <<cmd, vm, todo, token, warned, found, blocked>>
vars == <<hostVars, cmdVars, pc, faulted>>

Ended == {"done", "failed"}
DeployPcs == {"cpSeed", "guard", "seed", "clone", "reserve", "install", "cpReady",
              "token", "nodesReady"}
SpawnPcs == {"cpIp", "template", "sGuard", "sClone", "sMint", "sInject", "sUndo",
             "sInstall", "switch"}
DestroyPcs == {"probe", "kill", "undefine", "unreserve", "rmDisk", "rmSeed"}
CleanPcs == {"list", "cKill", "cUndefine", "sweep", "refresh"}

TypeOK ==
  /\ domain \in [VM -> {"none", "off", "running"}]
  /\ disk \in [VM -> {"none", "clone", "own"}]
  /\ seed \subseteq VM
  /\ joins \in [VM -> Gens \cup {Misplaced}] /\ member \in [VM -> Gens]
  /\ resv \subseteq VM /\ template \in BOOLEAN
  /\ cmd \in {"none", "deploy", "spawn", "destroy", "clean"}
  /\ pc \in Ended \cup DeployPcs \cup SpawnPcs \cup DestroyPcs \cup CleanPcs
  /\ vm \in VM /\ todo \subseteq VM /\ token \in Gens
  /\ warned \in BOOLEAN /\ found \subseteq VM
  /\ faulted \in BOOLEAN /\ blocked \in BOOLEAN

Init ==
  /\ domain = [v \in VM |-> "none"] /\ disk = [v \in VM |-> "none"]
  /\ seed = {}
  /\ joins = [v \in VM |-> NoGen] /\ member = [v \in VM |-> NoGen]
  /\ resv = {} /\ template = TRUE
  /\ cmd = "none" /\ pc = "done" /\ vm = CP /\ todo = {} /\ token = NoGen
  /\ warned = FALSE /\ found = {} /\ faulted = FALSE /\ blocked = FALSE

Defined(v) == domain[v] # "none"
DeployVms == {CP} \cup Worker

\* destroy's Plan::from_args does not default WORKER_NAMES as deploy's does.
DestroyVms == {CP} \cup (IF WorkersSet THEN Worker ELSE {})

--------------------------------------------------------------------------------
(* The calls of hbird-virt.                                                *)

\* The call of the command at label l, done without a fault or with one.
At(l) == pc = l
Ok(next) == pc' = next /\ UNCHANGED faulted
Fault(kind, next) == kind \in Faults /\ pc' = next /\ faulted' = (cmd = "deploy")

\* A call that ends the command when it fails.
Fatal == Fault("call", "failed")

\* Mutant of the answer of dominfo: a VM that is off counts as not defined.
DominfoRunning(v) == domain[v] = "running"

\* dominfo: every non-zero exit of virsh is read as "not defined".
Dominfo(v) == Defined(v)
Misread(v) == "misread" \in Faults /\ Defined(v)

\* domifaddr: a VM that runs gets a lease in the end; how long it takes is the fault
\* "slow" of who polls for it.
Domifaddr(v) == domain[v] = "running"

\* start_domain: a VM without its disk does not start.
StartDomain(v) ==
  domain' = [domain EXCEPT ![v] = IF disk[v] = "none" THEN @ ELSE "running"]

\* destroy_domain; undefine_domain, after which a VM that still runs lives on as a
\* transient one.
DestroyDomain(v) == domain' = [domain EXCEPT ![v] = "off"]
UndefineDomain(v) == domain' = [domain EXCEPT ![v] = IF @ = "running" THEN @ ELSE "none"]

\* What was on the disks of vs goes with them.
Forget(vs) ==
  /\ joins' = [v \in VM |-> IF v \in vs THEN NoGen ELSE joins[v]]
  /\ member' = [v \in VM |-> IF v \in vs THEN NoGen ELSE member[v]]

\* remote_rm_f of a disk: gone with what was on it.
RemoveDisk(v) == disk' = [disk EXCEPT ![v] = "none"] /\ Forget({v})

\* undefine_domain_remove_all_storage: the domain, its disk and its seed.
UndefineWithStorage(v) ==
  /\ domain' = [domain EXCEPT ![v] = "none"]
  /\ RemoveDisk(v)
  /\ seed' = seed \ {v}

\* remote_cp_reflink: cp replaces whatever is there.
CpReflink(v) ==
  /\ disk' = [disk EXCEPT ![v] = "clone"]
  /\ Forget({v})

\* virt_install_vm, virt_install: the VM is defined and boots; a name in use is
\* refused.
VirtInstall(v) ==
  /\ domain' = [domain EXCEPT ![v] = "running"]
  /\ disk' = [disk EXCEPT ![v] = "own"]

InstallStep(v, next) ==
  \/ ~Defined(v) /\ VirtInstall(v) /\ Ok(next)
  \/ ~Defined(v) /\ VirtInstall(v) /\ Fault("lost", "failed")
  \/ Fatal /\ UNCHANGED <<domain, disk>>
  \/ Defined(v) /\ Ok("failed") /\ UNCHANGED <<domain, disk>>

--------------------------------------------------------------------------------
(* A command starts.                                                       *)

\* Mutant of the loop over 1..=count: it goes one too far.
SpawnPlanOffByOne == Spawned \cup {"one more"}

\* worker_name of 1..=count.
SpawnPlan == Spawned

Begin(c, first, rest, label) ==
  /\ pc \in Ended
  /\ cmd' = c /\ pc' = label /\ vm' = first /\ todo' = rest
  /\ token' = NoGen /\ warned' = FALSE /\ found' = {} /\ faulted' = FALSE
  /\ blocked' = (c = "deploy" /\ \E v \in DeployVms : Defined(v))
  /\ UNCHANGED hostVars

StartDeploy == Begin("deploy", CP, Worker, "cpSeed")
StartSpawn == \E v \in SpawnPlan : Begin("spawn", v, SpawnPlan \ {v}, "cpIp")
StartDestroy == Begin("destroy", CP, DestroyVms \ {CP}, "probe")
StartClean == Begin("clean", CP, {}, "list")

\* The process dies between two calls.
Crash ==
  /\ pc \notin Ended
  /\ Fault("crash", "failed")
  /\ UNCHANGED <<hostVars, cmdVars>>

--------------------------------------------------------------------------------
(* deploy-cluster: plan_cp_seed to plan_verify.                            *)

\* cloud_init_seed_cmd: the seed of a VM, replacing the one that is there.
SeedIso(v) == seed' = seed \cup {v}

\* plan_cp_seed: the seed is written before the VM is looked for.
CpSeed ==
  /\ At("cpSeed")
  /\ \/ SeedIso(CP) /\ (Ok("guard") \/ Fault("lost", "failed"))
     \/ Fatal /\ UNCHANGED seed
  /\ UNCHANGED <<domain, disk, joins, member, resv, template, cmdVars>>

\* Mutant of the refusal: the worker loop goes on with a VM that is already defined.
RefusesCpOnly(v) == Dominfo(v) /\ v = CP

\* Mutant of the refusal: the disk a failed deploy left behind is refused too.
RefusesLeftovers(v) == Dominfo(v) \/ disk[v] # "none"

\* plan_cp_virt_install and plan_worker_spawn refuse a VM that is already defined.
Refuses(v) == Dominfo(v)

Guard ==
  LET next == IF vm = CP THEN "clone" ELSE "seed" IN
  /\ At("guard")
  /\ \/ Refuses(vm) /\ Ok("failed")
     \/ ~Refuses(vm) /\ Ok(next)
     \/ Misread(vm) /\ Fault("misread", next)
     \/ Fatal
  /\ UNCHANGED <<hostVars, cmdVars>>

\* render_worker_user_data: of all it says, the cluster to join.
WorkerUserData == token

\* plan_worker_spawn: user-data with the join command, and the seed.
WorkerSeed ==
  /\ At("seed")
  /\ \/ SeedIso(vm) /\ (Ok("clone") \/ Fault("lost", "failed"))
     \/ Fatal /\ UNCHANGED seed
  /\ UNCHANGED <<domain, disk, joins, member, resv, template, cmdVars>>

Clone ==
  /\ At("clone")
  /\ \/ CpReflink(vm) /\ (Ok("reserve") \/ Fault("lost", "failed"))
     \/ Fatal /\ UNCHANGED <<disk, joins, member>>
  /\ UNCHANGED <<domain, seed, resv, template, cmdVars>>

\* ensure_dhcp_reservation: never fatal, whatever net-dumpxml and net-update say.
Reserve ==
  /\ At("reserve")
  /\ \/ Pinned /\ resv' = resv \cup {vm} /\ Ok("install")
     \/ ~Pinned /\ UNCHANGED resv /\ Ok("install")
     \/ Pinned /\ UNCHANGED resv /\ Fault("call", "install")
  /\ UNCHANGED <<domain, disk, seed, joins, member, template, cmdVars>>

\* The next worker, or the wait for every node.
NextWorker(l) ==
  \/ \E v \in todo : vm' = v /\ todo' = todo \ {v} /\ Ok(l)
  \/ todo = {} /\ vm' = CP /\ todo' = Worker /\ Ok("nodesReady")

\* virt-install: the control plane is waited for, a worker is not.
Install ==
  /\ At("install")
  /\ IF vm = CP \/ Defined(vm)
     THEN InstallStep(vm, "cpReady") /\ UNCHANGED <<vm, todo, joins>>
     ELSE \/ /\ VirtInstall(vm) /\ joins' = [joins EXCEPT ![vm] = WorkerUserData]
             /\ NextWorker("guard")
          \/ /\ VirtInstall(vm) /\ joins' = [joins EXCEPT ![vm] = WorkerUserData]
             /\ Fault("lost", "failed") /\ UNCHANGED <<vm, todo>>
          \/ Fatal /\ UNCHANGED <<domain, disk, vm, todo, joins>>
  /\ UNCHANGED <<seed, member, resv, template, cmd, token, warned, found, blocked>>

\* plan_cp_ready: an address, then a Ready node, each polled with retry.
CpReady ==
  /\ At("cpReady")
  /\ \/ Domifaddr(CP) /\ member[CP] # NoGen /\ Ok("token")
     \/ Fault("slow", "failed")
  /\ UNCHANGED <<hostVars, cmdVars>>

\* plan_join_token: kubeadm token create on the control plane.
JoinToken ==
  /\ At("token")
  /\ \/ token' = member[CP] /\ NextWorker("guard")
     \/ Fatal /\ UNCHANGED <<vm, todo, token>>
  /\ UNCHANGED <<hostVars, cmd, warned, found, blocked>>

\* Mutant of plan_cluster_ready: the nodes after the first are not waited for.
ReadyFirst(v) == v # CP \/ member[CP] # NoGen

\* plan_cluster_ready: the node's own row says Ready.
NodeReady(v) == domain[v] = "running" /\ member[v] # NoGen /\ member[v] = member[CP]

\* plan_cluster_ready polls each node by name; plan_verify, whose failure is fatal under
\* STRICT_CACHE only, and plan_summary follow and change nothing.
NodesReady ==
  /\ At("nodesReady")
  /\ \/ /\ NodeReady(vm)
        /\ \/ \E v \in todo : vm' = v /\ todo' = todo \ {v} /\ Ok("nodesReady")
           \/ todo = {} /\ (Ok("done") \/ Fatal) /\ UNCHANGED <<vm, todo>>
     \/ Fault("slow", "failed") /\ UNCHANGED <<vm, todo>>
  /\ UNCHANGED <<hostVars, cmd, token, warned, found, blocked>>

Deploy ==
  \/ StartDeploy \/ CpSeed \/ Guard \/ WorkerSeed \/ Clone \/ Reserve \/ Install
  \/ CpReady \/ JoinToken \/ NodesReady

--------------------------------------------------------------------------------
(* spawn-workers.                                                          *)

\* plan_cp_ip_resolve and plan_injector_detect.
CpIp ==
  /\ At("cpIp")
  /\ \/ Domifaddr(CP) /\ Ok("template")
     \/ ~Domifaddr(CP) /\ Ok("failed")
     \/ Fault("slow", "failed") \/ Fatal
  /\ UNCHANGED <<hostVars, cmdVars>>

Template ==
  /\ At("template")
  /\ \/ template /\ Ok("sGuard")
     \/ ~template /\ Ok("failed")
     \/ Fatal
  /\ UNCHANGED <<hostVars, cmdVars>>

\* The next worker of the loop, or plan_bootc_switch.
NextSpawned ==
  \/ \E v \in todo : vm' = v /\ todo' = todo \ {v} /\ Ok("sGuard")
  \/ todo = {} /\ Ok("switch") /\ UNCHANGED <<vm, todo>>

\* A VM that is defined is started, and the loop goes on whether or not it starts.
SpawnGuard ==
  /\ At("sGuard")
  /\ \/ Dominfo(vm) /\ NextSpawned /\ StartDomain(vm)
     \/ /\ Dominfo(vm) /\ domain[vm] = "off" /\ "call" \in Faults
        /\ NextSpawned /\ UNCHANGED domain
     \/ ~Dominfo(vm) /\ Ok("sClone") /\ UNCHANGED <<domain, vm, todo>>
     \/ Misread(vm) /\ Fault("misread", "sClone") /\ UNCHANGED <<domain, vm, todo>>
     \/ Fatal /\ UNCHANGED <<domain, vm, todo>>
  /\ UNCHANGED <<disk, seed, joins, member, resv, template,
                 cmd, token, warned, found, blocked>>

SpawnClone ==
  /\ At("sClone")
  /\ \/ CpReflink(vm) /\ (Ok("sMint") \/ Fault("lost", "failed"))
     \/ Fatal /\ UNCHANGED <<disk, joins, member>>
  /\ UNCHANGED <<domain, seed, resv, template, cmdVars>>

\* The token, polled; without one the clone is removed.
SpawnMint ==
  /\ At("sMint")
  /\ \/ domain[CP] = "running" /\ member[CP] # NoGen
        /\ token' = member[CP] /\ Ok("sInject")
     \/ Fault("slow", "sUndo") /\ UNCHANGED token
  /\ UNCHANGED <<hostVars, cmd, vm, todo, warned, found, blocked>>

\* Mutant of the check of inject_join_env: its failure is ignored.
InjectFailureIgnored == "sInstall"

\* A failed inject_join_env removes the clone and ends the command.
InjectFailure == "sUndo"

\* inject_join_env.  When guestfish fails to tell the deployment's directory, the join
\* command goes to /etc of the physical root, and the call succeeds.
SpawnInject ==
  /\ At("sInject")
  /\ \/ joins' = [joins EXCEPT ![vm] = token] /\ Ok("sInstall")
     \/ joins' = [joins EXCEPT ![vm] = Misplaced] /\ Fault("discover", "sInstall")
     \/ Fault("call", InjectFailure) /\ UNCHANGED joins
  /\ UNCHANGED <<domain, disk, seed, member, resv, template, cmdVars>>

\* rm -f of the clone, best-effort, before the error.
SpawnUndo ==
  /\ At("sUndo")
  /\ \/ RemoveDisk(vm)
     \/ "call" \in Faults /\ UNCHANGED <<disk, joins, member>>
  /\ Ok("failed")
  /\ UNCHANGED <<domain, seed, resv, template, cmdVars>>

SpawnInstall ==
  /\ At("sInstall")
  /\ IF Defined(vm)
     THEN Ok("failed") /\ UNCHANGED <<domain, disk, vm, todo>>
     ELSE \/ VirtInstall(vm) /\ NextSpawned
          \/ VirtInstall(vm) /\ Fault("lost", "failed") /\ UNCHANGED <<vm, todo>>
          \/ Fatal /\ UNCHANGED <<domain, disk, vm, todo>>
  /\ UNCHANGED <<seed, joins, member, resv, template, cmd, token, warned, found, blocked>>

\* plan_bootc_switch: best-effort for each worker, nothing of it fails the command.
SpawnSwitch ==
  /\ At("switch")
  /\ Ok("done")
  /\ UNCHANGED <<hostVars, cmdVars>>

Spawn ==
  \/ StartSpawn \/ CpIp \/ Template \/ SpawnGuard \/ SpawnClone \/ SpawnMint
  \/ SpawnInject \/ SpawnUndo \/ SpawnInstall \/ SpawnSwitch

--------------------------------------------------------------------------------
(* destroy-cluster: destroy_one for each VM, then the exit status.         *)

\* A step that warns and goes on when it fails.
Warn(next) == Fault("call", next) /\ warned' = TRUE

Probe ==
  /\ At("probe")
  /\ \/ Dominfo(vm) /\ Ok("kill") /\ found' = found \cup {vm}
     \/ ~Dominfo(vm) /\ Ok("rmDisk") /\ UNCHANGED found
     \/ Misread(vm) /\ Fault("misread", "rmDisk") /\ UNCHANGED found
     \/ Fatal /\ UNCHANGED found
  /\ UNCHANGED <<hostVars, cmd, vm, todo, token, warned, blocked>>

\* virsh destroy: fails for a VM that is off.
Kill ==
  /\ At("kill")
  /\ \/ domain[vm] = "running" /\ DestroyDomain(vm) /\ Ok("undefine") /\ UNCHANGED warned
     \/ domain[vm] = "off" /\ Ok("undefine") /\ warned' = TRUE /\ UNCHANGED domain
     \/ Warn("undefine") /\ UNCHANGED domain
  /\ UNCHANGED <<disk, seed, joins, member, resv, template,
                 cmd, vm, todo, token, found, blocked>>

Undefine ==
  /\ At("undefine")
  /\ \/ UndefineDomain(vm) /\ Ok("unreserve") /\ UNCHANGED warned
     \/ Warn("unreserve") /\ UNCHANGED domain
  /\ UNCHANGED <<disk, seed, joins, member, resv, template,
                 cmd, vm, todo, token, found, blocked>>

\* find_ip_dhcp_host_by_name: the entry, whatever MAC and address it has.
Reservation(v) == resv \cap {v}

\* The reservation, found by its name.  A net-dumpxml that fails warns without being
\* counted.
Unreserve ==
  /\ At("unreserve")
  /\ \/ resv' = resv \ Reservation(vm) /\ Ok("rmDisk") /\ UNCHANGED warned
     \/ Reservation(vm) # {} /\ Warn("rmDisk") /\ UNCHANGED resv
     \/ Fault("dump", "rmDisk") /\ UNCHANGED <<resv, warned>>
  /\ UNCHANGED <<domain, disk, seed, joins, member, template,
                 cmd, vm, todo, token, found, blocked>>

\* remote_path_exists and remote_rm_f of the disk.
RmDisk ==
  /\ At("rmDisk")
  /\ \/ RemoveDisk(vm) /\ Ok("rmSeed") /\ UNCHANGED warned
     \/ Warn("rmSeed") /\ UNCHANGED <<disk, joins, member>>
  /\ UNCHANGED <<domain, seed, resv, template,
                 cmd, vm, todo, token, found, blocked>>

\* Mutant of the exit status: warnings do not count.
ExitAlwaysOk(w) == "done"

\* run: any warning makes the exit status non-zero.
ExitStatus(w) == IF w THEN "failed" ELSE "done"

\* The seed, then the next VM or cleanup_scratch_dir and the exit status.
RmSeed ==
  LET next(w) == IF todo = {} THEN ExitStatus(w) ELSE "probe" IN
  /\ At("rmSeed")
  /\ \/ /\ seed' = seed \ {vm}
        /\ Ok(next(warned)) /\ UNCHANGED warned
     \/ Warn(next(TRUE)) /\ UNCHANGED seed
  /\ IF todo = {} THEN UNCHANGED <<vm, todo>>
     ELSE \E v \in todo : vm' = v /\ todo' = todo \ {v}
  /\ UNCHANGED <<domain, disk, joins, member, resv, template,
                 cmd, token, found, blocked>>

Destroy ==
  StartDestroy \/ Probe \/ Kill \/ Undefine \/ Unreserve \/ RmDisk \/ RmSeed

--------------------------------------------------------------------------------
(* clean-vms.                                                              *)

\* sweep_domains lists the domains once; the list failing is fatal.
List ==
  /\ At("list")
  /\ LET all == {v \in Hummingbird : Defined(v)} IN
     \/ /\ all # {} /\ \E v \in all : vm' = v /\ todo' = all \ {v}
        /\ Ok("cKill")
     \/ all = {} /\ Ok("sweep") /\ UNCHANGED <<vm, todo>>
     \/ Fatal /\ UNCHANGED <<vm, todo>>
  /\ UNCHANGED <<hostVars, cmd, token, warned, found, blocked>>

CleanKill ==
  /\ At("cKill")
  /\ \/ DestroyDomain(vm) /\ Ok("cUndefine")
     \/ Fault("call", "cUndefine") /\ UNCHANGED domain
  /\ UNCHANGED <<disk, seed, joins, member, resv, template, cmdVars>>

\* undefine --remove-all-storage.
CleanUndefine ==
  /\ At("cUndefine")
  /\ LET next == IF todo = {} THEN "sweep" ELSE "cKill" IN
     \/ domain[vm] = "off" /\ Ok(next) /\ UndefineWithStorage(vm)
     \/ domain[vm] = "running" /\ Ok(next) /\ UNCHANGED <<domain, disk, seed, joins, member>>
     \/ Fault("call", next) /\ UNCHANGED <<domain, disk, seed, joins, member>>
  /\ IF todo = {} THEN UNCHANGED <<vm, todo>>
     ELSE \E v \in todo : vm' = v /\ todo' = todo \ {v}
  /\ UNCHANGED <<resv, template, cmd, token, warned, found, blocked>>

\* Mutant of is_straggler_artifact: the seed patterns of the bash twin, which had no
\* prefix.
AnySeed(v) == TRUE

\* is_straggler_artifact: the prefix holds for all three suffixes.
IsStraggler(v) == v \in Hummingbird

\* What a loop of rm -f leaves of the files of vs: each rm can fail.
Survivors(vs) == IF "call" \in Faults THEN SUBSET vs ELSE {{}}

\* sweep_stragglers: ls, then rm -f of every file that matches, the worker template
\* with them.  An ls that virsh refuses leaves them all and goes on.
Sweep ==
  /\ At("sweep")
  /\ \/ \E disks, seeds \in Survivors(Hummingbird), templates \in Survivors({"template"}) :
          /\ disk' = [v \in VM |-> IF v \in Hummingbird \ disks THEN "none" ELSE disk[v]]
          /\ Forget(Hummingbird \ disks)
          /\ seed' = {v \in seed : IsStraggler(v) => v \in seeds}
          /\ template' = (templates # {} /\ template)
          /\ Ok("refresh")
     \/ Fatal /\ UNCHANGED <<disk, seed, joins, member, template>>
  /\ UNCHANGED <<domain, resv, cmdVars>>

\* refresh_pool warns at most; the exit status is 0.
Refresh ==
  /\ At("refresh")
  /\ Ok("done")
  /\ UNCHANGED <<hostVars, cmdVars>>

Clean == StartClean \/ List \/ CleanKill \/ CleanUndefine \/ Sweep \/ Refresh

--------------------------------------------------------------------------------
(* The VMs, and the image build.                                           *)

InUse == {token} \cup {member[v] : v \in VM} \cup {joins[v] : v \in VM}

\* k8s-init on a control plane that has no cluster yet.
CpInit ==
  /\ domain[CP] = "running" /\ disk[CP] = "own" /\ member[CP] = NoGen
  /\ \E g \in Gens \ (InUse \cup {NoGen}) :
       /\ \A h \in Gens \ (InUse \cup {NoGen}) : g <= h
       /\ member' = [member EXCEPT ![CP] = g]
  /\ UNCHANGED <<domain, disk, seed, joins, resv, template, cmdVars, pc, faulted>>

\* worker-init: kubeadm join, with the token of the cluster that is there.
WorkerJoins(v) ==
  /\ domain[v] = "running" /\ disk[v] = "own" /\ member[v] = NoGen
  /\ joins[v] # NoGen /\ domain[CP] = "running" /\ joins[v] = member[CP]
  /\ member' = [member EXCEPT ![v] = joins[v]]
  /\ UNCHANGED <<domain, disk, seed, joins, resv, template, cmdVars, pc, faulted>>

\* make image-worker and bib bring spawn-workers' template back.
BuildTemplate ==
  /\ ~template /\ template' = TRUE
  /\ UNCHANGED <<domain, disk, seed, joins, member, resv, cmdVars, pc, faulted>>

Environment ==
  CpInit \/ (\E v \in VM \ {CP} : WorkerJoins(v)) \/ BuildTemplate

Next == Deploy \/ Spawn \/ Destroy \/ Clean \/ Crash \/ Environment

Spec == Init /\ [][Next]_vars

--------------------------------------------------------------------------------
(* Properties.                                                             *)

\* deploy-cluster and spawn-workers never replace or remove the disk of a VM that is
\* defined: "refuses to overwrite" (docs/deploy-cluster.md).
InstalledDiskKept ==
  [][\A v \in VM : cmd \in {"deploy", "spawn"} /\ cmd' = cmd /\ Defined(v) =>
       disk'[v] = disk[v] /\ joins'[v] = joins[v]]_vars

\* Whatever fails on the way there, no worker is installed without a join command, its
\* seed's or one injected into its disk; one it does not see (Misplaced) is there only
\* when the discovery of the deployment's directory failed, which inject_join_env ignores.
NoWorkerWithoutJoin ==
  \A v \in VM \ {CP} : Defined(v) /\ disk[v] # "none" =>
    \/ joins[v] \in Gens \ {NoGen}
    \/ joins[v] = Misplaced /\ "discover" \in Faults /\ v \in Spawned

\* A deploy that succeeds has every VM of its plan in the cluster of its control plane.
DeployDelivers ==
  cmd = "deploy" /\ pc = "done" =>
    \A v \in DeployVms : member[v] # NoGen /\ member[v] = member[CP]

\* Nothing an earlier deploy, destroy or clean left behind makes a deploy fail: one that
\* meets no fault fails only when a VM of its plan was defined when it started.
LeftoversNeverBlock ==
  cmd = "deploy" /\ pc = "failed" /\ ~faulted => blocked

\* A destroy that exits 0 leaves no domain, disk or seed of any VM it names, and no
\* reservation of a VM it found.
DestroyIsComplete ==
  cmd = "destroy" /\ pc = "done" =>
    /\ \A v \in DestroyVms : ~Defined(v) /\ disk[v] = "none" /\ v \notin seed
    /\ found \cap resv = {}

\* A command touches no VM outside its plan: clean-vms only those with the prefix.
Scope == CASE cmd = "deploy" -> DeployVms [] cmd = "spawn" -> Spawned
           [] cmd = "destroy" -> DestroyVms [] cmd = "clean" -> Hummingbird
           [] OTHER -> {}
OthersUntouched ==
  [][pc \notin Ended =>
       \A v \in VM \ Scope :
         domain'[v] = domain[v] /\ disk'[v] = disk[v] /\ (v \in seed' <=> v \in seed)]_vars
================================================================================
