--------------------------- MODULE ClusterVmsProofs ---------------------------
(***************************************************************************)
(* Proofs about ClusterVms, for every set of machines and every bound: the *)
(* type invariant, the promises of deploy-cluster, spawn-workers and       *)
(* destroy-cluster, and the two action properties on what a command may    *)
(* touch.  The inductive invariant says which labels and which VMs belong  *)
(* to the command that runs, and what it has established when it stands at *)
(* a label.  It comes in parts, so that a theorem carries only the         *)
(* hypotheses about the faults that it needs.                              *)
(***************************************************************************)
EXTENDS ClusterVms, TLAPS

--------------------------------------------------------------------------------
(* The inductive invariant.                                                *)

\* Every label belongs to one command.
Routed ==
  /\ pc \in DeployPcs => cmd = "deploy"
  /\ pc \in SpawnPcs => cmd = "spawn"
  /\ pc \in DestroyPcs => cmd = "destroy"
  /\ pc \in CleanPcs => cmd = "clean"

\* The VM at hand and the ones to come are of the command's plan, and the one at hand
\* does not come again.
Placed ==
  /\ cmd = "deploy" => vm \in DeployVms /\ todo \subseteq Worker
  /\ pc \in {"cpSeed", "cpReady", "token"} => vm = CP
  /\ pc = "seed" => vm # CP
  /\ cmd = "spawn" => vm \in Spawned /\ todo \subseteq Spawned
  /\ cmd = "destroy" => vm \in DestroyVms /\ todo \subseteq DestroyVms
  /\ cmd = "clean" => todo \subseteq Hummingbird
  /\ pc \in {"cKill", "cUndefine"} => vm \in Hummingbird
  /\ cmd \in {"deploy", "destroy", "clean"} => vm \notin todo

\* What clean-vms has listed and not passed is defined.
Listed == pc \in {"cKill", "cUndefine"} => \A v \in {vm} \cup todo : Defined(v)

\* A join command is for a cluster that exists once a worker is at hand.
Tokens ==
  /\ pc = "token" => member[CP] # NoGen
  /\ pc \in {"guard", "seed", "clone", "reserve", "install"} /\ vm # CP => token # NoGen
  /\ pc = "sInject" => token # NoGen
  /\ pc = "sInstall" => \/ joins[vm] \in Gens \ {NoGen}
                        \/ joins[vm] = Misplaced /\ "discover" \in Faults

\* Past the guard, the VM at hand is not defined.
GuardedPcs == {"seed", "clone", "reserve", "install",
               "sClone", "sMint", "sInject", "sUndo", "sInstall"}
Cleared == pc \in GuardedPcs => ~Defined(vm)

\* The nodes deploy has polled are in the cluster of the control plane, and stay there.
InCluster(v) == member[v] # NoGen /\ member[v] = member[CP]
Polled ==
  /\ pc = "nodesReady" => \A v \in DeployVms : v = vm \/ v \in todo \/ InCluster(v)
  /\ cmd = "deploy" /\ pc = "done" => \A v \in DeployVms : InCluster(v)

\* A deploy that started without any of its VMs still has none of those to come.
BootPcs == DeployPcs \ {"nodesReady"}
Unbooted ==
  cmd = "deploy" /\ ~blocked =>
    /\ pc \in BootPcs => \A v \in todo : ~Defined(v)
    /\ pc \in BootPcs \ {"cpReady", "token"} => ~Defined(vm)
    /\ pc = "failed" => faulted

\* What a destroy that has not warned has done for the VM at hand.
Removed(v) == ~Defined(v) /\ (v \in found => v \notin resv)
Erased(v) == Removed(v) /\ disk[v] = "none" /\ v \notin seed
Undone ==
  cmd = "destroy" /\ ~warned /\ pc # "failed" =>
    /\ pc = "undefine" => domain[vm] # "running"
    /\ pc = "unreserve" => ~Defined(vm)
    /\ pc = "rmDisk" => Removed(vm)
    /\ pc = "rmSeed" => Removed(vm) /\ disk[vm] = "none"
    /\ pc # "done" => \A v \in DestroyVms : v = vm \/ v \in todo \/ Erased(v)
    /\ pc = "done" => \A v \in DestroyVms : Erased(v)
Destroyed ==
  /\ Undone
  /\ cmd = "destroy" /\ pc = "done" => ~warned
  /\ cmd = "destroy" => found \subseteq DestroyVms \ todo
  /\ pc = "probe" => vm \notin found

--------------------------------------------------------------------------------
(* Whose step it is.                                                       *)

\* A step of deploy-cluster is the command's own, and stays with its labels.
LEMMA DeployLabels ==
  ASSUME Routed, Deploy
  PROVE  /\ cmd' = "deploy" /\ pc' \in DeployPcs \cup Ended
         /\ pc \notin Ended => cmd = "deploy"
<1> DEFINE Goal == /\ cmd' = "deploy" /\ pc' \in DeployPcs \cup Ended
                   /\ pc \notin Ended => cmd = "deploy"
<1> USE DEF At, Ok, Fault, Fatal, hostVars, cmdVars, vars, Routed, DeployPcs,
  SpawnPcs, DestroyPcs, CleanPcs, Ended
<1>1. ASSUME StartDeploy PROVE Goal
  BY <1>1 DEF StartDeploy, Begin
<1>2. ASSUME CpSeed PROVE Goal
  BY <1>2 DEF CpSeed, SeedIso
<1>3. ASSUME Guard PROVE Goal
  BY <1>3 DEF Guard, Refuses, Dominfo, Misread
<1>4. ASSUME WorkerSeed PROVE Goal
  BY <1>4 DEF WorkerSeed, SeedIso
<1>5. ASSUME Clone PROVE Goal
  BY <1>5 DEF Clone, CpReflink, Forget
<1>6. ASSUME Reserve PROVE Goal
  BY <1>6 DEF Reserve
<1>7. ASSUME Install PROVE Goal
  BY <1>7 DEF Install, InstallStep, VirtInstall, WorkerUserData, NextWorker
<1>8. ASSUME CpReady PROVE Goal
  BY <1>8 DEF CpReady, Domifaddr
<1>9. ASSUME JoinToken PROVE Goal
  BY <1>9 DEF JoinToken, NextWorker
<1>10. ASSUME NodesReady PROVE Goal
  BY <1>10 DEF NodesReady, NodeReady
<1> QED BY <1>1, <1>2, <1>3, <1>4, <1>5, <1>6, <1>7, <1>8, <1>9, <1>10 DEF Deploy

\* The same of spawn-workers.
LEMMA SpawnLabels ==
  ASSUME Routed, Spawn
  PROVE  /\ cmd' = "spawn" /\ pc' \in SpawnPcs \cup Ended
         /\ pc \notin Ended => cmd = "spawn"
<1> DEFINE Goal == /\ cmd' = "spawn" /\ pc' \in SpawnPcs \cup Ended
                   /\ pc \notin Ended => cmd = "spawn"
<1> USE DEF At, Ok, Fault, Fatal, hostVars, cmdVars, vars, Routed, DeployPcs,
  SpawnPcs, DestroyPcs, CleanPcs, Ended
<1>1. ASSUME StartSpawn PROVE Goal
  BY <1>1 DEF StartSpawn, SpawnPlan, Begin
<1>2. ASSUME CpIp PROVE Goal
  BY <1>2 DEF CpIp, Domifaddr
<1>3. ASSUME Template PROVE Goal
  BY <1>3 DEF Template
<1>4. ASSUME SpawnGuard PROVE Goal
  BY <1>4 DEF SpawnGuard, NextSpawned, StartDomain, Dominfo, Misread
<1>5. ASSUME SpawnClone PROVE Goal
  BY <1>5 DEF SpawnClone, CpReflink, Forget
<1>6. ASSUME SpawnMint PROVE Goal
  BY <1>6 DEF SpawnMint
<1>7. ASSUME SpawnInject PROVE Goal
  BY <1>7 DEF SpawnInject, InjectFailure
<1>8. ASSUME SpawnUndo PROVE Goal
  BY <1>8 DEF SpawnUndo, RemoveDisk, Forget
<1>9. ASSUME SpawnInstall PROVE Goal
  BY <1>9 DEF SpawnInstall, VirtInstall, NextSpawned
<1>10. ASSUME SpawnSwitch PROVE Goal
  BY <1>10 DEF SpawnSwitch
<1> QED BY <1>1, <1>2, <1>3, <1>4, <1>5, <1>6, <1>7, <1>8, <1>9, <1>10 DEF Spawn

\* The same of destroy-cluster.
LEMMA DestroyLabels ==
  ASSUME Routed, Destroy
  PROVE  /\ cmd' = "destroy" /\ pc' \in DestroyPcs \cup Ended
         /\ pc \notin Ended => cmd = "destroy"
<1> DEFINE Goal == /\ cmd' = "destroy" /\ pc' \in DestroyPcs \cup Ended
                   /\ pc \notin Ended => cmd = "destroy"
<1> USE DEF At, Ok, Fault, Fatal, hostVars, cmdVars, vars, Routed, DeployPcs,
  SpawnPcs, DestroyPcs, CleanPcs, Ended
<1>1. ASSUME StartDestroy PROVE Goal
  BY <1>1 DEF StartDestroy, Begin
<1>2. ASSUME Probe PROVE Goal
  BY <1>2 DEF Probe, Dominfo, Misread
<1>3. ASSUME Kill PROVE Goal
  BY <1>3 DEF Kill, DestroyDomain, Warn
<1>4. ASSUME Undefine PROVE Goal
  BY <1>4 DEF Undefine, UndefineDomain, Warn
<1>5. ASSUME Unreserve PROVE Goal
  BY <1>5 DEF Unreserve, Reservation, Warn
<1>6. ASSUME RmDisk PROVE Goal
  BY <1>6 DEF RmDisk, RemoveDisk, Forget, Warn
<1>7. ASSUME RmSeed PROVE Goal
  BY <1>7 DEF RmSeed, ExitStatus, Warn
<1> QED BY <1>1, <1>2, <1>3, <1>4, <1>5, <1>6, <1>7 DEF Destroy

\* The same of clean-vms.
LEMMA CleanLabels ==
  ASSUME Routed, Clean
  PROVE  /\ cmd' = "clean" /\ pc' \in CleanPcs \cup Ended
         /\ pc \notin Ended => cmd = "clean"
<1> DEFINE Goal == /\ cmd' = "clean" /\ pc' \in CleanPcs \cup Ended
                   /\ pc \notin Ended => cmd = "clean"
<1> USE DEF At, Ok, Fault, Fatal, hostVars, cmdVars, vars, Routed, DeployPcs,
  SpawnPcs, DestroyPcs, CleanPcs, Ended
<1>1. ASSUME StartClean PROVE Goal
  BY <1>1 DEF StartClean, Begin
<1>2. ASSUME List PROVE Goal
  BY <1>2 DEF List
<1>3. ASSUME CleanKill PROVE Goal
  BY <1>3 DEF CleanKill, DestroyDomain
<1>4. ASSUME CleanUndefine PROVE Goal
  BY <1>4 DEF CleanUndefine, UndefineWithStorage, RemoveDisk, Forget
<1>5. ASSUME Sweep PROVE Goal
  BY <1>5 DEF Sweep, IsStraggler, Forget
<1>6. ASSUME Refresh PROVE Goal
  BY <1>6 DEF Refresh
<1> QED BY <1>1, <1>2, <1>3, <1>4, <1>5, <1>6 DEF Clean

\* Neither a crash nor the VMs change what the command is at, except that a crash ends
\* it; the environment leaves domains, disks, seeds, reservations and joins alone.
LEMMA OtherSteps ==
  ASSUME Crash \/ Environment \/ UNCHANGED vars
  PROVE  /\ UNCHANGED <<cmdVars, domain, disk, seed, joins, resv>>
         /\ \/ pc' = pc /\ faulted' = faulted
            \/ pc' = "failed" /\ faulted' = (cmd = "deploy") /\ UNCHANGED hostVars
BY DEF Crash, Fault, Environment, CpInit, WorkerJoins, BuildTemplate, vars, hostVars, cmdVars

\* Every label stays with its command.
LEMMA RoutedStep ==
  ASSUME Routed, [Next]_vars
  PROVE  Routed'
<1> USE DEF Routed, DeployPcs, SpawnPcs, DestroyPcs, CleanPcs, Ended
<1>1. ASSUME Deploy PROVE Routed'
  BY <1>1, DeployLabels
<1>2. ASSUME Spawn PROVE Routed'
  BY <1>2, SpawnLabels
<1>3. ASSUME Destroy PROVE Routed'
  BY <1>3, DestroyLabels
<1>4. ASSUME Clean PROVE Routed'
  BY <1>4, CleanLabels
<1>5. ASSUME Crash \/ Environment \/ UNCHANGED vars PROVE Routed'
  BY <1>5, OtherSteps DEF cmdVars
<1> QED BY <1>1, <1>2, <1>3, <1>4, <1>5 DEF Next

--------------------------------------------------------------------------------
(* The type invariant.                                                     *)

\* "No cluster" is one of the values a join command or a membership may have.
LEMMA NoGenIsGen == NoGen \in Gens
BY MaxGenAssumption DEF Gens, NoGen

\* How the names of the plans relate.
LEMMA Names ==
  /\ NoGen \in Gens
  /\ CP \in VM /\ Worker \subseteq VM /\ Spawned \subseteq VM /\ Hummingbird \subseteq VM
  /\ CP \notin Worker \cup Spawned /\ DeployVms = {CP} \cup Worker
  /\ DestroyVms \subseteq DeployVms /\ CP \in DestroyVms
BY NoGenIsGen, NamesAssumption DEF VM, DestroyVms, DeployVms

\* A disk that goes takes its join command and its membership along.
LEMMA ForgetType ==
  ASSUME TypeOK, NEW vs, Forget(vs)
  PROVE  joins' \in [VM -> Gens \cup {Misplaced}] /\ member' \in [VM -> Gens]
BY NoGenIsGen DEF TypeOK, Forget

\* A command starts with the types right when its plan is made of VMs.
LEMMA BeginType ==
  ASSUME TypeOK, NEW c \in {"deploy", "spawn", "destroy", "clean"}, NEW first \in VM,
         NEW rest \in SUBSET VM,
         NEW label \in DeployPcs \cup SpawnPcs \cup DestroyPcs \cup CleanPcs,
         Begin(c, first, rest, label)
  PROVE  TypeOK'
<1>1. blocked' \in BOOLEAN
  BY DEF Begin
<1>2. /\ cmd' \in {"none", "deploy", "spawn", "destroy", "clean"}
      /\ pc' \in Ended \cup DeployPcs \cup SpawnPcs \cup DestroyPcs \cup CleanPcs
      /\ vm' \in VM /\ todo' \subseteq VM /\ token' \in Gens /\ found' \subseteq VM
      /\ warned' \in BOOLEAN /\ faulted' \in BOOLEAN
  BY NoGenIsGen DEF Begin
<1>3. UNCHANGED hostVars
  BY DEF Begin
<1> QED BY <1>1, <1>2, <1>3 DEF TypeOK, hostVars

\* A step of deploy-cluster keeps the types.
LEMMA DeployTypeOK ==
  ASSUME TypeOK, Deploy
  PROVE  TypeOK'
<1> USE DEF At, Ok, Fault, Fatal, hostVars, cmdVars, vars, TypeOK, DeployPcs,
  SpawnPcs, DestroyPcs, CleanPcs, Ended
<1>1. ASSUME StartDeploy PROVE TypeOK'
  BY <1>1, Names, BeginType DEF StartDeploy
<1>2. ASSUME CpSeed PROVE TypeOK'
  BY <1>2, Names DEF CpSeed, SeedIso
<1>3. ASSUME Guard PROVE TypeOK'
  BY <1>3, Names DEF Guard, Refuses, Dominfo, Misread
<1>4. ASSUME WorkerSeed PROVE TypeOK'
  BY <1>4, Names DEF WorkerSeed, SeedIso
<1>5. ASSUME Clone PROVE TypeOK'
  BY <1>5, Names, ForgetType DEF Clone, CpReflink
<1>6. ASSUME Reserve PROVE TypeOK'
  BY <1>6, Names DEF Reserve
<1>7. ASSUME Install PROVE TypeOK'
  <2>1. vm' \in VM /\ todo' \subseteq VM
    BY <1>7, Names DEF Install, NextWorker
  <2>2. joins' \in [VM -> Gens \cup {Misplaced}]
    BY <1>7, Names DEF Install, WorkerUserData
  <2>3. faulted' \in BOOLEAN /\ pc' \in {"cpReady", "guard", "nodesReady", "failed"}
    BY <1>7 DEF Install, InstallStep, NextWorker
  <2>4. /\ domain' \in [VM -> {"none", "off", "running"}]
        /\ disk' \in [VM -> {"none", "clone", "own"}]
    BY <1>7 DEF Install, InstallStep, VirtInstall
  <2> QED BY <1>7, <2>1, <2>2, <2>3, <2>4 DEF Install
<1>8. ASSUME CpReady PROVE TypeOK'
  BY <1>8, Names DEF CpReady, Domifaddr
<1>9. ASSUME JoinToken PROVE TypeOK'
  <2>1. token' \in Gens /\ vm' \in VM /\ todo' \subseteq VM
    BY <1>9, Names DEF JoinToken, NextWorker
  <2>2. faulted' \in BOOLEAN /\ pc' \in {"guard", "nodesReady", "failed"}
    BY <1>9 DEF JoinToken, NextWorker
  <2> QED BY <1>9, <2>1, <2>2 DEF JoinToken
<1>10. ASSUME NodesReady PROVE TypeOK'
  BY <1>10, Names DEF NodesReady, NodeReady
<1> QED BY <1>1, <1>2, <1>3, <1>4, <1>5, <1>6, <1>7, <1>8, <1>9, <1>10 DEF Deploy

\* A step of spawn-workers keeps the types.
LEMMA SpawnTypeOK ==
  ASSUME TypeOK, Spawn
  PROVE  TypeOK'
<1> USE DEF At, Ok, Fault, Fatal, hostVars, cmdVars, vars, TypeOK, DeployPcs,
  SpawnPcs, DestroyPcs, CleanPcs, Ended
<1>1. ASSUME StartSpawn PROVE TypeOK'
  BY <1>1, Names, BeginType DEF StartSpawn, SpawnPlan
<1>2. ASSUME CpIp PROVE TypeOK'
  BY <1>2, Names DEF CpIp, Domifaddr
<1>3. ASSUME Template PROVE TypeOK'
  BY <1>3, Names DEF Template
<1>4. ASSUME SpawnGuard PROVE TypeOK'
  BY <1>4, Names, ZenonT(30) DEF SpawnGuard, NextSpawned, StartDomain, Dominfo, Misread
<1>5. ASSUME SpawnClone PROVE TypeOK'
  BY <1>5, Names, ForgetType, ZenonT(30) DEF SpawnClone, CpReflink
<1>6. ASSUME SpawnMint PROVE TypeOK'
  <2>1. token' \in Gens /\ pc' \in {"sInject", "sUndo"}
    BY <1>6, Names DEF SpawnMint
  <2>2. faulted' \in BOOLEAN
    BY <1>6 DEF SpawnMint
  <2> QED BY <1>6, <2>1, <2>2 DEF SpawnMint
<1>7. ASSUME SpawnInject PROVE TypeOK'
  BY <1>7, ZenonT(30) DEF SpawnInject, InjectFailure
<1>8. ASSUME SpawnUndo PROVE TypeOK'
  BY <1>8, Names, ForgetType, SMTT(30) DEF SpawnUndo, RemoveDisk
<1>9. ASSUME SpawnInstall PROVE TypeOK'
  BY <1>9, Names, ZenonT(30) DEF SpawnInstall, VirtInstall, NextSpawned
<1>10. ASSUME SpawnSwitch PROVE TypeOK'
  BY <1>10, Names DEF SpawnSwitch
<1> QED BY <1>1, <1>2, <1>3, <1>4, <1>5, <1>6, <1>7, <1>8, <1>9, <1>10 DEF Spawn

\* A step of destroy-cluster keeps the types.
LEMMA DestroyTypeOK ==
  ASSUME TypeOK, Destroy
  PROVE  TypeOK'
<1> USE DEF At, Ok, Fault, Fatal, hostVars, cmdVars, vars, TypeOK, DeployPcs,
  SpawnPcs, DestroyPcs, CleanPcs, Ended
<1>1. ASSUME StartDestroy PROVE TypeOK'
  BY <1>1, Names, BeginType DEF StartDestroy, DeployVms
<1>2. ASSUME Probe PROVE TypeOK'
  BY <1>2, Names DEF Probe, Dominfo, Misread
<1>3. ASSUME Kill PROVE TypeOK'
  BY <1>3, Names DEF Kill, DestroyDomain, Warn
<1>4. ASSUME Undefine PROVE TypeOK'
  BY <1>4, Names DEF Undefine, UndefineDomain, Warn
<1>5. ASSUME Unreserve PROVE TypeOK'
  BY <1>5, Names DEF Unreserve, Reservation, Warn
<1>6. ASSUME RmDisk PROVE TypeOK'
  BY <1>6, Names, ForgetType DEF RmDisk, RemoveDisk, Warn
<1>7. ASSUME RmSeed PROVE TypeOK'
  BY <1>7, Names DEF RmSeed, ExitStatus, Warn
<1> QED BY <1>1, <1>2, <1>3, <1>4, <1>5, <1>6, <1>7 DEF Destroy

\* A step of clean-vms keeps the types.
LEMMA CleanTypeOK ==
  ASSUME TypeOK, Clean
  PROVE  TypeOK'
<1> USE DEF At, Ok, Fault, Fatal, hostVars, cmdVars, vars, TypeOK, DeployPcs,
  SpawnPcs, DestroyPcs, CleanPcs, Ended
<1>1. ASSUME StartClean PROVE TypeOK'
  BY <1>1, Names, BeginType DEF StartClean
<1>2. ASSUME List PROVE TypeOK'
  BY <1>2, Names DEF List
<1>3. ASSUME CleanKill PROVE TypeOK'
  BY <1>3, Names DEF CleanKill, DestroyDomain
<1>4. ASSUME CleanUndefine PROVE TypeOK'
  BY <1>4, Names, ForgetType DEF CleanUndefine, UndefineWithStorage, RemoveDisk
<1>5. ASSUME Sweep PROVE TypeOK'
  BY <1>5, Names, ForgetType DEF Sweep, IsStraggler
<1>6. ASSUME Refresh PROVE TypeOK'
  BY <1>6, Names DEF Refresh
<1> QED BY <1>1, <1>2, <1>3, <1>4, <1>5, <1>6 DEF Clean

\* A step of the VMs and the image build keeps the types.
LEMMA EnvironmentTypeOK ==
  ASSUME TypeOK, Environment
  PROVE  TypeOK'
<1> USE DEF At, Ok, Fault, Fatal, hostVars, cmdVars, vars, TypeOK, DeployPcs,
  SpawnPcs, DestroyPcs, CleanPcs, Ended
<1>1. ASSUME CpInit PROVE TypeOK'
  BY <1>1, Names DEF CpInit
<1>2. ASSUME NEW v \in VM \ {CP}, WorkerJoins(v) PROVE TypeOK'
  BY <1>2, Names DEF WorkerJoins
<1>3. ASSUME BuildTemplate PROVE TypeOK'
  BY <1>3, Names DEF BuildTemplate
<1> QED BY <1>1, <1>2, <1>3 DEF Environment
--------------------------------------------------------------------------------
(* The VM at hand belongs to the plan.                                     *)

\* A step of deploy-cluster stays within its plan.
LEMMA DeployPlaced ==
  ASSUME TypeOK, Routed, Placed, Deploy
  PROVE  Placed'
<1> USE DEF At, Ok, Fault, Fatal, hostVars, cmdVars, vars, Routed, Placed, DeployPcs,
  SpawnPcs, DestroyPcs, CleanPcs, Ended
<1>1. ASSUME StartDeploy PROVE Placed'
  BY <1>1, Names DEF StartDeploy, Begin
<1>2. ASSUME CpSeed PROVE Placed'
  BY <1>2, Names DEF CpSeed, SeedIso
<1>3. ASSUME Guard PROVE Placed'
  BY <1>3, Names DEF Guard, Refuses, Dominfo, Misread
<1>4. ASSUME WorkerSeed PROVE Placed'
  BY <1>4, Names DEF WorkerSeed, SeedIso
<1>5. ASSUME Clone PROVE Placed'
  BY <1>5, Names DEF Clone, CpReflink, Forget
<1>6. ASSUME Reserve PROVE Placed'
  BY <1>6, Names DEF Reserve
<1>7. ASSUME Install PROVE Placed'
  BY <1>7, Names DEF Install, InstallStep, VirtInstall, WorkerUserData, NextWorker
<1>8. ASSUME CpReady PROVE Placed'
  BY <1>8, Names DEF CpReady, Domifaddr
<1>9. ASSUME JoinToken PROVE Placed'
  BY <1>9, Names DEF JoinToken, NextWorker
<1>10. ASSUME NodesReady PROVE Placed'
  BY <1>10, Names DEF NodesReady, NodeReady
<1> QED BY <1>1, <1>2, <1>3, <1>4, <1>5, <1>6, <1>7, <1>8, <1>9, <1>10 DEF Deploy

\* A step of spawn-workers stays within its plan.
LEMMA SpawnPlaced ==
  ASSUME TypeOK, Routed, Placed, Spawn
  PROVE  Placed'
<1> USE DEF At, Ok, Fault, Fatal, hostVars, cmdVars, vars, Routed, Placed, DeployPcs,
  SpawnPcs, DestroyPcs, CleanPcs, Ended
<1>1. ASSUME StartSpawn PROVE Placed'
  BY <1>1, Names DEF StartSpawn, SpawnPlan, Begin
<1>2. ASSUME CpIp PROVE Placed'
  BY <1>2, Names DEF CpIp, Domifaddr
<1>3. ASSUME Template PROVE Placed'
  BY <1>3, Names DEF Template
<1>4. ASSUME SpawnGuard PROVE Placed'
  BY <1>4, Names DEF SpawnGuard, NextSpawned, StartDomain, Dominfo, Misread
<1>5. ASSUME SpawnClone PROVE Placed'
  BY <1>5, Names DEF SpawnClone, CpReflink, Forget
<1>6. ASSUME SpawnMint PROVE Placed'
  BY <1>6, Names DEF SpawnMint
<1>7. ASSUME SpawnInject PROVE Placed'
  BY <1>7, Names DEF SpawnInject, InjectFailure
<1>8. ASSUME SpawnUndo PROVE Placed'
  BY <1>8, Names DEF SpawnUndo, RemoveDisk, Forget
<1>9. ASSUME SpawnInstall PROVE Placed'
  BY <1>9, Names DEF SpawnInstall, VirtInstall, NextSpawned
<1>10. ASSUME SpawnSwitch PROVE Placed'
  BY <1>10, Names DEF SpawnSwitch
<1> QED BY <1>1, <1>2, <1>3, <1>4, <1>5, <1>6, <1>7, <1>8, <1>9, <1>10 DEF Spawn

\* A step of destroy-cluster stays within its plan.
LEMMA DestroyPlaced ==
  ASSUME TypeOK, Routed, Placed, Destroy
  PROVE  Placed'
<1> USE DEF At, Ok, Fault, Fatal, hostVars, cmdVars, vars, Routed, Placed, DeployPcs,
  SpawnPcs, DestroyPcs, CleanPcs, Ended
<1>1. ASSUME StartDestroy PROVE Placed'
  BY <1>1, Names DEF StartDestroy, Begin
<1>2. ASSUME Probe PROVE Placed'
  BY <1>2, Names DEF Probe, Dominfo, Misread
<1>3. ASSUME Kill PROVE Placed'
  BY <1>3, Names DEF Kill, DestroyDomain, Warn
<1>4. ASSUME Undefine PROVE Placed'
  BY <1>4, Names DEF Undefine, UndefineDomain, Warn
<1>5. ASSUME Unreserve PROVE Placed'
  BY <1>5, Names DEF Unreserve, Reservation, Warn
<1>6. ASSUME RmDisk PROVE Placed'
  BY <1>6, Names DEF RmDisk, RemoveDisk, Forget, Warn
<1>7. ASSUME RmSeed PROVE Placed'
  BY <1>7, Names DEF RmSeed, ExitStatus, Warn
<1> QED BY <1>1, <1>2, <1>3, <1>4, <1>5, <1>6, <1>7 DEF Destroy

\* A step of clean-vms stays within its plan.
LEMMA CleanPlaced ==
  ASSUME TypeOK, Routed, Placed, Clean
  PROVE  Placed'
<1> USE DEF At, Ok, Fault, Fatal, hostVars, cmdVars, vars, Routed, Placed, DeployPcs,
  SpawnPcs, DestroyPcs, CleanPcs, Ended
<1>1. ASSUME StartClean PROVE Placed'
  BY <1>1, Names DEF StartClean, Begin
<1>2. ASSUME List PROVE Placed'
  BY <1>2, Names DEF List
<1>3. ASSUME CleanKill PROVE Placed'
  BY <1>3, Names DEF CleanKill, DestroyDomain
<1>4. ASSUME CleanUndefine PROVE Placed'
  BY <1>4, Names DEF CleanUndefine, UndefineWithStorage, RemoveDisk, Forget
<1>5. ASSUME Sweep PROVE Placed'
  BY <1>5, Names DEF Sweep, IsStraggler, Forget
<1>6. ASSUME Refresh PROVE Placed'
  BY <1>6, Names DEF Refresh
<1> QED BY <1>1, <1>2, <1>3, <1>4, <1>5, <1>6 DEF Clean

\* Every step stays within the plan.
LEMMA PlacedStep ==
  ASSUME TypeOK, Routed, Placed, [Next]_vars
  PROVE  Placed'
<1>1. ASSUME Crash \/ Environment \/ UNCHANGED vars PROVE Placed'
  BY <1>1, OtherSteps DEF Placed, cmdVars
<1> QED BY <1>1, DeployPlaced, SpawnPlaced, DestroyPlaced, CleanPlaced DEF Next

\* clean-vms goes through defined VMs only, each of them once.
LEMMA CleanListed ==
  ASSUME TypeOK, Routed, Placed, Listed, Clean
  PROVE  Listed'
<1> USE DEF At, Ok, Fault, Fatal, hostVars, cmdVars, vars, TypeOK, Routed, Placed,
  Listed, Defined, DeployPcs, SpawnPcs, DestroyPcs, CleanPcs, Ended
<1>1. ASSUME StartClean PROVE Listed'
  BY <1>1, NamesAssumption DEF StartClean, Begin
<1>2. ASSUME List PROVE Listed'
  BY <1>2, NamesAssumption DEF List
<1>3. ASSUME CleanKill PROVE Listed'
  BY <1>3, NamesAssumption DEF CleanKill, DestroyDomain
<1>4. ASSUME CleanUndefine PROVE Listed'
  BY <1>4, NamesAssumption DEF CleanUndefine, UndefineWithStorage, RemoveDisk, Forget
<1>5. ASSUME Sweep PROVE Listed'
  BY <1>5, NamesAssumption DEF Sweep, IsStraggler, Forget
<1>6. ASSUME Refresh PROVE Listed'
  BY <1>6, NamesAssumption DEF Refresh
<1> QED BY <1>1, <1>2, <1>3, <1>4, <1>5, <1>6 DEF Clean

\* Every step keeps it.
LEMMA ListedStep ==
  ASSUME TypeOK, Routed, Placed, Listed, [Next]_vars
  PROVE  Listed'
<1> USE DEF Listed, Defined, DeployPcs, SpawnPcs, DestroyPcs, CleanPcs, Ended
<1>1. ASSUME Deploy \/ Spawn \/ Destroy PROVE Listed'
  BY <1>1, DeployLabels, SpawnLabels, DestroyLabels
<1>2. ASSUME Crash \/ Environment \/ UNCHANGED vars PROVE Listed'
  BY <1>2, OtherSteps DEF cmdVars
<1> QED BY <1>1, <1>2, CleanListed DEF Next
--------------------------------------------------------------------------------
(* Join commands.                                                          *)

\* A step of deploy-cluster has a cluster to join whenever a worker is at hand.
LEMMA DeployTokens ==
  ASSUME TypeOK, Routed, Placed, Tokens, Deploy
  PROVE  Tokens'
<1> USE DEF At, Ok, Fault, Fatal, hostVars, cmdVars, vars, TypeOK, Routed, Placed,
  Tokens, DeployPcs, SpawnPcs, DestroyPcs, CleanPcs, Ended
<1>1. ASSUME StartDeploy PROVE Tokens'
  BY <1>1, Names DEF StartDeploy, Begin
<1>2. ASSUME CpSeed PROVE Tokens'
  BY <1>2, Names DEF CpSeed, SeedIso
<1>3. ASSUME Guard PROVE Tokens'
  BY <1>3, Names DEF Guard, Refuses, Dominfo, Misread
<1>4. ASSUME WorkerSeed PROVE Tokens'
  BY <1>4, Names DEF WorkerSeed, SeedIso
<1>5. ASSUME Clone PROVE Tokens'
  BY <1>5, Names DEF Clone, CpReflink, Forget
<1>6. ASSUME Reserve PROVE Tokens'
  BY <1>6, Names DEF Reserve
<1>7. ASSUME Install PROVE Tokens'
  BY <1>7, Names DEF Install, InstallStep, VirtInstall, WorkerUserData, NextWorker
<1>8. ASSUME CpReady PROVE Tokens'
  BY <1>8, Names DEF CpReady, Domifaddr
<1>9. ASSUME JoinToken PROVE Tokens'
  BY <1>9, Names DEF JoinToken, NextWorker
<1>10. ASSUME NodesReady PROVE Tokens'
  BY <1>10, Names DEF NodesReady, NodeReady
<1> QED BY <1>1, <1>2, <1>3, <1>4, <1>5, <1>6, <1>7, <1>8, <1>9, <1>10 DEF Deploy

\* A step of deploy-cluster leaves the VM at hand undefined past the guard.
LEMMA DeployCleared ==
  ASSUME "misread" \notin Faults, TypeOK, Routed, Cleared, Deploy
  PROVE  Cleared'
<1> USE DEF At, Ok, Fault, Fatal, hostVars, cmdVars, vars, TypeOK, Routed, Cleared,
  Defined, GuardedPcs, DeployPcs, SpawnPcs, DestroyPcs, CleanPcs, Ended
<1>1. ASSUME StartDeploy PROVE Cleared'
  BY <1>1 DEF StartDeploy, Begin
<1>2. ASSUME CpSeed PROVE Cleared'
  BY <1>2 DEF CpSeed, SeedIso
<1>3. ASSUME Guard PROVE Cleared'
  BY <1>3 DEF Guard, Refuses, Dominfo, Misread
<1>4. ASSUME WorkerSeed PROVE Cleared'
  BY <1>4 DEF WorkerSeed, SeedIso
<1>5. ASSUME Clone PROVE Cleared'
  BY <1>5 DEF Clone, CpReflink, Forget
<1>6. ASSUME Reserve PROVE Cleared'
  BY <1>6 DEF Reserve
<1>7. ASSUME Install PROVE Cleared'
  BY <1>7 DEF Install, InstallStep, VirtInstall, WorkerUserData, NextWorker
<1>8. ASSUME CpReady PROVE Cleared'
  BY <1>8 DEF CpReady, Domifaddr
<1>9. ASSUME JoinToken PROVE Cleared'
  BY <1>9 DEF JoinToken, NextWorker
<1>10. ASSUME NodesReady PROVE Cleared'
  BY <1>10 DEF NodesReady, NodeReady
<1> QED BY <1>1, <1>2, <1>3, <1>4, <1>5, <1>6, <1>7, <1>8, <1>9, <1>10 DEF Deploy

\* A step of spawn-workers has a cluster to join whenever a worker is at hand.
LEMMA SpawnTokens ==
  ASSUME TypeOK, Routed, Placed, Tokens, Spawn
  PROVE  Tokens'
<1> USE DEF At, Ok, Fault, Fatal, hostVars, cmdVars, vars, TypeOK, Routed, Placed,
  Tokens, DeployPcs, SpawnPcs, DestroyPcs, CleanPcs, Ended
<1>1. ASSUME StartSpawn PROVE Tokens'
  BY <1>1, Names DEF StartSpawn, SpawnPlan, Begin
<1>2. ASSUME CpIp PROVE Tokens'
  BY <1>2, Names DEF CpIp, Domifaddr
<1>3. ASSUME Template PROVE Tokens'
  BY <1>3, Names DEF Template
<1>4. ASSUME SpawnGuard PROVE Tokens'
  BY <1>4, Names DEF SpawnGuard, NextSpawned, StartDomain, Dominfo, Misread
<1>5. ASSUME SpawnClone PROVE Tokens'
  BY <1>5, Names DEF SpawnClone, CpReflink, Forget
<1>6. ASSUME SpawnMint PROVE Tokens'
  BY <1>6, Names DEF SpawnMint
<1>7. ASSUME SpawnInject PROVE Tokens'
  <2>1. pc' = "sInstall" => \/ joins'[vm] \in Gens \ {NoGen}
                            \/ joins'[vm] = Misplaced /\ "discover" \in Faults
    BY <1>7 DEF SpawnInject, InjectFailure
  <2>2. pc' \in {"sInstall", "sUndo"} /\ vm' = vm
    BY <1>7 DEF SpawnInject, InjectFailure
  <2> QED BY <2>1, <2>2
<1>8. ASSUME SpawnUndo PROVE Tokens'
  BY <1>8, Names DEF SpawnUndo, RemoveDisk, Forget
<1>9. ASSUME SpawnInstall PROVE Tokens'
  BY <1>9, Names DEF SpawnInstall, VirtInstall, NextSpawned
<1>10. ASSUME SpawnSwitch PROVE Tokens'
  BY <1>10, Names DEF SpawnSwitch
<1> QED BY <1>1, <1>2, <1>3, <1>4, <1>5, <1>6, <1>7, <1>8, <1>9, <1>10 DEF Spawn

\* A step of spawn-workers leaves the VM at hand undefined past the guard.
LEMMA SpawnCleared ==
  ASSUME "misread" \notin Faults, TypeOK, Routed, Cleared, Spawn
  PROVE  Cleared'
<1> USE DEF At, Ok, Fault, Fatal, hostVars, cmdVars, vars, TypeOK, Routed, Cleared,
  Defined, GuardedPcs, DeployPcs, SpawnPcs, DestroyPcs, CleanPcs, Ended
<1>1. ASSUME StartSpawn PROVE Cleared'
  BY <1>1 DEF StartSpawn, SpawnPlan, Begin
<1>2. ASSUME CpIp PROVE Cleared'
  BY <1>2 DEF CpIp, Domifaddr
<1>3. ASSUME Template PROVE Cleared'
  BY <1>3 DEF Template
<1>4. ASSUME SpawnGuard PROVE Cleared'
  BY <1>4 DEF SpawnGuard, NextSpawned, StartDomain, Dominfo, Misread
<1>5. ASSUME SpawnClone PROVE Cleared'
  BY <1>5 DEF SpawnClone, CpReflink, Forget
<1>6. ASSUME SpawnMint PROVE Cleared'
  BY <1>6 DEF SpawnMint
<1>7. ASSUME SpawnInject PROVE Cleared'
  BY <1>7 DEF SpawnInject, InjectFailure
<1>8. ASSUME SpawnUndo PROVE Cleared'
  BY <1>8 DEF SpawnUndo, RemoveDisk, Forget
<1>9. ASSUME SpawnInstall PROVE Cleared'
  BY <1>9 DEF SpawnInstall, VirtInstall, NextSpawned
<1>10. ASSUME SpawnSwitch PROVE Cleared'
  BY <1>10 DEF SpawnSwitch
<1> QED BY <1>1, <1>2, <1>3, <1>4, <1>5, <1>6, <1>7, <1>8, <1>9, <1>10 DEF Spawn

\* Every step has a cluster to join whenever a worker is at hand.
LEMMA TokensStep ==
  ASSUME TypeOK, Routed, Placed, Tokens, [Next]_vars
  PROVE  Tokens'
<1> USE DEF Tokens, DeployPcs, SpawnPcs, DestroyPcs, CleanPcs, Ended
<1>1. ASSUME Destroy PROVE Tokens'
  BY <1>1, DestroyLabels
<1>2. ASSUME Clean PROVE Tokens'
  BY <1>2, CleanLabels
<1>3. ASSUME Environment PROVE Tokens'
  BY <1>3, OtherSteps
  DEF Environment, CpInit, WorkerJoins, BuildTemplate, cmdVars, TypeOK, hostVars, VM
<1>4. ASSUME Crash \/ UNCHANGED vars PROVE Tokens'
  BY <1>4 DEF Crash, Fault, vars, hostVars, cmdVars
<1> QED BY <1>1, <1>2, <1>3, <1>4, DeployTokens, SpawnTokens DEF Next

\* Every step leaves the VM at hand undefined past the guard, if dominfo is not misread.
LEMMA ClearedStep ==
  ASSUME "misread" \notin Faults, TypeOK, Routed, Cleared, [Next]_vars
  PROVE  Cleared'
<1> USE DEF Cleared, Defined, GuardedPcs, DeployPcs, SpawnPcs, DestroyPcs, CleanPcs, Ended
<1>1. ASSUME Destroy PROVE Cleared'
  BY <1>1, DestroyLabels
<1>2. ASSUME Clean PROVE Cleared'
  BY <1>2, CleanLabels
<1>3. ASSUME Crash \/ Environment \/ UNCHANGED vars PROVE Cleared'
  BY <1>3, OtherSteps DEF cmdVars
<1> QED BY <1>1, <1>2, <1>3, DeployCleared, SpawnCleared DEF Next

\* A step of deploy-cluster installs no worker without a join command.
LEMMA DeployJoins ==
  ASSUME TypeOK, Placed, Listed, Tokens, Cleared,
         NoWorkerWithoutJoin, Deploy
  PROVE  NoWorkerWithoutJoin'
<1> USE DEF At, Ok, Fault, Fatal, hostVars, cmdVars, vars, TypeOK, Defined,
  NoWorkerWithoutJoin
<1>1. ASSUME StartDeploy PROVE NoWorkerWithoutJoin'
  BY <1>1 DEF StartDeploy, Begin
<1>2. ASSUME CpSeed PROVE NoWorkerWithoutJoin'
  BY <1>2 DEF CpSeed, SeedIso
<1>3. ASSUME Guard PROVE NoWorkerWithoutJoin'
  BY <1>3 DEF Guard, Refuses, Dominfo, Misread
<1>4. ASSUME WorkerSeed PROVE NoWorkerWithoutJoin'
  BY <1>4 DEF WorkerSeed, SeedIso
<1>5. ASSUME Clone PROVE NoWorkerWithoutJoin'
  BY <1>5 DEF Clone, CpReflink, Forget, Placed, Tokens, Cleared, GuardedPcs
<1>6. ASSUME Reserve PROVE NoWorkerWithoutJoin'
  BY <1>6 DEF Reserve
<1>7. ASSUME Install PROVE NoWorkerWithoutJoin'
  BY <1>7 DEF Install, InstallStep, VirtInstall, WorkerUserData, NextWorker, Placed,
    Tokens, Cleared, GuardedPcs
<1>8. ASSUME CpReady PROVE NoWorkerWithoutJoin'
  BY <1>8 DEF CpReady, Domifaddr
<1>9. ASSUME JoinToken PROVE NoWorkerWithoutJoin'
  BY <1>9 DEF JoinToken, NextWorker
<1>10. ASSUME NodesReady PROVE NoWorkerWithoutJoin'
  BY <1>10 DEF NodesReady, NodeReady
<1> QED BY <1>1, <1>2, <1>3, <1>4, <1>5, <1>6, <1>7, <1>8, <1>9, <1>10 DEF Deploy

\* A step of spawn-workers installs no worker without a join command.
LEMMA SpawnJoins ==
  ASSUME TypeOK, Routed, Placed, Listed, Tokens, Cleared,
         NoWorkerWithoutJoin, Spawn
  PROVE  NoWorkerWithoutJoin'
<1> USE DEF At, Ok, Fault, Fatal, hostVars, cmdVars, vars, TypeOK, Defined,
  NoWorkerWithoutJoin
<1>1. ASSUME StartSpawn PROVE NoWorkerWithoutJoin'
  BY <1>1 DEF StartSpawn, SpawnPlan, Begin
<1>2. ASSUME CpIp PROVE NoWorkerWithoutJoin'
  BY <1>2 DEF CpIp, Domifaddr
<1>3. ASSUME Template PROVE NoWorkerWithoutJoin'
  BY <1>3 DEF Template
<1>4. ASSUME SpawnGuard PROVE NoWorkerWithoutJoin'
  BY <1>4 DEF SpawnGuard, NextSpawned, StartDomain, Dominfo, Misread
<1>5. ASSUME SpawnClone PROVE NoWorkerWithoutJoin'
  BY <1>5 DEF SpawnClone, CpReflink, Forget, Placed, Tokens, Cleared, GuardedPcs
<1>6. ASSUME SpawnMint PROVE NoWorkerWithoutJoin'
  BY <1>6 DEF SpawnMint
<1>7. ASSUME SpawnInject PROVE NoWorkerWithoutJoin'
  BY <1>7 DEF SpawnInject, InjectFailure, Placed, Tokens, Cleared, GuardedPcs
<1>8. ASSUME SpawnUndo PROVE NoWorkerWithoutJoin'
  BY <1>8 DEF SpawnUndo, RemoveDisk, Forget
<1>9. ASSUME SpawnInstall PROVE NoWorkerWithoutJoin'
  <2>1. vm \in Spawned /\ vm \in VM
    BY <1>9 DEF SpawnInstall, Routed, Placed, SpawnPcs
  <2> QED
    BY <1>9, <2>1 DEF SpawnInstall, VirtInstall, NextSpawned, Tokens
<1>10. ASSUME SpawnSwitch PROVE NoWorkerWithoutJoin'
  BY <1>10 DEF SpawnSwitch
<1> QED BY <1>1, <1>2, <1>3, <1>4, <1>5, <1>6, <1>7, <1>8, <1>9, <1>10 DEF Spawn

\* A step of destroy-cluster installs no worker without a join command.
LEMMA DestroyJoins ==
  ASSUME TypeOK, Placed, Listed, Tokens, Cleared,
         NoWorkerWithoutJoin, Destroy
  PROVE  NoWorkerWithoutJoin'
<1> USE DEF At, Ok, Fault, Fatal, hostVars, cmdVars, vars, TypeOK, Defined,
  NoWorkerWithoutJoin
<1>1. ASSUME StartDestroy PROVE NoWorkerWithoutJoin'
  BY <1>1 DEF StartDestroy, Begin
<1>2. ASSUME Probe PROVE NoWorkerWithoutJoin'
  BY <1>2 DEF Probe, Dominfo, Misread
<1>3. ASSUME Kill PROVE NoWorkerWithoutJoin'
  BY <1>3 DEF Kill, DestroyDomain, Warn
<1>4. ASSUME Undefine PROVE NoWorkerWithoutJoin'
  BY <1>4 DEF Undefine, UndefineDomain, Warn
<1>5. ASSUME Unreserve PROVE NoWorkerWithoutJoin'
  BY <1>5 DEF Unreserve, Reservation, Warn
<1>6. ASSUME RmDisk PROVE NoWorkerWithoutJoin'
  BY <1>6 DEF RmDisk, RemoveDisk, Forget, Warn
<1>7. ASSUME RmSeed PROVE NoWorkerWithoutJoin'
  BY <1>7 DEF RmSeed, ExitStatus, Warn
<1> QED BY <1>1, <1>2, <1>3, <1>4, <1>5, <1>6, <1>7 DEF Destroy

\* A step of clean-vms installs no worker without a join command.
LEMMA CleanJoins ==
  ASSUME TypeOK, Placed, Listed, Tokens, Cleared,
         NoWorkerWithoutJoin, Clean
  PROVE  NoWorkerWithoutJoin'
<1> USE DEF At, Ok, Fault, Fatal, hostVars, cmdVars, vars, TypeOK, Defined,
  NoWorkerWithoutJoin
<1>1. ASSUME StartClean PROVE NoWorkerWithoutJoin'
  BY <1>1 DEF StartClean, Begin
<1>2. ASSUME List PROVE NoWorkerWithoutJoin'
  BY <1>2 DEF List
<1>3. ASSUME CleanKill PROVE NoWorkerWithoutJoin'
  BY <1>3 DEF CleanKill, DestroyDomain, Listed
<1>4. ASSUME CleanUndefine PROVE NoWorkerWithoutJoin'
  BY <1>4 DEF CleanUndefine, UndefineWithStorage, RemoveDisk, Forget
<1>5. ASSUME Sweep PROVE NoWorkerWithoutJoin'
  BY <1>5 DEF Sweep, IsStraggler, Forget
<1>6. ASSUME Refresh PROVE NoWorkerWithoutJoin'
  BY <1>6 DEF Refresh
<1> QED BY <1>1, <1>2, <1>3, <1>4, <1>5, <1>6 DEF Clean

\* A step of the VMs and the image build installs no worker without a join command.
LEMMA EnvironmentJoins ==
  ASSUME TypeOK, Placed, Listed, Tokens, Cleared,
         NoWorkerWithoutJoin, Environment
  PROVE  NoWorkerWithoutJoin'
<1> USE DEF At, Ok, Fault, Fatal, hostVars, cmdVars, vars, TypeOK, Defined,
  NoWorkerWithoutJoin
<1>1. ASSUME CpInit PROVE NoWorkerWithoutJoin'
  BY <1>1 DEF CpInit
<1>2. ASSUME NEW v \in VM \ {CP}, WorkerJoins(v) PROVE NoWorkerWithoutJoin'
  BY <1>2 DEF WorkerJoins
<1>3. ASSUME BuildTemplate PROVE NoWorkerWithoutJoin'
  BY <1>3 DEF BuildTemplate
<1> QED BY <1>1, <1>2, <1>3 DEF Environment

--------------------------------------------------------------------------------
(* deploy-cluster delivers.                                                *)

\* A step of deploy-cluster ends the wait for a node only when it is in the cluster.
LEMMA DeployPolled ==
  ASSUME TypeOK, Routed, Placed, Polled, Deploy
  PROVE  Polled'
<1> USE DEF At, Ok, Fault, Fatal, hostVars, cmdVars, vars, TypeOK, Routed, Placed,
  Polled, InCluster, DeployVms, DeployPcs, SpawnPcs, DestroyPcs, CleanPcs, Ended
<1>1. ASSUME StartDeploy PROVE Polled'
  BY <1>1, Names DEF StartDeploy, Begin
<1>2. ASSUME CpSeed PROVE Polled'
  BY <1>2, Names DEF CpSeed, SeedIso
<1>3. ASSUME Guard PROVE Polled'
  BY <1>3, Names DEF Guard, Refuses, Dominfo, Misread
<1>4. ASSUME WorkerSeed PROVE Polled'
  BY <1>4, Names DEF WorkerSeed, SeedIso
<1>5. ASSUME Clone PROVE Polled'
  BY <1>5, Names DEF Clone, CpReflink, Forget
<1>6. ASSUME Reserve PROVE Polled'
  BY <1>6, Names DEF Reserve
<1>7. ASSUME Install PROVE Polled'
  BY <1>7, Names DEF Install, InstallStep, VirtInstall, WorkerUserData, NextWorker
<1>8. ASSUME CpReady PROVE Polled'
  BY <1>8, Names DEF CpReady, Domifaddr
<1>9. ASSUME JoinToken PROVE Polled'
  BY <1>9, Names DEF JoinToken, NextWorker
<1>10. ASSUME NodesReady PROVE Polled'
  BY <1>10, Names DEF NodesReady, NodeReady
<1> QED BY <1>1, <1>2, <1>3, <1>4, <1>5, <1>6, <1>7, <1>8, <1>9, <1>10 DEF Deploy

\* Every step keeps it.
LEMMA PolledStep ==
  ASSUME TypeOK, Routed, Placed, Polled, [Next]_vars
  PROVE  Polled'
<1> USE DEF Polled, InCluster, DeployVms, DeployPcs, SpawnPcs, DestroyPcs, CleanPcs, Ended
<1>1. ASSUME Spawn \/ Destroy \/ Clean PROVE Polled'
  BY <1>1, SpawnLabels, DestroyLabels, CleanLabels
<1>2. ASSUME Crash \/ UNCHANGED vars PROVE Polled'
  BY <1>2 DEF Crash, Fault, vars, hostVars, cmdVars
<1>3. ASSUME Environment PROVE Polled'
  BY <1>3, OtherSteps, NamesAssumption
  DEF Environment, CpInit, WorkerJoins, BuildTemplate, cmdVars, hostVars, TypeOK, Placed, VM, Routed
<1> QED BY <1>1, <1>2, <1>3, DeployPolled DEF Next

\* A step of deploy-cluster defines no VM but the one at hand.
LEMMA DeployUnbooted ==
  ASSUME TypeOK, Routed, Placed, Unbooted, Deploy
  PROVE  Unbooted'
<1> USE DEF At, Ok, Fault, Fatal, hostVars, cmdVars, vars, TypeOK, Routed, Placed,
  Unbooted, Defined, BootPcs, DeployVms, DeployPcs, SpawnPcs, DestroyPcs, CleanPcs,
  Ended
<1>1. ASSUME StartDeploy PROVE Unbooted'
  BY <1>1, Names DEF StartDeploy, Begin
<1>2. ASSUME CpSeed PROVE Unbooted'
  BY <1>2, Names DEF CpSeed, SeedIso
<1>3. ASSUME Guard PROVE Unbooted'
  BY <1>3, Names DEF Guard, Refuses, Dominfo, Misread
<1>4. ASSUME WorkerSeed PROVE Unbooted'
  BY <1>4, Names DEF WorkerSeed, SeedIso
<1>5. ASSUME Clone PROVE Unbooted'
  BY <1>5, Names DEF Clone, CpReflink, Forget
<1>6. ASSUME Reserve PROVE Unbooted'
  BY <1>6, Names DEF Reserve
<1>7. ASSUME Install PROVE Unbooted'
  <2> SUFFICES ASSUME cmd = "deploy", ~blocked PROVE Unbooted'
    BY <1>7 DEF Install
  <2>1. ~Defined(vm) /\ vm \in VM /\ vm \notin todo /\ \A v \in todo : v \in VM /\ ~Defined(v)
    BY <1>7, Names DEF Install
  <2>2. \/ domain' = [domain EXCEPT ![vm] = "running"] /\ faulted' = faulted
           /\ \/ pc' = "cpReady" /\ vm' = vm /\ todo' = todo
              \/ pc' = "guard" /\ vm' \in todo /\ todo' = todo \ {vm'}
              \/ pc' = "nodesReady"
        \/ pc' = "failed" /\ faulted' = TRUE
    BY <1>7, <2>1, ZenonT(30) DEF Install, InstallStep, VirtInstall, NextWorker
  <2> QED BY <2>1, <2>2, SMTT(30)
<1>8. ASSUME CpReady PROVE Unbooted'
  BY <1>8, Names DEF CpReady, Domifaddr
<1>9. ASSUME JoinToken PROVE Unbooted'
  BY <1>9, Names DEF JoinToken, NextWorker
<1>10. ASSUME NodesReady PROVE Unbooted'
  BY <1>10, Names DEF NodesReady, NodeReady
<1> QED BY <1>1, <1>2, <1>3, <1>4, <1>5, <1>6, <1>7, <1>8, <1>9, <1>10 DEF Deploy

\* Every step keeps it.
LEMMA UnbootedStep ==
  ASSUME TypeOK, Routed, Placed, Unbooted, [Next]_vars
  PROVE  Unbooted'
<1> USE DEF Unbooted, BootPcs, Defined, DeployPcs, SpawnPcs, DestroyPcs, CleanPcs, Ended
<1>1. ASSUME Spawn \/ Destroy \/ Clean PROVE Unbooted'
  BY <1>1, SpawnLabels, DestroyLabels, CleanLabels
<1>2. ASSUME Crash \/ UNCHANGED vars PROVE Unbooted'
  BY <1>2 DEF Crash, Fault, vars, hostVars, cmdVars
<1>3. ASSUME Environment PROVE Unbooted'
  BY <1>3, OtherSteps, NamesAssumption
  DEF Environment, CpInit, WorkerJoins, BuildTemplate, cmdVars, hostVars, TypeOK, Placed, VM, Routed
<1> QED BY <1>1, <1>2, <1>3, DeployUnbooted DEF Next

--------------------------------------------------------------------------------
(* destroy-cluster leaves nothing.                                         *)

\* A step of destroy-cluster removes what it has passed, or warns.
LEMMA DestroyDestroyed ==
  ASSUME "misread" \notin Faults, "dump" \notin Faults, TypeOK, Routed, Placed,
         Destroyed, Destroy
  PROVE  Destroyed'
<1> USE DEF At, Ok, Fault, Fatal, hostVars, cmdVars, vars, TypeOK, Routed, Placed,
  Destroyed, Undone, Removed, Erased, Defined, DeployPcs, SpawnPcs, DestroyPcs,
  CleanPcs, Ended
<1>1. ASSUME StartDestroy PROVE Destroyed'
  BY <1>1, Names DEF StartDestroy, Begin
<1>2. ASSUME Probe PROVE Destroyed'
  BY <1>2, Names DEF Probe, Dominfo, Misread
<1>3. ASSUME Kill PROVE Destroyed'
  BY <1>3, Names DEF Kill, DestroyDomain, Warn
<1>4. ASSUME Undefine PROVE Destroyed'
  BY <1>4, Names DEF Undefine, UndefineDomain, Warn
<1>5. ASSUME Unreserve PROVE Destroyed'
  BY <1>5, Names DEF Unreserve, Reservation, Warn
<1>6. ASSUME RmDisk PROVE Destroyed'
  BY <1>6, Names DEF RmDisk, RemoveDisk, Forget, Warn
<1>7. ASSUME RmSeed PROVE Destroyed'
  <2>1. ASSUME warned' = TRUE PROVE Destroyed'
    BY <1>7, <2>1 DEF RmSeed, Warn, ExitStatus
  <2> SUFFICES ASSUME warned' = FALSE PROVE Destroyed'
    BY <1>7, <2>1 DEF RmSeed, Warn
  <2>2. /\ cmd = "destroy" /\ ~warned /\ seed' = seed \ {vm}
        /\ UNCHANGED <<cmd, domain, disk, resv, found>>
    BY <1>7 DEF RmSeed, Warn
  <2>3. \A v \in DestroyVms : v \in todo \/ Erased(v)'
    BY <1>7, <2>2, Names DEF RmSeed
  <2>4. CASE todo = {}
    BY <1>7, <2>2, <2>3, <2>4 DEF RmSeed, Warn, ExitStatus
  <2>5. CASE todo # {}
    <3>1. PICK v \in todo : vm' = v /\ todo' = todo \ {v}
      BY <1>7, <2>5 DEF RmSeed
    <3>2. pc' = "probe"
      BY <1>7, <2>2, <2>5 DEF RmSeed, Warn
    <3> QED BY <1>7, <2>2, <2>3, <2>5, <3>1, <3>2 DEF RmSeed
  <2> QED BY <2>4, <2>5
<1> QED BY <1>1, <1>2, <1>3, <1>4, <1>5, <1>6, <1>7 DEF Destroy

\* Every step keeps it.
LEMMA DestroyedStep ==
  ASSUME "misread" \notin Faults, "dump" \notin Faults, TypeOK, Routed, Placed, Destroyed,
         [Next]_vars
  PROVE  Destroyed'
<1> USE DEF Destroyed, Undone, Removed, Erased, Defined, DeployPcs, SpawnPcs, CleanPcs, Ended
<1>1. ASSUME Deploy \/ Spawn \/ Clean PROVE Destroyed'
  BY <1>1, DeployLabels, SpawnLabels, CleanLabels
<1>2. ASSUME Crash \/ Environment \/ UNCHANGED vars PROVE Destroyed'
  BY <1>2, OtherSteps DEF cmdVars
<1> QED BY <1>1, <1>2, DestroyDestroyed DEF Next
--------------------------------------------------------------------------------
(* What a step may touch.                                                  *)

\* A step changes no domain, disk or seed outside vs.
Within(vs) ==
  \A v \in VM \ vs :
    domain'[v] = domain[v] /\ disk'[v] = disk[v] /\ (v \in seed' <=> v \in seed)

\* A step keeps the disk and the join command of every VM that is defined.
Kept == \A v \in VM : Defined(v) => disk'[v] = disk[v] /\ joins'[v] = joins[v]

\* A step of deploy-cluster touches the VMs of its plan only.
LEMMA DeployWithin ==
  ASSUME TypeOK, Routed, Placed, Deploy
  PROVE  Within(DeployVms)
<1> USE DEF At, Ok, Fault, Fatal, hostVars, cmdVars, vars, TypeOK, Routed, Placed,
  Within, DeployPcs, SpawnPcs, DestroyPcs, CleanPcs, Ended
<1>1. ASSUME StartDeploy PROVE Within(DeployVms)
  BY <1>1, Names DEF StartDeploy, Begin
<1>2. ASSUME CpSeed PROVE Within(DeployVms)
  BY <1>2, Names DEF CpSeed, SeedIso
<1>3. ASSUME Guard PROVE Within(DeployVms)
  BY <1>3, Names DEF Guard, Refuses, Dominfo, Misread
<1>4. ASSUME WorkerSeed PROVE Within(DeployVms)
  BY <1>4, Names DEF WorkerSeed, SeedIso
<1>5. ASSUME Clone PROVE Within(DeployVms)
  BY <1>5, Names DEF Clone, CpReflink, Forget
<1>6. ASSUME Reserve PROVE Within(DeployVms)
  BY <1>6, Names DEF Reserve
<1>7. ASSUME Install PROVE Within(DeployVms)
  BY <1>7, Names DEF Install, InstallStep, VirtInstall, WorkerUserData, NextWorker
<1>8. ASSUME CpReady PROVE Within(DeployVms)
  BY <1>8, Names DEF CpReady, Domifaddr
<1>9. ASSUME JoinToken PROVE Within(DeployVms)
  BY <1>9, Names DEF JoinToken, NextWorker
<1>10. ASSUME NodesReady PROVE Within(DeployVms)
  BY <1>10, Names DEF NodesReady, NodeReady
<1> QED BY <1>1, <1>2, <1>3, <1>4, <1>5, <1>6, <1>7, <1>8, <1>9, <1>10 DEF Deploy

\* A step of spawn-workers touches the VMs of its plan only.
LEMMA SpawnWithin ==
  ASSUME TypeOK, Routed, Placed, Spawn
  PROVE  Within(Spawned)
<1> USE DEF At, Ok, Fault, Fatal, hostVars, cmdVars, vars, TypeOK, Routed, Placed,
  Within, DeployPcs, SpawnPcs, DestroyPcs, CleanPcs, Ended
<1>1. ASSUME StartSpawn PROVE Within(Spawned)
  BY <1>1, Names DEF StartSpawn, SpawnPlan, Begin
<1>2. ASSUME CpIp PROVE Within(Spawned)
  BY <1>2, Names DEF CpIp, Domifaddr
<1>3. ASSUME Template PROVE Within(Spawned)
  BY <1>3, Names DEF Template
<1>4. ASSUME SpawnGuard PROVE Within(Spawned)
  BY <1>4, Names DEF SpawnGuard, NextSpawned, StartDomain, Dominfo, Misread
<1>5. ASSUME SpawnClone PROVE Within(Spawned)
  BY <1>5, Names DEF SpawnClone, CpReflink, Forget
<1>6. ASSUME SpawnMint PROVE Within(Spawned)
  BY <1>6, Names DEF SpawnMint
<1>7. ASSUME SpawnInject PROVE Within(Spawned)
  BY <1>7, Names DEF SpawnInject, InjectFailure
<1>8. ASSUME SpawnUndo PROVE Within(Spawned)
  BY <1>8, Names DEF SpawnUndo, RemoveDisk, Forget
<1>9. ASSUME SpawnInstall PROVE Within(Spawned)
  BY <1>9, Names DEF SpawnInstall, VirtInstall, NextSpawned
<1>10. ASSUME SpawnSwitch PROVE Within(Spawned)
  BY <1>10, Names DEF SpawnSwitch
<1> QED BY <1>1, <1>2, <1>3, <1>4, <1>5, <1>6, <1>7, <1>8, <1>9, <1>10 DEF Spawn

\* A step of destroy-cluster touches the VMs of its plan only.
LEMMA DestroyWithin ==
  ASSUME TypeOK, Routed, Placed, Destroy
  PROVE  Within(DestroyVms)
<1> USE DEF At, Ok, Fault, Fatal, hostVars, cmdVars, vars, TypeOK, Routed, Placed,
  Within, DeployPcs, SpawnPcs, DestroyPcs, CleanPcs, Ended
<1>1. ASSUME StartDestroy PROVE Within(DestroyVms)
  BY <1>1, Names DEF StartDestroy, Begin
<1>2. ASSUME Probe PROVE Within(DestroyVms)
  BY <1>2, Names DEF Probe, Dominfo, Misread
<1>3. ASSUME Kill PROVE Within(DestroyVms)
  BY <1>3, Names DEF Kill, DestroyDomain, Warn
<1>4. ASSUME Undefine PROVE Within(DestroyVms)
  BY <1>4, Names DEF Undefine, UndefineDomain, Warn
<1>5. ASSUME Unreserve PROVE Within(DestroyVms)
  BY <1>5, Names DEF Unreserve, Reservation, Warn
<1>6. ASSUME RmDisk PROVE Within(DestroyVms)
  BY <1>6, Names DEF RmDisk, RemoveDisk, Forget, Warn
<1>7. ASSUME RmSeed PROVE Within(DestroyVms)
  BY <1>7, Names DEF RmSeed, ExitStatus, Warn
<1> QED BY <1>1, <1>2, <1>3, <1>4, <1>5, <1>6, <1>7 DEF Destroy

\* A step of clean-vms touches the VMs of its plan only.
LEMMA CleanWithin ==
  ASSUME TypeOK, Routed, Placed, Clean
  PROVE  Within(Hummingbird)
<1> USE DEF At, Ok, Fault, Fatal, hostVars, cmdVars, vars, TypeOK, Routed, Placed,
  Within, DeployPcs, SpawnPcs, DestroyPcs, CleanPcs, Ended
<1>1. ASSUME StartClean PROVE Within(Hummingbird)
  BY <1>1, Names DEF StartClean, Begin
<1>2. ASSUME List PROVE Within(Hummingbird)
  BY <1>2, Names DEF List
<1>3. ASSUME CleanKill PROVE Within(Hummingbird)
  BY <1>3, Names DEF CleanKill, DestroyDomain
<1>4. ASSUME CleanUndefine PROVE Within(Hummingbird)
  BY <1>4, Names DEF CleanUndefine, UndefineWithStorage, RemoveDisk, Forget
<1>5. ASSUME Sweep PROVE Within(Hummingbird)
  BY <1>5, Names DEF Sweep, IsStraggler, Forget
<1>6. ASSUME Refresh PROVE Within(Hummingbird)
  BY <1>6, Names DEF Refresh
<1> QED BY <1>1, <1>2, <1>3, <1>4, <1>5, <1>6 DEF Clean

\* A step of deploy-cluster keeps the disk of a VM that is defined.
LEMMA DeployKeeps ==
  ASSUME TypeOK, Cleared, Deploy
  PROVE  Kept
<1> USE DEF At, Ok, Fault, Fatal, hostVars, cmdVars, vars, TypeOK, Kept, Defined
<1>1. ASSUME StartDeploy PROVE Kept
  BY <1>1 DEF StartDeploy, Begin
<1>2. ASSUME CpSeed PROVE Kept
  BY <1>2 DEF CpSeed, SeedIso
<1>3. ASSUME Guard PROVE Kept
  BY <1>3 DEF Guard, Refuses, Dominfo, Misread
<1>4. ASSUME WorkerSeed PROVE Kept
  BY <1>4 DEF WorkerSeed, SeedIso
<1>5. ASSUME Clone PROVE Kept
  BY <1>5 DEF Clone, CpReflink, Forget, Cleared, GuardedPcs
<1>6. ASSUME Reserve PROVE Kept
  BY <1>6 DEF Reserve
<1>7. ASSUME Install PROVE Kept
  BY <1>7 DEF Install, InstallStep, VirtInstall, WorkerUserData, NextWorker, Cleared,
    GuardedPcs
<1>8. ASSUME CpReady PROVE Kept
  BY <1>8 DEF CpReady, Domifaddr
<1>9. ASSUME JoinToken PROVE Kept
  BY <1>9 DEF JoinToken, NextWorker
<1>10. ASSUME NodesReady PROVE Kept
  BY <1>10 DEF NodesReady, NodeReady
<1> QED BY <1>1, <1>2, <1>3, <1>4, <1>5, <1>6, <1>7, <1>8, <1>9, <1>10 DEF Deploy

\* A step of spawn-workers keeps the disk of a VM that is defined.
LEMMA SpawnKeeps ==
  ASSUME TypeOK, Cleared, Spawn
  PROVE  Kept
<1> USE DEF At, Ok, Fault, Fatal, hostVars, cmdVars, vars, TypeOK, Kept, Defined
<1>1. ASSUME StartSpawn PROVE Kept
  BY <1>1 DEF StartSpawn, SpawnPlan, Begin
<1>2. ASSUME CpIp PROVE Kept
  BY <1>2 DEF CpIp, Domifaddr
<1>3. ASSUME Template PROVE Kept
  BY <1>3 DEF Template
<1>4. ASSUME SpawnGuard PROVE Kept
  BY <1>4 DEF SpawnGuard, NextSpawned, StartDomain, Dominfo, Misread
<1>5. ASSUME SpawnClone PROVE Kept
  BY <1>5 DEF SpawnClone, CpReflink, Forget, Cleared, GuardedPcs
<1>6. ASSUME SpawnMint PROVE Kept
  BY <1>6 DEF SpawnMint
<1>7. ASSUME SpawnInject PROVE Kept
  BY <1>7 DEF SpawnInject, InjectFailure, Cleared, GuardedPcs
<1>8. ASSUME SpawnUndo PROVE Kept
  BY <1>8 DEF SpawnUndo, RemoveDisk, Forget, Cleared, GuardedPcs
<1>9. ASSUME SpawnInstall PROVE Kept
  BY <1>9 DEF SpawnInstall, VirtInstall, NextSpawned, Cleared, GuardedPcs
<1>10. ASSUME SpawnSwitch PROVE Kept
  BY <1>10 DEF SpawnSwitch
<1> QED BY <1>1, <1>2, <1>3, <1>4, <1>5, <1>6, <1>7, <1>8, <1>9, <1>10 DEF Spawn

\* Every step of a command stays within the command's scope.
LEMMA ScopeStep ==
  ASSUME TypeOK, Routed, Placed, [Next]_vars, pc \notin Ended
  PROVE  Within(Scope)
<1>1. ASSUME Deploy PROVE Within(Scope)
  BY <1>1, DeployLabels, DeployWithin DEF Scope
<1>2. ASSUME Spawn PROVE Within(Scope)
  BY <1>2, SpawnLabels, SpawnWithin DEF Scope
<1>3. ASSUME Destroy PROVE Within(Scope)
  BY <1>3, DestroyLabels, DestroyWithin DEF Scope
<1>4. ASSUME Clean PROVE Within(Scope)
  BY <1>4, CleanLabels, CleanWithin DEF Scope
<1>5. ASSUME Crash \/ Environment \/ UNCHANGED vars PROVE Within(Scope)
  BY <1>5, OtherSteps DEF Within
<1> QED BY <1>1, <1>2, <1>3, <1>4, <1>5 DEF Next

\* Every step of deploy-cluster and of spawn-workers keeps the disks of defined VMs.
LEMMA KeptStep ==
  ASSUME TypeOK, Routed, Cleared, [Next]_vars, cmd \in {"deploy", "spawn"}, cmd' = cmd
  PROVE  Kept
<1>1. ASSUME Destroy \/ Clean PROVE Kept
  BY <1>1, DestroyLabels, CleanLabels
<1>2. ASSUME Crash \/ Environment \/ UNCHANGED vars PROVE Kept
  BY <1>2, OtherSteps DEF Kept
<1> QED BY <1>1, <1>2, DeployKeeps, SpawnKeeps DEF Next

--------------------------------------------------------------------------------
(* The theorems.                                                           *)

\* The state of the host and of the command keeps its types, whatever fails.
THEOREM TypeCorrect == Spec => []TypeOK
<1>1. Init => TypeOK
  BY NoGenIsGen DEF Init, TypeOK, VM, Ended
<1>2. TypeOK /\ [Next]_vars => TypeOK'
  <2> SUFFICES ASSUME TypeOK, [Next]_vars PROVE TypeOK'
    OBVIOUS
  <2>1. ASSUME Crash PROVE TypeOK'
    BY <2>1 DEF Crash, Fault, TypeOK, hostVars, cmdVars, Ended
  <2>2. ASSUME UNCHANGED vars PROVE TypeOK'
    BY <2>2 DEF TypeOK, vars, hostVars, cmdVars
  <2> QED BY <2>1, <2>2, DeployTypeOK, SpawnTypeOK, DestroyTypeOK, CleanTypeOK,
             EnvironmentTypeOK DEF Next
<1> QED BY <1>1, <1>2, PTL DEF Spec

\* Whatever fails, the command is at one of its own labels and within its plan.
Base == TypeOK /\ Routed /\ Placed /\ Listed

\* A host without VMs and without a command satisfies every part of the invariant.
LEMMA Start == Init => Base /\ Tokens /\ Cleared /\ Polled /\ Unbooted /\ Destroyed
<1> SUFFICES ASSUME Init PROVE Base /\ Tokens /\ Cleared /\ Polled /\ Unbooted /\ Destroyed
  OBVIOUS
<1>1. pc = "done" /\ cmd = "none"
  BY DEF Init
<1>2. TypeOK
  BY NoGenIsGen DEF Init, TypeOK, VM, Ended
<1> QED
  BY <1>1, <1>2 DEF Base, Routed, Placed, Listed, Tokens, Cleared, Polled, Unbooted,
    Destroyed, Undone, DeployPcs, SpawnPcs, DestroyPcs, CleanPcs, GuardedPcs, BootPcs

\* Every reachable state is within the plan of its command.
LEMMA Based == Spec => []Base
<1>1. Init => Base
  BY Start
<1>2. TypeOK /\ TypeOK' /\ Base /\ [Next]_vars => Base'
  BY RoutedStep, PlacedStep, ListedStep DEF Base
<1> QED BY <1>1, <1>2, TypeCorrect, PTL DEF Spec

\* No command touches a VM outside its plan; clean-vms only those with the prefix.
THEOREM CommandsStayInScope == Spec => OthersUntouched
<1>1. Base /\ [Next]_vars =>
        [pc \notin Ended =>
           \A v \in VM \ Scope :
             domain'[v] = domain[v] /\ disk'[v] = disk[v] /\ (v \in seed' <=> v \in seed)]_vars
  BY ScopeStep DEF Base, Within
<1> QED BY <1>1, Based, PTL DEF Spec, OthersUntouched

\* deploy-cluster that succeeds has every VM of its plan in one cluster: the nodes it has
\* polled stay members while it polls the others.
THEOREM DeploySucceeds == Spec => []DeployDelivers
<1>1. Init => Polled
  BY Start
<1>2. Base /\ Polled /\ [Next]_vars => Polled'
  BY PolledStep DEF Base
<1>3. Polled => DeployDelivers
  BY DEF Polled, InCluster, DeployDelivers
<1> QED BY <1>1, <1>2, <1>3, Based, PTL DEF Spec

\* A deploy that meets no fault fails only when a VM of its plan was there before.
THEOREM DeployNotBlocked == Spec => []LeftoversNeverBlock
<1>1. Init => Unbooted
  BY Start
<1>2. Base /\ Unbooted /\ [Next]_vars => Unbooted'
  BY UnbootedStep DEF Base
<1>3. Unbooted => LeftoversNeverBlock
  BY DEF Unbooted, LeftoversNeverBlock
<1> QED BY <1>1, <1>2, <1>3, Based, PTL DEF Spec

\* As long as a failing dominfo is not read as "not defined", the VM that deploy-cluster or
\* spawn-workers builds is not defined while they build it.
LEMMA AlwaysCleared ==
  ASSUME "misread" \notin Faults
  PROVE  Spec => []Cleared
<1>1. Init => Cleared
  BY Start
<1>2. Base /\ Cleared /\ [Next]_vars => Cleared'
  BY ClearedStep DEF Base
<1> QED BY <1>1, <1>2, Based, PTL DEF Spec

\* deploy-cluster and spawn-workers never replace the disk of a VM that is defined, as long
\* as a failing dominfo is not read as "not defined".
THEOREM DisksSurvive ==
  ASSUME "misread" \notin Faults
  PROVE  Spec => InstalledDiskKept
<1>1. Base /\ Cleared /\ [Next]_vars =>
        [\A v \in VM : cmd \in {"deploy", "spawn"} /\ cmd' = cmd /\ Defined(v) =>
           disk'[v] = disk[v] /\ joins'[v] = joins[v]]_vars
  BY KeptStep DEF Base, Kept
<1> QED BY <1>1, Based, AlwaysCleared, PTL DEF Spec, InstalledDiskKept

\* Under the same hypothesis no worker that can boot lacks its join command, but for a
\* spawned one whose command a failed discovery (inject_join_env) has misplaced.
THEOREM WorkersCanJoin ==
  ASSUME "misread" \notin Faults
  PROVE  Spec => []NoWorkerWithoutJoin
<1>1. Init => Tokens /\ NoWorkerWithoutJoin
  BY Start DEF Init, NoWorkerWithoutJoin, Defined
<1>2. Base /\ Tokens /\ [Next]_vars => Tokens'
  BY TokensStep DEF Base
<1>3. Base /\ Tokens /\ Cleared /\ NoWorkerWithoutJoin /\ [Next]_vars =>
        NoWorkerWithoutJoin'
  <2> SUFFICES ASSUME Base, Tokens, Cleared, NoWorkerWithoutJoin, [Next]_vars
               PROVE  NoWorkerWithoutJoin'
    OBVIOUS
  <2>1. ASSUME Crash \/ UNCHANGED vars PROVE NoWorkerWithoutJoin'
    BY <2>1, OtherSteps DEF NoWorkerWithoutJoin, Defined
  <2> QED BY <2>1, DeployJoins, SpawnJoins, DestroyJoins, CleanJoins, EnvironmentJoins
          DEF Next, Base
<1> QED BY <1>1, <1>2, <1>3, Based, AlwaysCleared, PTL DEF Spec

\* A destroy-cluster that exits 0 has left nothing, as long as neither a failing dominfo nor
\* a failing net-dumpxml goes uncounted.
THEOREM DestroyLeavesNothing ==
  ASSUME "misread" \notin Faults, "dump" \notin Faults
  PROVE  Spec => []DestroyIsComplete
<1>1. Init => Destroyed
  BY Start
<1>2. Base /\ Destroyed /\ [Next]_vars => Destroyed'
  BY DestroyedStep DEF Base
<1>3. Destroyed => DestroyIsComplete
  BY DEF Destroyed, Undone, Erased, Removed, Defined, DestroyIsComplete
<1> QED BY <1>1, <1>2, <1>3, Based, PTL DEF Spec
===============================================================================
