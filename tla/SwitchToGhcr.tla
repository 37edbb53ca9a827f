---------------------------- MODULE SwitchToGhcr ----------------------------
(***************************************************************************)
(* `hbird switch-to-ghcr` (switch_to_ghcr.rs): point the VMs' bootc at the  *)
(* image published on GHCR.  bootc keeps a booted and a staged image; a     *)
(* switch stages one, a reboot boots it.  The command walks the running VMs *)
(* one by one while leases, sshd and the VMs come and go.                   *)
(***************************************************************************)
EXTENDS Integers, FiniteSets

CONSTANTS
  ControlPlane, Worker, OtherVm,   \* sets of domain names, by what their name says
  Tag,                             \* GHCR_TAG values
  MaxSwitch,                       \* bound: commands started
  SwitchFaults                     \* "net": a call fails unseen, "lost": its answer is lost

ASSUME MaxSwitchAssumption == MaxSwitch \in Nat
ASSUME KindsAssumption ==
  ControlPlane \cap Worker = {} /\ OtherVm \cap (ControlPlane \cup Worker) = {}
ASSUME SomeVmAssumption == ControlPlane \cup Worker \cup OtherVm # {} /\ Tag # {}

VARIABLES
  booted,    \* per VM: the image it runs
  staged,    \* per VM: the image its next boot runs, or NoImage
  swStep,    \* where the command is
  swPlan,    \* the arguments, merged with config and environment
  swListed,  \* the VMs of the walk
  swTodo,    \* those it has not come to
  swVm,      \* the VM at hand
  swBefore,  \* the booted image as read, or NoImage when unknown
  swFailed,  \* VMs whose switch failed
  swStale,   \* history: VMs left alone while another image was staged
  switches   \* commands started

vmImages == <<booted, staged>>
switchVars ==
  <<vmImages, swStep, swPlan, swListed, swTodo, swVm, swBefore, swFailed, swStale, switches>>

Vm == ControlPlane \cup Worker \cup OtherVm
NoImage == <<"none", "none">>
NoVm == "no vm"
Flavor == {"hummingbird-k8s", "hummingbird-k8s-worker"}
Built(f) == <<f, "localhost">>

\* Mutant of flavor_for_vm: any name is its own flavor.
FlavorIsName(v) ==
  CASE v \in ControlPlane -> "hummingbird-k8s"
    [] v \in Worker -> "hummingbird-k8s-worker"
    [] OTHER -> "hummingbird-other"

\* flavor_for_vm: the exact name of the control plane, or the prefix of the workers.
FlavorForVm(v) ==
  CASE v \in ControlPlane -> "hummingbird-k8s"
    [] v \in Worker -> "hummingbird-k8s-worker"
    [] OTHER -> "unknown"

\* ghcr_ref_for.
GhcrRefFor(f, tag) == <<f, tag>>

Image ==
  {GhcrRefFor(f, t) : f \in Flavor, t \in Tag} \cup {Built(f) : f \in Flavor \cup {"unknown"}}
SwitchPlan ==
  [vm : Vm \cup {NoVm}, ref : Image \cup {NoImage}, tag : Tag,
   rebuild : BOOLEAN, force : BOOLEAN, dry : BOOLEAN]
SwitchOver == {"idle", "ok", "failed"}

SwitchTypeOK ==
  /\ booted \in [Vm -> Image] /\ staged \in [Vm -> Image \cup {NoImage}]
  /\ swStep \in SwitchOver \cup {"start", "walk", "lease", "sshd", "read", "switch", "reread"}
  /\ swPlan \in SwitchPlan /\ swListed \subseteq Vm /\ swTodo \subseteq swListed /\ swVm \in Vm
  /\ swBefore \in Image \cup {NoImage} /\ swFailed \subseteq Vm /\ swStale \subseteq Vm
  /\ switches \in 0 .. MaxSwitch

\* The images a VM may have run or staged before: the one it was installed from, and the
\* published ones of its flavor.
OwnImages(v) == {i \in Image : i[1] = IF v \in OtherVm THEN "unknown" ELSE FlavorForVm(v)}

SwitchInit ==
  /\ booted \in {b \in [Vm -> Image] : \A v \in Vm : b[v] \in OwnImages(v)}
  /\ staged \in {s \in [Vm -> Image \cup {NoImage}] :
                  \A v \in Vm : s[v] = NoImage \/ (s[v] \in OwnImages(v) /\ s[v][2] \in Tag)}
  /\ swStep = "idle" /\ swVm = (CHOOSE v \in Vm : TRUE)
  /\ swListed = {} /\ swTodo = {} /\ swBefore = NoImage
  /\ swFailed = {} /\ swStale = {}
  /\ swPlan = [vm |-> NoVm, ref |-> NoImage, tag |-> CHOOSE t \in Tag : TRUE,
               rebuild |-> FALSE, force |-> FALSE, dry |-> FALSE]
  /\ switches = 0

SwGo(l) ==
  /\ swStep' = l
  /\ UNCHANGED <<vmImages, swPlan, swListed, swTodo, swVm, swBefore, swFailed, swStale, switches>>

--------------------------------------------------------------------------------
\* run, with BOOTC_SWITCH_TO_GHCR not 0, and Plan::from_args.
StartSwitch ==
  /\ swStep \in SwitchOver /\ switches < MaxSwitch
  /\ switches' = switches + 1
  /\ \E vm \in Vm \cup {NoVm}, t \in Tag, r \in BOOLEAN, f \in BOOLEAN, d \in BOOLEAN :
       \E ref \in {NoImage} \cup {GhcrRefFor(x, t) : x \in IF vm = NoVm THEN {} ELSE Flavor} :
         swPlan' = [vm |-> vm, ref |-> ref, tag |-> t, rebuild |-> r, force |-> f, dry |-> d]
  /\ swStep' = "start" /\ swListed' = {} /\ swTodo' = {} /\ swFailed' = {} /\ swStale' = {}
  /\ swBefore' = NoImage
  /\ UNCHANGED <<vmImages, swVm>>

\* The image the VM is to be switched to.
SwRef(v) == IF swPlan.ref # NoImage THEN swPlan.ref ELSE GhcrRefFor(FlavorForVm(v), swPlan.tag)

\* run_single_vm: FORCE_REBUILD without FORCE_SWITCH skips the switch before the ref is
\* inferred, and a ref that cannot be inferred is the one fatal case.
RunSingleVm ==
  /\ swStep = "start" /\ swPlan.vm # NoVm
  /\ IF swPlan.rebuild /\ ~swPlan.force THEN SwGo("ok")
     ELSE IF swPlan.ref = NoImage /\ FlavorForVm(swPlan.vm) = "unknown" THEN SwGo("failed")
     ELSE /\ swListed' = {swPlan.vm} /\ swTodo' = swListed' /\ swStep' = "walk"
          /\ UNCHANGED <<vmImages, swPlan, swVm, swBefore, swFailed, swStale, switches>>

\* run_all_vms: the running hummingbird-* domains, or an error when virsh fails.
RunAllVms ==
  /\ swStep = "start" /\ swPlan.vm = NoVm
  /\ \/ /\ swListed' \in SUBSET Vm /\ swTodo' = swListed' /\ swStep' = "walk"
        /\ UNCHANGED <<vmImages, swPlan, swVm, swBefore, swFailed, swStale, switches>>
     \/ "net" \in SwitchFaults /\ SwGo("failed")

\* Mutant of run_all_vms: the first failure ends the walk.
EndsAtFailure == swTodo = {} \/ swFailed # {}

\* The walk ends when no VM is left; a failed one does not end it.
WalkEnds == swTodo = {}

\* Mutant of run_all_vms: failures are logged and not counted.
NeverFails == "ok"

\* The exit status: failures are fatal in all-VMs mode only.
SwitchExit == IF swPlan.vm = NoVm /\ swFailed # {} THEN "failed" ELSE "ok"

\* The loop of run_all_vms: unknown flavors are skipped, a dry run only logs.
NextVm ==
  /\ swStep = "walk"
  /\ IF WalkEnds THEN SwGo(SwitchExit)
     ELSE \E v \in swTodo :
            /\ swTodo' = swTodo \ {v} /\ swVm' = v
            /\ swStep' = IF swPlan.dry \/ (swPlan.vm = NoVm /\ FlavorForVm(v) = "unknown")
                         THEN "walk" ELSE "lease"
            /\ UNCHANGED <<vmImages, swPlan, swListed, swBefore, swFailed, swStale, switches>>

SwFail == /\ swFailed' = swFailed \cup {swVm} /\ swStep' = "walk"
          /\ UNCHANGED <<swPlan, swListed, swTodo, swVm, swBefore, swStale, switches>>

\* wait_for_ip_with: a lease within WAIT_TRIES polls, or the VM is skipped.
WaitForIp == swStep = "lease" /\ (SwGo("sshd") \/ (SwFail /\ UNCHANGED vmImages))

\* wait_for_ssh_with.
WaitForSsh == swStep = "sshd" /\ (SwGo("read") \/ (SwFail /\ UNCHANGED vmImages))

\* current_image_ref_with_exec: the booted image, unknown when the call or its JSON fails.
CurrentImageRef ==
  {booted[swVm]} \cup (IF "net" \in SwitchFaults THEN {NoImage} ELSE {})

\* switch_one_with_exec, up to the compare.
ReadImage ==
  /\ swStep = "read"
  /\ swBefore' \in CurrentImageRef
  /\ swStep' = IF swBefore' = SwRef(swVm) THEN "walk" ELSE "switch"
  /\ swStale' = IF swStep' = "walk" /\ staged[swVm] \notin {NoImage, SwRef(swVm)}
                THEN swStale \cup {swVm} ELSE swStale
  /\ UNCHANGED <<vmImages, swPlan, swListed, swTodo, swVm, swFailed, switches>>

\* bootc switch: pulls and stages the image; it may fail, or its answer be lost.
BootcSwitch ==
  /\ swStep = "switch"
  /\ \/ /\ staged' = [staged EXCEPT ![swVm] = SwRef(swVm)] /\ UNCHANGED booted
        /\ \/ /\ swStep' = "reread"
              /\ UNCHANGED <<swPlan, swListed, swTodo, swVm, swBefore, swFailed, swStale, switches>>
           \/ "lost" \in SwitchFaults /\ SwFail
     \/ SwFail /\ UNCHANGED vmImages

\* The second read is for the log.
Reread == swStep = "reread" /\ SwGo("walk")

\* A VM reboots into what is staged.
Reboot ==
  /\ \E v \in Vm : /\ staged[v] # NoImage
                   /\ booted' = [booted EXCEPT ![v] = staged[v]]
                   /\ staged' = [staged EXCEPT ![v] = NoImage]
  /\ UNCHANGED <<swStep, swPlan, swListed, swTodo, swVm, swBefore, swFailed, swStale, switches>>

SwitchNext ==
  \/ StartSwitch \/ RunSingleVm \/ RunAllVms \/ NextVm \/ WaitForIp \/ WaitForSsh
  \/ ReadImage \/ BootcSwitch \/ Reread \/ Reboot
SwitchSpec == SwitchInit /\ [][SwitchNext]_switchVars

--------------------------------------------------------------------------------
\* In all-VMs mode every running VM of a known flavor is dealt with, whichever others fail
\* or reboot in between: at the end it has the image of its own flavor, booted or staged,
\* or it is counted as failed; and the exit status is 0 only when none is counted.  The one
\* exception is a VM that runs the image while another is staged: the code reads what is
\* booted, reports "already tracking" and leaves the other image for the next boot.
WalkCovers ==
  swStep \in {"ok", "failed"} /\ swPlan.vm = NoVm /\ ~swPlan.dry =>
    /\ \A v \in swListed \ OtherVm :
         \/ v \in swFailed \cup swStale
         \/ GhcrRefFor(FlavorForVm(v), swPlan.tag) \in {booted[v], staged[v]}
    /\ swStep = "ok" => swFailed = {}
=============================================================================
