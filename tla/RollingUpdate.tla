----------------------------- MODULE RollingUpdate -----------------------------
(***************************************************************************)
(* The rolling upgrade of `hbird update-cluster` (update_cluster.rs): the  *)
(* workstation process walks the control plane and then the workers,       *)
(* drains each worker, runs `bootc upgrade --apply` over SSH, waits        *)
(* through a chain of gates and uncordons.  The nodes, their reboots and   *)
(* what the apiserver currently believes about them are the environment.   *)
(*                                                                         *)
(* Node 0 is the control plane; 1..NumWorkers are WORKER_NAMES in order.   *)
(***************************************************************************)
EXTENDS Integers, FiniteSets

CONSTANTS
  NumWorkers,   \* number of WORKER_NAMES entries
  HasApply,     \* the nodes whose bootc knows `upgrade --apply`
  Launches,     \* the command lines the operator may type
  MaxRuns,      \* bound on the number of runs, one after the other
  Faults        \* the kinds of fault that may happen, a subset of FaultKinds

CP == 0
Workers == 1..NumWorkers
Nodes == {CP} \cup Workers
NoNode == -1          \* Option::None for --node and --start-from, and "no node in flight"
NoBoot == -1          \* the empty string capture_node_bootid returns

FaultKinds == {"ssh",      \* an SSH call to a node fails or its answer is lost
               "kubectl",  \* a kubectl call fails
               "drain",    \* after the cordon, an eviction outlasts --timeout or the
                           \* answer is lost
               "digest",   \* bootc status or jq gives no digest
               "upgrade",  \* bootc, or systemctl reboot, fails by itself
               "timeout",  \* a bounded wait, or the SSH watchdog, runs out
               "hang",     \* a kubectl call over SSH never returns
               "signal"}   \* the operator types Ctrl-C

Args == [workersOnly: BOOLEAN, skipDrain: BOOLEAN, skipGates: BOOLEAN,
         continueOnError: BOOLEAN, node: Nodes \cup {NoNode},
         startFrom: Nodes \cup {NoNode}]

\* No flag given.
Defaults == [workersOnly |-> FALSE, skipDrain |-> FALSE, skipGates |-> FALSE,
             continueOnError |-> FALSE, node |-> NoNode, startFrom |-> NoNode]

ASSUME NumWorkersAssumption == NumWorkers \in Nat
ASSUME HasApplyAssumption == HasApply \subseteq Nodes
ASSUME LaunchesAssumption == Launches \subseteq Args
ASSUME FaultsAssumption == Faults \subseteq FaultKinds
ASSUME MaxRunsAssumption == MaxRuns \in Nat

VARIABLES
  \* the nodes
  up,         \* the node is running and sshd answers
  boot,       \* its boot ID: the number of boots since the beginning
  image,      \* the booted image: "old", or "new" = what the registry tag points to
  staged,     \* a new deployment is staged for the next boot
  pending,    \* "upgrade": a remote bootc is at work; "reboot": a reboot is queued
  timer,      \* the auto-update timer is active
  \* the apiserver
  api,        \* it answers
  seenBoot,   \* .status.nodeInfo.bootID of each node object
  ready,      \* STATUS column of each node object
  cordoned,   \* spec.unschedulable of each node object
  \* the hbird process
  pc,         \* the next call of the process
  args,       \* the flags of the current run
  todo,       \* nodes still to be processed
  cur,        \* node in flight
  pre,        \* pre_bootid
  preDigest,  \* pre_digest; "" when bootc status gave nothing
  drained, uncordoned,    \* the InFlight record
  succeeded, failed,      \* the Results record
  verdict,    \* how the last run ended
  runs,       \* runs started so far
  \* history, read by the properties only
  hinted,     \* nodes whose recovery hint was printed
  left,       \* nodes whose last attempt ended in an error or a signal; an attempt
              \* under --skip-drain does not answer for the cordon of an earlier one
  blind,      \* nodes whose last attempt had no evidence of its reboot to go by
  boot0       \* boot ID of the node in flight when the reboot was asked of it

nodeVars == <<up, boot, image, staged, pending, timer>>
apiVars == <<api, seenBoot, ready, cordoned>>
runVars == <<args, todo, cur, succeeded, failed, verdict, runs>>
attemptVars == <<pre, preDigest, drained, uncordoned>>
historyVars == <<hinted, left, blind, boot0>>
vars == <<nodeVars, apiVars, pc, runVars, attemptVars, historyVars>>

Pcs == {"idle", "next", "timer_stop", "drain", "capture", "probe", "apply", "applying",
        "staging", "rebooting", "post_digest", "current", "ssh_drop", "ssh_back",
        "apiserver", "bootid", "ready", "daemonsets", "uncordon", "timer_start",
        "fail", "hung", "done"}

NodesOK ==
  /\ up \in [Nodes -> BOOLEAN]
  /\ boot \in [Nodes -> Nat]
  /\ image \in [Nodes -> {"old", "new"}]
  /\ staged \in [Nodes -> BOOLEAN]
  /\ pending \in [Nodes -> {"none", "upgrade", "reboot"}]
  /\ timer \in [Nodes -> BOOLEAN]

ApiOK ==
  /\ api \in BOOLEAN
  /\ seenBoot \in [Nodes -> Nat]
  /\ ready \in [Nodes -> BOOLEAN]
  /\ cordoned \in [Nodes -> BOOLEAN]

RunOK ==
  /\ args \in Args
  /\ todo \subseteq Nodes
  /\ cur \in Nodes \cup {NoNode}
  /\ succeeded \subseteq Nodes /\ failed \subseteq Nodes
  /\ verdict \in {"none", "ok", "partial", "error", "killed"}
  /\ runs \in Nat

AttemptOK ==
  /\ pre \in Nat \cup {NoBoot}
  /\ preDigest \in {"old", "new", ""}
  /\ drained \in BOOLEAN /\ uncordoned \in BOOLEAN

HistoryOK ==
  /\ hinted \subseteq Nodes /\ left \subseteq Nodes /\ blind \subseteq Nodes
  /\ boot0 \in Nat \cup {NoBoot}

TypeOK == NodesOK /\ ApiOK /\ pc \in Pcs /\ RunOK /\ AttemptOK /\ HistoryOK

--------------------------------------------------------------------------------
(* The plan.                                                               *)

\* Plan::from_args: the mutual exclusions and the --start-from check.
ValidArgs(a) ==
  /\ ~(a.workersOnly /\ a.node # NoNode)
  /\ ~(a.node # NoNode /\ a.startFrom # NoNode)
  /\ a.startFrom # NoNode => a.startFrom \in Workers

\* Mutant of WorkersToRun: the walk goes one past the last worker.
WorkersToRunOffByOne(a) ==
  {w \in 1..(NumWorkers + 1) : a.startFrom # NoNode => w >= a.startFrom}

\* Plan::workers_to_run.
WorkersToRun(a) ==
  {w \in Workers : a.startFrom # NoNode => w >= a.startFrom}

\* The nodes run() will process; it goes through them in ascending order.
Targets(a) ==
  IF a.node # NoNode
  THEN {a.node}
  ELSE WorkersToRun(a)
         \cup (IF a.workersOnly \/ a.startFrom # NoNode THEN {} ELSE {CP})

--------------------------------------------------------------------------------
Init ==
  /\ up = [n \in Nodes |-> TRUE]
  /\ boot = [n \in Nodes |-> 0]
  /\ image \in [Nodes -> {"old", "new"}]
  /\ staged = [n \in Nodes |-> FALSE]
  /\ pending = [n \in Nodes |-> "none"]
  /\ timer = [n \in Nodes |-> TRUE]
  /\ api = TRUE
  /\ seenBoot = boot
  /\ ready = [n \in Nodes |-> TRUE]
  /\ cordoned = [n \in Nodes |-> FALSE]
  /\ pc = "idle"
  /\ args = Defaults
  /\ todo = {} /\ cur = NoNode
  /\ pre = NoBoot /\ preDigest = "" /\ drained = FALSE /\ uncordoned = FALSE
  /\ succeeded = {} /\ failed = {} /\ verdict = "none" /\ runs = 0
  /\ hinted = {} /\ left = {} /\ blind = {} /\ boot0 = NoBoot

--------------------------------------------------------------------------------
(* run(): from the command line to the summary.                            *)

Launch(a) ==
  /\ pc \in {"idle", "done"}
  /\ runs < MaxRuns
  /\ ValidArgs(a)
  /\ args' = a
  /\ todo' = Targets(a)
  /\ succeeded' = {} /\ failed' = {} /\ verdict' = "none"
  /\ runs' = runs + 1
  /\ pc' = "next"
  /\ UNCHANGED <<nodeVars, apiVars, cur, attemptVars, historyVars>>

\* The loop head: CP first, then the workers in WORKER_NAMES order.  A batch
\* of --parallel workers is processed serially, so the batches do not matter.
\* Enters update_cp / update_worker with a fresh InFlight record.
StartNode(n) ==
  /\ pc = "next"
  /\ n \in todo
  /\ \A m \in todo : n <= m
  /\ cur' = n
  /\ todo' = todo \ {n}
  /\ drained' = FALSE /\ uncordoned' = FALSE
  /\ pre' = NoBoot /\ preDigest' = ""
  /\ pc' = "timer_stop"
  /\ boot0' = NoBoot
  /\ hinted' = hinted \ {n} /\ blind' = blind \ {n}
  /\ left' = IF args.skipDrain THEN left ELSE left \ {n}
  /\ UNCHANGED <<nodeVars, apiVars, args, succeeded, failed, verdict, runs>>

\* Mutant of WalkIsOver: the loop stops one node early.
WalkIsOverOffByOne == \A n \in todo : n = NumWorkers

\* `while i < total`.
WalkIsOver == todo = {}

\* The summary footer and the exit code.
Finish ==
  /\ pc = "next"
  /\ WalkIsOver
  /\ verdict' = IF failed = {} THEN "ok" ELSE "partial"
  /\ pc' = "done"
  /\ UNCHANGED <<nodeVars, apiVars, args, todo, cur, succeeded, failed, runs,
                 attemptVars, historyVars>>

--------------------------------------------------------------------------------
(* Calls.  An SSH call to a node that is down always fails.                *)

SshFails(n) == ~up[n] \/ "ssh" \in Faults
SshWorks(n) == up[n]
KubectlFails == ~api \/ "kubectl" \in Faults
KubectlWorks == api

\* A cp_kubectl call wedges after authentication.  cp_ssh_opts sets no command
\* watchdog, so the process waits for ever.
KubectlHangs ==
  /\ "hang" \in Faults
  /\ pc \in {"drain", "capture", "current", "apiserver", "bootid", "ready",
             "daemonsets", "uncordon"}
  /\ pc' = "hung"
  /\ UNCHANGED <<nodeVars, apiVars, runVars, attemptVars, historyVars>>

\* Mutant of TimesOut: the elapsed counter is never advanced.
NeverTimesOut == FALSE

\* A wait loop, or the SSH watchdog of a node command, has used up its budget.
TimesOut == "timeout" \in Faults

Goto(label) == pc' = label
NextPc(n, worker, control) == IF n = CP THEN control ELSE worker

\* timer_stop: best effort, skipped by --skip-drain.
TimerStop ==
  /\ pc = "timer_stop"
  /\ \/ /\ ~args.skipDrain /\ SshWorks(cur)
        /\ timer' = [timer EXCEPT ![cur] = FALSE]
     \/ /\ args.skipDrain \/ SshFails(cur)
        /\ timer' = timer
  /\ Goto(NextPc(cur, "drain", "capture"))
  /\ UNCHANGED <<up, boot, image, staged, pending, apiVars, runVars, attemptVars,
                 historyVars>>

\* The drain block of update_worker.  `kubectl drain` cordons first and evicts
\* afterwards; mark_drained runs only when the whole command succeeded.
Drain ==
  /\ pc = "drain"
  /\ \/ /\ args.skipDrain
        /\ UNCHANGED <<cordoned, drained>>
        /\ Goto("capture")
     \/ /\ ~args.skipDrain /\ KubectlWorks
        /\ cordoned' = [cordoned EXCEPT ![cur] = TRUE]
        /\ drained' = TRUE
        /\ Goto("capture")
     \/ /\ ~args.skipDrain /\ KubectlWorks /\ "drain" \in Faults
        /\ cordoned' = [cordoned EXCEPT ![cur] = TRUE]
        /\ UNCHANGED drained
        /\ Goto("fail")
     \/ /\ ~args.skipDrain /\ KubectlFails
        /\ UNCHANGED <<cordoned, drained>>
        /\ Goto("fail")
  /\ UNCHANGED <<nodeVars, api, seenBoot, ready, runVars, pre, preDigest,
                 uncordoned, historyVars>>

\* capture_node_bootid: three attempts, an empty baseline when all fail.
CaptureBootId ==
  /\ pc = "capture"
  /\ \/ KubectlWorks /\ pre' = seenBoot[cur]
     \/ KubectlFails /\ pre' = NoBoot
  /\ Goto("probe")
  /\ UNCHANGED <<nodeVars, apiVars, runVars, preDigest, drained, uncordoned,
                 historyVars>>

--------------------------------------------------------------------------------
(* bootc_upgrade_apply_with_exec, one action per remote command.           *)

\* bootc_booted_digest: the booted digest, or nothing when bootc or jq fails.
DigestRead(d) == d = image[cur] \/ ("digest" \in Faults /\ d = "")

\* The pre-upgrade digest and the --apply capability probe.
UpgradeProbe ==
  /\ pc = "probe"
  /\ \/ /\ SshWorks(cur)
        /\ DigestRead(preDigest')
        /\ Goto(IF cur \in HasApply THEN "apply" ELSE "staging")
     \/ SshFails(cur) /\ UNCHANGED preDigest /\ Goto("fail")
  /\ UNCHANGED <<nodeVars, apiVars, runVars, pre, drained, uncordoned, historyVars>>

\* `bootc upgrade --apply` is sent.  With nothing newer than the booted image it
\* exits 0; otherwise bootc goes to work (if an earlier one is not at it already).
\* ssh's own connection failure is rc 255, bootc's failure any other code.
ApplyStart ==
  /\ pc = "apply"
  /\ \/ /\ SshWorks(cur) /\ image[cur] = "new"
        /\ UNCHANGED pending
        /\ Goto("post_digest")
     \/ /\ SshWorks(cur) /\ image[cur] = "old"
        /\ pending' = [pending EXCEPT ![cur] = IF @ = "reboot" THEN @ ELSE "upgrade"]
        /\ Goto("applying")
     \/ /\ SshFails(cur)
        /\ UNCHANGED pending
        /\ Goto("ssh_drop")
     \/ /\ SshWorks(cur) /\ "upgrade" \in Faults
        /\ UNCHANGED pending
        /\ Goto("fail")
  /\ boot0' = boot[cur]
  /\ UNCHANGED <<up, boot, image, staged, timer, apiVars, runVars, attemptVars,
                 hinted, left, blind>>

\* The command is at work.  rc 255 is read as "the reboot tore down ssh": bootc
\* queued its reboot, or the connection broke and the remote bootc died with it
\* or goes on.  Another exit code is bootc's failure.  The watchdog kills only
\* the local ssh.
ApplyReturns ==
  /\ pc = "applying"
  /\ \/ pending[cur] # "upgrade" /\ UNCHANGED pending /\ Goto("ssh_drop")
     \/ /\ pending[cur] = "upgrade" /\ "ssh" \in Faults
        /\ pending' \in {pending, [pending EXCEPT ![cur] = "none"]}
        /\ Goto("ssh_drop")
     \/ /\ pending[cur] = "upgrade" /\ "upgrade" \in Faults
        /\ pending' = [pending EXCEPT ![cur] = "none"]
        /\ Goto("fail")
     \/ TimesOut /\ UNCHANGED pending /\ Goto("fail")
  /\ UNCHANGED <<up, boot, image, staged, timer, apiVars, runVars, attemptVars,
                 historyVars>>

\* The fallback for bootc < 1.1, first command: plain `bootc upgrade`.  Its
\* effect may or may not have happened when the answer is an error.
StageEffect ==
  IF up[cur] /\ image[cur] = "old" THEN [staged EXCEPT ![cur] = TRUE] ELSE staged

FallbackStage ==
  /\ pc = "staging"
  /\ \/ SshWorks(cur) /\ staged' = StageEffect /\ Goto("rebooting")
     \/ SshFails(cur) /\ staged' \in {staged, StageEffect} /\ Goto("ssh_drop")
     \/ "upgrade" \in Faults /\ UNCHANGED staged /\ Goto("fail")
     \/ TimesOut /\ staged' \in {staged, StageEffect} /\ Goto("fail")
  /\ boot0' = boot[cur]
  /\ UNCHANGED <<up, boot, image, pending, timer, apiVars, runVars, attemptVars,
                 hinted, left, blind>>

\* The fallback, second command: `systemctl reboot` queues the reboot and exits
\* 0, unless sshd is gone before the answer (255); another exit code is a failure,
\* and no reboot is queued.
FallbackReboot ==
  /\ pc = "rebooting"
  /\ \/ /\ SshWorks(cur)
        /\ pending' = [pending EXCEPT ![cur] = "reboot"]
        /\ \/ Goto("post_digest")
           \/ Goto("ssh_drop")
           \/ TimesOut /\ Goto("fail")
     \/ SshFails(cur) /\ UNCHANGED pending /\ Goto("ssh_drop")
     \/ SshWorks(cur) /\ "upgrade" \in Faults /\ UNCHANGED pending /\ Goto("fail")
  /\ boot0' = boot[cur]
  /\ UNCHANGED <<up, boot, image, staged, timer, apiVars, runVars, attemptVars,
                 hinted, left, blind>>

\* rc 0: compare the booted digest with the one before.  Equal and known means
\* AlreadyCurrent, anything else Applied.
PostDigest ==
  /\ pc = "post_digest"
  /\ \/ /\ SshWorks(cur)
        /\ \E post \in {"old", "new", ""} :
             /\ DigestRead(post)
             /\ Goto(IF preDigest # "" /\ post # "" /\ preDigest = post
                     THEN "current" ELSE "ssh_drop")
     \/ SshFails(cur) /\ Goto("fail")
  /\ UNCHANGED <<nodeVars, apiVars, runVars, attemptVars, historyVars>>

\* Mutant of UncordonsCurrent: the early return forgets the cordon.
NeverUncordonsCurrent == FALSE

\* Only a worker that was drained is uncordoned.
UncordonsCurrent == cur # CP /\ ~args.skipDrain

\* AlreadyCurrent: uncordon what was drained and skip every wait.  The answer of
\* the uncordon may be lost after it took effect.
AlreadyCurrent ==
  /\ pc = "current"
  /\ \/ /\ ~UncordonsCurrent
        /\ UNCHANGED <<cordoned, uncordoned>>
        /\ Goto("timer_start")
     \/ /\ UncordonsCurrent /\ KubectlWorks
        /\ cordoned' = [cordoned EXCEPT ![cur] = FALSE]
        /\ uncordoned' = TRUE
        /\ Goto("timer_start")
     \/ /\ UncordonsCurrent /\ KubectlWorks /\ "kubectl" \in Faults
        /\ cordoned' = [cordoned EXCEPT ![cur] = FALSE]
        /\ UNCHANGED uncordoned
        /\ Goto("fail")
     \/ /\ UncordonsCurrent /\ KubectlFails
        /\ UNCHANGED <<cordoned, uncordoned>>
        /\ Goto("fail")
  /\ blind' = IF cur \in HasApply THEN blind ELSE blind \cup {cur}
  /\ UNCHANGED <<nodeVars, api, seenBoot, ready, runVars, pre, preDigest, drained,
                 hinted, left, boot0>>

--------------------------------------------------------------------------------
(* The gates.                                                              *)

\* wait_ssh_drop never fails: it sees the drop or gives up with a WARN, so it
\* only delays what follows.
WaitSshDrop ==
  /\ pc = "ssh_drop"
  /\ Goto("ssh_back")
  /\ UNCHANGED <<nodeVars, apiVars, runVars, attemptVars, historyVars>>

WaitSshBack ==
  /\ pc = "ssh_back"
  /\ \/ SshWorks(cur) /\ Goto(NextPc(cur, "bootid", "apiserver"))
     \/ TimesOut /\ Goto("fail")
  /\ UNCHANGED <<nodeVars, apiVars, runVars, attemptVars, historyVars>>

\* wait_apiserver_back, control plane only.
WaitApiserverBack ==
  /\ pc = "apiserver"
  /\ \/ KubectlWorks /\ Goto("bootid")
     \/ TimesOut /\ Goto("fail")
  /\ UNCHANGED <<nodeVars, apiVars, runVars, attemptVars, historyVars>>

\* The gate is off: --skip-gates, or no baseline to compare with.
GateOff == args.skipGates \/ pre = NoBoot

\* Mutant of BootIdChanged: any answer will do.
BootIdKnown == TRUE

\* cur_bootid != pre_bootid.
BootIdChanged == seenBoot[cur] # pre

\* The baseline was an earlier boot than the one the reboot was asked of.
StaleBaseline == cur \notin HasApply /\ pre # boot0

\* wait_node_bootid_changed.
WaitBootIdChanged ==
  /\ pc = "bootid"
  /\ \/ GateOff /\ Goto("ready")
     \/ ~GateOff /\ KubectlWorks /\ BootIdChanged /\ Goto("ready")
     \/ ~GateOff /\ TimesOut /\ Goto("fail")
  /\ blind' = IF GateOff \/ StaleBaseline THEN blind \cup {cur} ELSE blind
  /\ UNCHANGED <<nodeVars, apiVars, runVars, attemptVars, hinted, left, boot0>>

\* wait_node_ready: `Ready` and `Ready,SchedulingDisabled` both count.
WaitNodeReady ==
  /\ pc = "ready"
  /\ \/ KubectlWorks /\ ready[cur] /\ Goto("daemonsets")
     \/ TimesOut /\ Goto("fail")
  /\ UNCHANGED <<nodeVars, apiVars, runVars, attemptVars, historyVars>>

\* wait_node_daemonsets_ready; what the pods do is left open.
WaitDaemonSetsReady ==
  /\ pc = "daemonsets"
  /\ \/ Goto(NextPc(cur, "uncordon", "timer_start"))
     \/ ~args.skipGates /\ TimesOut /\ Goto("fail")
  /\ UNCHANGED <<nodeVars, apiVars, runVars, attemptVars, historyVars>>

\* The uncordon at the end of update_worker, --skip-drain or not.  A lost answer
\* counts as a failure although the node is uncordoned.
Uncordon ==
  /\ pc = "uncordon"
  /\ \/ /\ KubectlWorks
        /\ cordoned' = [cordoned EXCEPT ![cur] = FALSE]
        /\ uncordoned' = TRUE
        /\ Goto("timer_start")
     \/ /\ KubectlWorks /\ "kubectl" \in Faults
        /\ cordoned' = [cordoned EXCEPT ![cur] = FALSE]
        /\ UNCHANGED uncordoned
        /\ Goto("fail")
     \/ /\ KubectlFails
        /\ UNCHANGED <<cordoned, uncordoned>>
        /\ Goto("fail")
  /\ UNCHANGED <<nodeVars, api, seenBoot, ready, runVars, pre, preDigest, drained,
                 historyVars>>

\* timer_start (best effort, skipped by --skip-drain) and the successful return
\* of update_cp / update_worker into Results.succeeded.
TimerStart ==
  /\ pc = "timer_start"
  /\ \/ /\ ~args.skipDrain /\ SshWorks(cur)
        /\ timer' = [timer EXCEPT ![cur] = TRUE]
     \/ /\ args.skipDrain \/ SshFails(cur)
        /\ timer' = timer
  /\ succeeded' = succeeded \cup {cur}
  /\ cur' = NoNode
  /\ Goto("next")
  /\ UNCHANGED <<up, boot, image, staged, pending, apiVars, args, todo, failed,
                 verdict, runs, attemptVars, historyVars>>

--------------------------------------------------------------------------------
(* Failure.                                                                *)

\* Mutant of PrintsHint: no hint when the run goes on.
PrintsHintOnAbortOnly == drained /\ ~uncordoned /\ ~args.continueOnError

\* InFlight::drop.
PrintsHint == drained /\ ~uncordoned

\* An error leaves update_worker: the InFlight record is dropped, and
\* run_one_worker records the failure and tries timer_start, or lets the error
\* end the run.  A control plane failure always ends the run.
Fail ==
  /\ pc = "fail"
  /\ hinted' = IF PrintsHint THEN hinted \cup {cur} ELSE hinted
  /\ left' = left \cup {cur}
  /\ cur' = NoNode
  /\ \/ /\ cur # CP /\ args.continueOnError
        /\ failed' = failed \cup {cur}
        /\ \/ ~args.skipDrain /\ SshWorks(cur) /\ timer' = [timer EXCEPT ![cur] = TRUE]
           \/ (args.skipDrain \/ SshFails(cur)) /\ timer' = timer
        /\ Goto("next")
        /\ UNCHANGED verdict
     \/ /\ cur = CP \/ ~args.continueOnError
        /\ verdict' = "error"
        /\ Goto("done")
        /\ UNCHANGED <<failed, timer>>
  /\ UNCHANGED <<up, boot, image, staged, pending, apiVars, args, todo, succeeded,
                 runs, attemptVars, blind, boot0>>

\* SIGINT / SIGTERM: the handler thread of install_signal_handler ends the
\* process by the default disposition, so no destructor runs.
Signal ==
  /\ "signal" \in Faults
  /\ pc \notin {"idle", "done"}
  /\ left' = IF cur = NoNode THEN left ELSE left \cup {cur}
  /\ cur' = NoNode
  /\ verdict' = "killed"
  /\ Goto("done")
  /\ UNCHANGED <<nodeVars, apiVars, args, todo, succeeded, failed, runs, attemptVars,
                 hinted, blind, boot0>>

--------------------------------------------------------------------------------
(* The nodes and the apiserver.                                            *)

\* The remote bootc has staged the new deployment and queues the reboot.
RemoteUpgradeDone(n) ==
  /\ up[n] /\ pending[n] = "upgrade"
  /\ staged' = [staged EXCEPT ![n] = TRUE]
  /\ pending' = [pending EXCEPT ![n] = "reboot"]
  /\ UNCHANGED <<up, boot, image, timer, apiVars, pc, runVars, attemptVars,
                 historyVars>>

GoDown(n) ==
  /\ up[n] /\ pending[n] = "reboot"
  /\ up' = [up EXCEPT ![n] = FALSE]
  /\ api' = (api /\ n # CP)
  /\ UNCHANGED <<boot, image, staged, pending, timer, seenBoot, ready, cordoned, pc,
                 runVars, attemptVars, historyVars>>

\* The node boots into what was staged; its enabled timer starts with it.
BootUp(n) ==
  /\ ~up[n]
  /\ up' = [up EXCEPT ![n] = TRUE]
  /\ boot' = [boot EXCEPT ![n] = @ + 1]
  /\ image' = [image EXCEPT ![n] = IF staged[n] THEN "new" ELSE @]
  /\ staged' = [staged EXCEPT ![n] = FALSE]
  /\ pending' = [pending EXCEPT ![n] = "none"]
  /\ timer' = [timer EXCEPT ![n] = TRUE]
  /\ UNCHANGED <<apiVars, pc, runVars, attemptVars, historyVars>>

ApiserverStarts ==
  /\ ~api /\ up[CP]
  /\ api' = TRUE
  /\ UNCHANGED <<nodeVars, seenBoot, ready, cordoned, pc, runVars, attemptVars,
                 historyVars>>

\* The kubelet's status update: the only writer of bootID.
KubeletPosts(n) ==
  /\ up[n] /\ api
  /\ seenBoot[n] # boot[n] \/ ~ready[n]
  /\ seenBoot' = [seenBoot EXCEPT ![n] = boot[n]]
  /\ ready' = [ready EXCEPT ![n] = TRUE]
  /\ UNCHANGED <<nodeVars, api, cordoned, pc, runVars, attemptVars, historyVars>>

\* The node controller's grace period runs out.
NodeMonitor(n) ==
  /\ ~up[n] /\ api /\ ready[n]
  /\ ready' = [ready EXCEPT ![n] = FALSE]
  /\ UNCHANGED <<nodeVars, api, seenBoot, cordoned, pc, runVars, attemptVars,
                 historyVars>>

\* The auto-update timer fires: bootc-semver-update.service stages, no reboot.
TimerStages(n) ==
  /\ timer[n] /\ up[n] /\ image[n] = "old" /\ ~staged[n]
  /\ staged' = [staged EXCEPT ![n] = TRUE]
  /\ UNCHANGED <<up, boot, image, pending, timer, apiVars, pc, runVars, attemptVars,
                 historyVars>>

--------------------------------------------------------------------------------
Updater ==
  \/ \E n \in Nodes : StartNode(n)
  \/ Finish
  \/ TimerStop \/ Drain \/ CaptureBootId
  \/ UpgradeProbe \/ ApplyStart \/ ApplyReturns
  \/ FallbackStage \/ FallbackReboot \/ PostDigest \/ AlreadyCurrent
  \/ WaitSshDrop \/ WaitSshBack \/ WaitApiserverBack \/ WaitBootIdChanged
  \/ WaitNodeReady \/ WaitDaemonSetsReady \/ Uncordon \/ TimerStart \/ Fail

NodeStep(n) == RemoteUpgradeDone(n) \/ GoDown(n) \/ BootUp(n) \/ KubeletPosts(n)

Next ==
  \/ \E a \in Launches : Launch(a)
  \/ Updater
  \/ KubectlHangs
  \/ Signal
  \/ ApiserverStarts
  \/ \E n \in Nodes : NodeStep(n) \/ NodeMonitor(n) \/ TimerStages(n)

Spec == Init /\ [][Next]_vars

\* The process runs on and every wait in it is bounded; a machine told to reboot
\* goes down and boots; the kubelet posts and the apiserver is restarted by its
\* kubelet.  Signals, timers and the operator owe nothing.
FairSpec ==
  /\ Spec
  /\ WF_vars(Updater)
  /\ WF_vars(ApiserverStarts)
  /\ \A n \in Nodes : WF_vars(NodeStep(n))

--------------------------------------------------------------------------------
(* Properties.                                                             *)

\* A node that takes no workload, is down, or will go down by itself.
Disrupted(n) == cordoned[n] \/ ~up[n] \/ pending[n] = "reboot"

\* The roll is serial in effect, not only in its loop: when it has moved on from
\* a node, or ended, that node is up, schedulable and has no reboot coming, unless
\* its attempt is known to have failed or went through without the bootID gate
\* (docs/update-cluster.md, "Reboot detection (bootID)").
NoSilentDisruption ==
  \A n \in Nodes \ {cur} : Disrupted(n) => n \in left \cup blind

\* What the bootID gate is for: a worker is handed back to the scheduler after a
\* full pass through the gates only when it runs the new image in a boot later
\* than the captured one, never on a stale Ready (wait_node_bootid_changed).
GatedMeansRebooted ==
  pc \in {"ready", "daemonsets", "uncordon"} /\ ~GateOff
    => boot[cur] > pre /\ image[cur] = "new"

\* The recovery contract of InFlight and of the update_worker comment: when the
\* process is gone, every worker it left cordoned has had its `kubectl uncordon`
\* hint printed.
HintForEveryCordonedNode ==
  pc = "done" => \A n \in Workers : cordoned[n] => n \in hinted

\* --continue-on-error (docs/update-cluster.md): the summary of a run that reaches
\* its end names every node of the plan exactly once, and a worker still cordoned
\* at that point is in the failed list of this run or was left by an earlier one.
SummaryIsComplete ==
  pc = "done" /\ verdict \in {"ok", "partial"}
    => /\ succeeded \cup failed = Targets(args)
       /\ succeeded \cap failed = {}
       /\ \A n \in Targets(args) : cordoned[n] => n \in failed \cup left

\* BootcUpgradeOutcome::AlreadyCurrent is documented as "No update available":
\* a node treated so has no reboot coming.
AlreadyCurrentIsCurrent == pc = "current" => pending[cur] # "reboot"

\* docs/update-cluster.md on the timer: an aborted run does not leave auto-updates
\* off on the node that was in flight.
AbortRestoresTimer == pc = "done" => \A n \in Nodes : up[n] => timer[n]

\* Every run ends, whatever fails: each wait of the process is bounded, and the
\* watchdog of node_ssh_opts is there so that a wedged command "cannot stall the
\* whole rolling upgrade".
RunTerminates == pc = "next" ~> pc = "done"

\* With no fault at all a run brings every target to the new image, up,
\* schedulable and with its timer running.
RollCompletes ==
  pc = "next" ~> /\ pc = "done" /\ verdict = "ok"
                 /\ \A n \in Targets(args) :
                      /\ image[n] = "new" /\ up[n]
                      /\ ~cordoned[n] /\ timer[n]
================================================================================
