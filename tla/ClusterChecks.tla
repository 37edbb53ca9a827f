---------------------------- MODULE ClusterChecks ----------------------------
(***************************************************************************)
(* `hbird verify` (verify.rs) and `hbird kube-bench` (kube_bench.rs): the   *)
(* commands that look at a running cluster and, to do so, put a probe pod,  *)
(* a namespace or Jobs into it that they have to take out again.  A call    *)
(* over ssh (cp_kubectl.rs) may fail before the cluster saw it, or after it *)
(* took effect; ssh that loses the connection exits with 255, which is an   *)
(* exit status like any other to the caller.                                *)
(***************************************************************************)
EXTENDS Integers, Sequences, SequencesExt

CONSTANTS
  Target,        \* kube-bench targets: master, node
  MaxRun,        \* bound: commands started
  CheckFaults    \* "err": a call fails unseen, "lost": its answer is lost,
                 \* "delete": a best-effort delete fails, "die": hbird is killed

ASSUME MaxRunAssumption == MaxRun \in Nat

VARIABLES
  real,      \* the cluster as it is
  pod,       \* the run whose verify-hardening-privileged-probe exists, or 0
  nss,       \* the smoketest-<epoch> namespaces, by the run that named them
  job,       \* per target: the run whose Job exists, or 0
  complete,  \* per target: that Job has completed
  step,      \* the next call of the command
  sub,       \* the subcommand
  onHost,    \* the command runs on the KVM host
  runNo,     \* commands started so far
  todo,      \* kube-bench: targets left
  created,   \* kube-bench: Jobs to clean up
  report,    \* kube-bench: per target, the run whose Job wrote the log
  passed,    \* verify hardening: checks that passed
  cutOff,    \* history: the connection went away during the apply of the probe pod
  verdict,   \* what the command returns once it has cleaned up
  excused    \* history: a delete failed, the apply of the probe ended in an error, a kill

clusterVars == <<real, pod, nss, job, complete>>
startVars == <<sub, onHost, runNo>>
benchVars == <<todo, created, report>>
commandVars == <<step, startVars, benchVars, passed, cutOff, verdict, excused>>
checksVars == <<clusterVars, commandVars>>

Psa == {"enforce", "warn", "off"}
Facts == {"audit", "kernel", "rotate", "encrypted", "app"}
Subs == {"encryption", "hardening", "app-deploy", "all", "kube-bench"}
CheckOver == {"idle", "ok", "failed"}
CheckSteps ==
  {"resolve", "encryption", "probe", "unprobe", "audit", "kernel", "rotate", "summary",
   "mkns", "apply", "wait", "fetch", "rmns", "reach", "wipe", "applyJob", "waitJob",
   "logs", "cleanup"}

ChecksTypeOK ==
  /\ real.psa \in Psa /\ real.holds \subseteq Facts
  /\ pod \in 0 .. MaxRun /\ nss \subseteq 1 .. MaxRun
  /\ job \in [Target -> 0 .. MaxRun] /\ complete \in [Target -> BOOLEAN]
  /\ step \in CheckOver \cup CheckSteps /\ sub \in Subs /\ onHost \in BOOLEAN
  /\ runNo \in 0 .. MaxRun
  /\ todo \in Seq(Target) /\ created \subseteq Target
  /\ report \in [Target -> 0 .. MaxRun]
  /\ passed \subseteq {"psa", "audit", "kernel", "rotate"}
  /\ verdict \in {"ok", "failed"} /\ cutOff \in BOOLEAN /\ excused \in BOOLEAN

ChecksInit ==
  /\ \E p \in Psa, missing \in SUBSET Facts :
       real = [psa |-> p, holds |-> Facts \ missing]
  /\ pod = 0 /\ nss = {}
  /\ job = [t \in Target |-> 0] /\ complete = [t \in Target |-> FALSE]
  /\ step = "idle" /\ sub = "all" /\ onHost = FALSE /\ runNo = 0
  /\ todo = << >> /\ created = {} /\ report = [t \in Target |-> 0]
  /\ passed = {} /\ cutOff = FALSE /\ verdict = "ok" /\ excused = FALSE

Do(l) == step' = l /\ UNCHANGED <<startVars, benchVars, passed, cutOff, verdict, excused>>

--------------------------------------------------------------------------------
(* A call through cp_kubectl.rs.                                           *)

\* What may become of a call: it reached the cluster (hit) or not; the connection was cut
\* before the exit status came, or the call ended in the exit status cmdOk of the remote
\* command; what it wrote was heard or not.  A cut is exit status 255, or an error where
\* hbird-ssh timed out, could not wait for ssh or could not write to it.
Outcome(cmdOk) ==
  {[hit |-> TRUE, cut |-> FALSE, heard |-> TRUE, out |-> IF cmdOk THEN "ok" ELSE "nonzero"]}
    \cup (IF "err" \in CheckFaults
          THEN [hit : {FALSE}, cut : {TRUE}, heard : {FALSE}, out : {"nonzero", "err"}] ELSE {})
    \cup (IF "lost" \in CheckFaults
          THEN [hit : {TRUE}, cut : {TRUE}, heard : BOOLEAN, out : {"nonzero", "err"}] ELSE {})

\* cp_kubectl_raw, cp_ssh_capture: an error unless the exit status was 0.  A lenient call
\* whose success flag is tested comes to the same.
Raw(o) == o.out = "ok"

\* cp_kubectl_lenient, cp_kubectl_with_stdin_lenient, cp_ssh_lenient: a non-zero exit, the
\* 255 of ssh included, is an answer, and only an error of hbird-ssh is an error.
Lenient(o) == o.out # "err"

\* A delete whose result the code ignores.
BestEffort(deletes, leaves) ==
  \/ deletes /\ UNCHANGED excused
  \/ CheckFaults \cap {"delete", "err"} # {} /\ leaves /\ excused' = TRUE

--------------------------------------------------------------------------------
(* verify.                                                                 *)

\* parse_targets: every target is known before the first one runs.
Targets == SeqOf(Target, 2) \ {<< >>}

StartCheck ==
  /\ step \in CheckOver /\ runNo < MaxRun
  /\ runNo' = runNo + 1 /\ sub' \in Subs /\ onHost' \in BOOLEAN
  /\ step' = "resolve"
  /\ todo' \in IF sub' = "kube-bench" THEN Targets ELSE {<< >>}
  /\ created' = {} /\ report' = [t \in Target |-> 0]
  /\ passed' = {} /\ cutOff' = FALSE /\ verdict' = "ok" /\ excused' = FALSE
  /\ UNCHANGED clusterVars

\* The dispatch of verify.rs: on the KVM host itself app-deploy is skipped.
AfterHardening == IF sub = "all" /\ ~onHost THEN "mkns" ELSE "ok"
FirstStep ==
  CASE sub \in {"encryption", "all"} -> "encryption"
    [] sub = "hardening" -> "probe"
    [] sub = "app-deploy" -> IF onHost THEN "ok" ELSE "mkns"

\* VerifyPlan::from_args: the address of the control plane is found by flag, config or
\* domifaddr, or there is an error before anything is done.
Resolve ==
  /\ step = "resolve" /\ sub # "kube-bench"
  /\ Do(FirstStep) \/ Do("failed")
  /\ UNCHANGED clusterVars

\* BenchPlan::from_args, resolve_cp_ip: likewise, over ssh or on this host.
ResolveBench ==
  /\ step = "resolve" /\ sub = "kube-bench"
  /\ Do("reach") \/ Do("failed")
  /\ UNCHANGED clusterVars

\* run_verify_encryption: the verdict is the exit status of the script on the node.
VerifyEncryption ==
  /\ step = "encryption"
  /\ \E o \in Outcome("encrypted" \in real.holds) :
       Do(IF Raw(o) THEN IF sub = "all" THEN "probe" ELSE "ok" ELSE "failed")
  /\ UNCHANGED clusterVars

\* The answer of the apiserver carries the marker "violates PodSecurity".
Marker == real.psa \in {"enforce", "warn"}

\* Mutant of check_podsecurity_rejects_privileged: the marker alone is a rejection.
RejectedByMarker(o) == o.heard /\ Marker

\* check_podsecurity_rejects_privileged: a rejection is a non-zero exit and the marker in
\* what was heard; in warn mode the marker comes with a pod that was admitted.
Rejected(o) == ~Raw(o) /\ o.heard /\ Marker

\* apply of the privileged pod.  An error ends the command; any exit status goes on to the
\* delete.
Probe ==
  /\ step = "probe"
  /\ \E o \in Outcome(real.psa # "enforce") :
       /\ pod' = IF pod = 0 /\ o.hit /\ real.psa # "enforce" THEN runNo ELSE pod
       /\ step' = IF Lenient(o) THEN "unprobe" ELSE "failed"
       /\ passed' = IF Lenient(o) /\ Rejected(o) THEN {"psa"} ELSE {}
       /\ cutOff' = o.cut
       /\ excused' = (o.hit /\ ~Lenient(o))
  /\ UNCHANGED <<real, nss, job, complete, startVars, benchVars, verdict>>

\* delete of the pod, in case it was admitted.
Unprobe ==
  /\ step = "unprobe"
  /\ BestEffort(pod' = 0, UNCHANGED pod)
  /\ step' = "audit"
  /\ UNCHANGED <<real, nss, job, complete, startVars, benchVars, passed, cutOff, verdict>>

\* One ssh call per check; an ssh error ends the command, a failed check does not.
Check(fact, next) ==
  /\ step = fact
  /\ \E o \in Outcome(fact \in real.holds) :
       /\ step' = IF Lenient(o) THEN next ELSE "failed"
       /\ passed' = IF Raw(o) THEN passed \cup {fact} ELSE passed
  /\ UNCHANGED <<clusterVars, startVars, benchVars, cutOff, verdict, excused>>

AuditCheck == Check("audit", "kernel")
KernelCheck == Check("kernel", "rotate")
RotateCheck == Check("rotate", "summary")

\* The end of run_verify_hardening: all four, or an error.
HardeningSummary ==
  /\ step = "summary"
  /\ Do(IF passed = {"psa", "audit", "kernel", "rotate"} THEN AfterHardening ELSE "failed")
  /\ UNCHANGED clusterVars

\* Mutant of run_verify_app_deploy: the guard is armed once the namespace exists.
UnguardedCreate == "failed"

\* NamespaceCleanup is armed before the namespace is made: an error runs it too.
CreateFailsTo == "rmns"

Leave(l) ==
  /\ step' = l /\ verdict' = "failed"
  /\ UNCHANGED <<startVars, benchVars, passed, cutOff, excused>>

\* create ns smoketest-<epoch>.
MakeNamespace ==
  /\ step = "mkns"
  /\ \E o \in Outcome(TRUE) :
       /\ nss' = IF o.hit THEN nss \cup {runNo} ELSE nss
       /\ IF Raw(o) THEN Do("apply") ELSE Leave(CreateFailsTo)
  /\ UNCHANGED <<real, pod, job, complete>>

\* apply of the nginx Deployment, the wait for it, and the page over its ClusterIP.
AppStep(at, next) ==
  /\ step = at
  /\ \E o \in Outcome("app" \in real.holds) : IF Raw(o) THEN Do(next) ELSE Leave("rmns")
  /\ UNCHANGED clusterVars

AppApply == AppStep("apply", "wait")
AppWait == AppStep("wait", "fetch")
AppFetch == AppStep("fetch", "rmns")

\* Drop of NamespaceCleanup: delete ns, its result ignored.
RemoveNamespace ==
  /\ step = "rmns"
  /\ BestEffort(nss' = nss \ {runNo}, UNCHANGED nss)
  /\ step' = verdict
  /\ UNCHANGED <<real, pod, job, complete, startVars, benchVars, passed, cutOff, verdict>>

--------------------------------------------------------------------------------
(* kube-bench.                                                             *)

\* cluster_reachable_with_exec, log_control_plane_node_with_exec.
Reach ==
  /\ step = "reach"
  /\ \E o \in Outcome(TRUE) : Do(IF Raw(o) THEN "wipe" ELSE "failed")
  /\ UNCHANGED clusterVars

\* Mutant of run_all_with_exec: a Job is tracked once it was applied.
TrackedLate(t) == created

\* run_all_with_exec tracks the Job before it is applied.
Tracked(t) == created \cup {t}

\* Mutant of run_target_with_exec: a leftover Job is not deleted first.
LeftoverStays(t) == job

\* delete job --ignore-not-found.
LeftoverGone(t) == [job EXCEPT ![t] = 0]

\* The loop over the targets, and the delete of a leftover Job, which is best-effort.
Wipe ==
  /\ step = "wipe"
  /\ IF todo = << >>
     THEN step' = "cleanup" /\ UNCHANGED <<job, created, excused>>
     ELSE /\ created' = Tracked(Head(todo))
          /\ BestEffort(job' = LeftoverGone(Head(todo)), UNCHANGED job)
          /\ step' = "applyJob"
  /\ UNCHANGED <<real, pod, nss, complete, startVars, todo, report, passed, cutOff, verdict>>

\* apply of the Job: one that exists is left as it is ("unchanged").
ApplyJob ==
  /\ step = "applyJob"
  /\ \E o \in Outcome(TRUE), t \in {Head(todo)} :
       /\ IF o.hit /\ job[t] = 0
          THEN job' = [job EXCEPT ![t] = runNo] /\ complete' = [complete EXCEPT ![t] = FALSE]
          ELSE UNCHANGED <<job, complete>>
       /\ IF Raw(o) THEN Do("waitJob") ELSE Leave("cleanup")
  /\ UNCHANGED <<real, pod, nss>>

\* wait --for=condition=complete: until then, or for the timeout.
WaitJob ==
  /\ step = "waitJob"
  /\ \E o \in Outcome(complete[Head(todo)]) : IF Raw(o) THEN Do("logs") ELSE Leave("cleanup")
  /\ UNCHANGED clusterVars

\* logs of the Job: any exit status will do, but nothing heard is an error.
Logs ==
  /\ step = "logs"
  /\ \E o \in Outcome(TRUE), empty \in BOOLEAN, t \in {Head(todo)} :
       IF Lenient(o) /\ o.heard /\ ~empty
       THEN /\ report' = [report EXCEPT ![t] = job[t]]
            /\ todo' = Tail(todo) /\ step' = "wipe"
            /\ UNCHANGED <<startVars, created, passed, cutOff, verdict, excused>>
       ELSE Leave("cleanup")
  /\ UNCHANGED clusterVars

\* cleanup_with_exec: every tracked Job, each delete best-effort.
Cleanup ==
  /\ step = "cleanup"
  /\ BestEffort(job' = [t \in Target |-> IF t \in created THEN 0 ELSE job[t]],
                \E kept \in SUBSET created :
                  job' = [t \in Target |-> IF t \in created \ kept THEN 0 ELSE job[t]])
  /\ step' = verdict
  /\ UNCHANGED <<real, pod, nss, complete, startVars, benchVars, passed, cutOff, verdict>>

\* The Job controller runs a Job to its end.
JobCompletes ==
  /\ \E t \in Target :
       job[t] # 0 /\ ~complete[t] /\ complete' = [complete EXCEPT ![t] = TRUE]
  /\ UNCHANGED <<real, pod, nss, job, commandVars>>

\* Ctrl-C or kill: no guard runs.
Killed ==
  /\ "die" \in CheckFaults /\ step \notin CheckOver
  /\ step' = "failed" /\ excused' = TRUE
  /\ UNCHANGED <<clusterVars, startVars, benchVars, passed, cutOff, verdict>>

VerifyStep ==
  \/ Resolve \/ VerifyEncryption \/ Probe \/ Unprobe \/ AuditCheck \/ KernelCheck
  \/ RotateCheck \/ HardeningSummary \/ MakeNamespace \/ AppApply \/ AppWait \/ AppFetch
  \/ RemoveNamespace
BenchStep == ResolveBench \/ Reach \/ Wipe \/ ApplyJob \/ WaitJob \/ Logs \/ Cleanup

ChecksNext == StartCheck \/ VerifyStep \/ BenchStep \/ JobCompletes \/ Killed
ChecksSpec == ChecksInit /\ [][ChecksNext]_checksVars

--------------------------------------------------------------------------------
(* Properties.                                                             *)

\* verify says PASS only of a cluster that is as it says, whatever calls failed: the secrets
\* encrypted, the audit log and the kubelet flags there, off the KVM host an app that was
\* served, and the privileged pod rejected.  One PASS is not to be trusted: of a cluster
\* that only warns, when the connection went away after the warning was heard and the exit
\* status 255 of ssh was taken for the rejection.
PassIsTrue ==
  step = "ok" =>
    /\ sub \in {"encryption", "all"} => "encrypted" \in real.holds
    /\ sub \in {"hardening", "all"} =>
         /\ real.psa = "enforce" \/ (real.psa = "warn" /\ cutOff)
         /\ {"audit", "kernel", "rotate"} \subseteq real.holds
    /\ sub \in {"app-deploy", "all"} /\ ~onHost => "app" \in real.holds

\* A check that ends, well or not, has taken its pod, its namespace and its Jobs out of
\* the cluster, a connection lost after the apply included, unless a delete failed, hbird
\* was killed, or the apply of the probe pod ended in an error of hbird-ssh itself.
NothingLeftBehind ==
  step \in {"ok", "failed"} /\ ~excused =>
    pod # runNo /\ runNo \notin nss /\ \A t \in Target : job[t] # runNo

\* A kube-bench report is from Jobs of this run, not from what an earlier run left, unless
\* the best-effort delete of a leftover failed.
ReportIsFresh ==
  step = "ok" /\ sub = "kube-bench" /\ ~excused =>
    \A t \in created : report[t] = runNo
==============================================================================
