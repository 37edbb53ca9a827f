-------------------------- MODULE ClusterChecksProofs --------------------------
(***************************************************************************)
(* verify and kube-bench, for any targets, any number of runs and any      *)
(* faults: a PASS is true, nothing stays in the cluster, and a report is   *)
(* from the run that prints it.                                            *)
(***************************************************************************)
EXTENDS ClusterChecks, TLAPS

HardeningSteps == {"probe", "unprobe", "audit", "kernel", "rotate", "summary"}
AppSteps == {"mkns", "apply", "wait", "fetch", "rmns"}
JobSteps == {"applyJob", "waitJob", "logs"}
BenchSteps == {"reach", "wipe", "cleanup"} \cup JobSteps
AllPassed == {"psa", "audit", "kernel", "rotate"}

\* Each subcommand makes its own calls only.
Routed ==
  /\ step = "encryption" => sub \in {"encryption", "all"}
  /\ step \in HardeningSteps => sub \in {"hardening", "all"}
  /\ step \in AppSteps => sub \in {"app-deploy", "all"} /\ ~onHost
  /\ step \in BenchSteps => sub = "kube-bench"
  /\ step # "idle" => runNo > 0

\* What the command has seen of the cluster by the call it is at.
Seen ==
  /\ \/ sub = "all" /\ step \in HardeningSteps \cup AppSteps \cup {"ok"}
     \/ sub = "encryption" /\ step = "ok"
     => "encrypted" \in real.holds
  /\ "psa" \in passed => real.psa = "enforce" \/ (real.psa = "warn" /\ cutOff)
  /\ passed \ {"psa"} \subseteq real.holds
  /\ \/ sub = "all" /\ step \in AppSteps \cup {"ok"}
     \/ sub = "hardening" /\ step = "ok"
     => passed = AllPassed
  /\ \/ step = "rmns" /\ verdict = "ok"
     \/ step = "ok" /\ sub \in {"app-deploy", "all"} /\ ~onHost
     => "app" \in real.holds

\* Names carry the number of the run, so an earlier run's never clash with this one's.
Numbered ==
  /\ pod <= runNo
  /\ \A n \in nss : n <= runNo
  /\ \A t \in Target : job[t] <= runNo

\* Where this run's pod, namespace and Jobs may be: under a guard that will delete them.
Guarded ==
  /\ step \in {"resolve", "encryption", "probe"} => ~excused
  /\ step # "idle" /\ ~excused =>
       /\ step # "unprobe" => pod # runNo
       /\ step \notin {"apply", "wait", "fetch", "rmns"} => runNo \notin nss
       /\ \A t \in Target : job[t] = runNo => step \in BenchSteps /\ t \in created

\* A target that is done was reported by a Job of this run.
Reported ==
  /\ step \in {"resolve", "reach"} => created = {}
  /\ step \in JobSteps => todo # << >> /\ Head(todo) \in created
  /\ ~excused =>
       /\ step = "applyJob" => job[Head(todo)] = 0
       /\ step \in {"waitJob", "logs"} => job[Head(todo)] = runNo
       /\ step \in {"reach", "wipe"} \/ (sub = "kube-bench" /\ step = "ok")
            \/ (step = "cleanup" /\ verdict = "ok")
          => \A t \in created : report[t] = runNo
       /\ step \in JobSteps => \A t \in created \ {Head(todo)} : report[t] = runNo

IndInv == ChecksTypeOK /\ Routed /\ Seen /\ Numbered /\ Guarded /\ Reported

--------------------------------------------------------------------------------
(* Types.                                                                  *)

\* The actions ChecksNext is made of.
LEMMA NextCases ==
  ASSUME [ChecksNext]_checksVars
  PROVE \/ StartCheck \/ Resolve \/ ResolveBench \/ VerifyEncryption \/ Probe \/ Unprobe
        \/ AuditCheck \/ KernelCheck \/ RotateCheck \/ HardeningSummary
        \/ MakeNamespace \/ AppApply \/ AppWait \/ AppFetch \/ RemoveNamespace \/ Reach
        \/ Wipe \/ ApplyJob \/ WaitJob \/ Logs \/ Cleanup \/ JobCompletes \/ Killed
        \/ UNCHANGED checksVars
  BY DEF ChecksNext, VerifyStep, BenchStep

\* Exit status 0 is that of a remote command that ran and succeeded; a status that came
\* over an uncut connection is the command's own.
LEMMA OutcomeFacts ==
  ASSUME NEW c \in BOOLEAN, NEW o \in Outcome(c)
  PROVE /\ o.hit \in BOOLEAN /\ o.cut \in BOOLEAN
        /\ Raw(o) => o.hit /\ c
        /\ ~o.cut => o.hit /\ (~Raw(o) => ~c)
<1>1. CASE o = [hit |-> TRUE, cut |-> FALSE, heard |-> TRUE,
               out |-> IF c THEN "ok" ELSE "nonzero"]
  BY <1>1 DEF Raw
<1>2. CASE o \in [hit : BOOLEAN, cut : {TRUE}, heard : BOOLEAN, out : {"nonzero", "err"}]
  BY <1>2 DEF Raw
<1> QED
  BY <1>1, <1>2 DEF Outcome

\* A check on the node that exits with 0 was of a node that is as checked.
LEMMA CheckedFact ==
  \A f : \A o \in Outcome(f \in real.holds) : Raw(o) => f \in real.holds
<1> SUFFICES ASSUME NEW f, NEW o \in Outcome(f \in real.holds), Raw(o)
             PROVE f \in real.holds
  OBVIOUS
<1>1. (f \in real.holds) \in BOOLEAN
  OBVIOUS
<1> QED
  BY <1>1, OutcomeFacts

\* parse_targets gives a list of targets.
LEMMA TargetsTyped == \A l \in Targets : l \in Seq(Target)
<1> SUFFICES ASSUME NEW l \in Targets PROVE l \in Seq(Target)
  OBVIOUS
<1>1. PICK m \in 0 .. 2 : l \in [1 .. m -> Target]
  BY DEF Targets, SeqOf
<1> QED
  BY <1>1

\* The Job of the target at hand is applied, or was there, or the call failed.
LEMMA ApplyJobFacts ==
  ASSUME ChecksTypeOK, Reported, ApplyJob
  PROVE /\ Head(todo) \in Target /\ Head(todo) \in created
        /\ job' \in [Target -> 0 .. MaxRun] /\ complete' \in [Target -> BOOLEAN]
        /\ \A t \in Target : t # Head(todo) => job'[t] = job[t]
        /\ job'[Head(todo)] \in {job[Head(todo)], runNo}
        /\ \/ step' = "waitJob" /\ UNCHANGED verdict
              /\ (job[Head(todo)] = 0 => job'[Head(todo)] = runNo)
           \/ step' = "cleanup" /\ verdict' = "failed"
        /\ UNCHANGED <<real, pod, nss, startVars, benchVars, passed, cutOff, excused>>
<1>1. step = "applyJob" /\ Head(todo) \in Target /\ Head(todo) \in created
  BY DEF ApplyJob, ChecksTypeOK, Reported, JobSteps
<1>2. PICK o \in Outcome(TRUE) :
        /\ IF o.hit /\ job[Head(todo)] = 0
           THEN /\ job' = [job EXCEPT ![Head(todo)] = runNo]
                /\ complete' = [complete EXCEPT ![Head(todo)] = FALSE]
           ELSE UNCHANGED <<job, complete>>
        /\ IF Raw(o) THEN Do("waitJob") ELSE Leave("cleanup")
  BY DEF ApplyJob
<1>3. Raw(o) => o.hit
  BY OutcomeFacts
<1>4. /\ job' \in [Target -> 0 .. MaxRun] /\ complete' \in [Target -> BOOLEAN]
      /\ \A t \in Target : t # Head(todo) => job'[t] = job[t]
      /\ job'[Head(todo)] \in {job[Head(todo)], runNo}
  <2>1. CASE o.hit /\ job[Head(todo)] = 0
    BY <1>1, <1>2, <2>1 DEF ChecksTypeOK
  <2>2. CASE ~(o.hit /\ job[Head(todo)] = 0)
    BY <1>1, <1>2, <2>2 DEF ChecksTypeOK
  <2> QED
    BY <2>1, <2>2
<1>5. o.hit /\ job[Head(todo)] = 0 => job'[Head(todo)] = runNo
  BY <1>1, <1>2 DEF ChecksTypeOK
<1>6. UNCHANGED <<real, pod, nss, startVars, benchVars, passed, cutOff, excused>>
  BY <1>2 DEF ApplyJob, Do, Leave
<1> QED
  BY <1>1, <1>2, <1>3, <1>4, <1>5, <1>6 DEF Do, Leave

\* The log of the target at hand is taken from its Job, or the call failed.
LEMMA LogsFacts ==
  ASSUME ChecksTypeOK, Reported, Logs
  PROVE /\ Head(todo) \in Target /\ Head(todo) \in created
        /\ \/ /\ step' = "wipe" /\ UNCHANGED verdict
              /\ report' = [report EXCEPT ![Head(todo)] = job[Head(todo)]]
              /\ todo' \in Seq(Target)
           \/ step' = "cleanup" /\ verdict' = "failed" /\ UNCHANGED <<report, todo>>
        /\ UNCHANGED <<clusterVars, startVars, created, passed, cutOff, excused>>
<1>1. todo # << >> /\ Head(todo) \in Target /\ Head(todo) \in created
  BY DEF Logs, ChecksTypeOK, Reported, JobSteps
<1>2. Tail(todo) \in Seq(Target)
  BY <1>1 DEF ChecksTypeOK
<1> QED
  BY <1>1, <1>2 DEF Logs, Leave, benchVars

\* Every step keeps the types; a target is taken from a list that is not empty.
LEMMA TypeStep ==
  ASSUME ChecksTypeOK, Routed, Reported, [ChecksNext]_checksVars
  PROVE ChecksTypeOK'
<1> USE MaxRunAssumption DEF ChecksTypeOK, CheckOver, CheckSteps, Subs
<1>1. ASSUME StartCheck PROVE ChecksTypeOK'
  <2>0. << >> \in Seq(Target)
    OBVIOUS
  <2>1. todo' \in Seq(Target)
    <3>1. todo' \in Targets \/ todo' = << >>
      BY <1>1 DEF StartCheck
    <3> QED
      BY <2>0, <3>1, TargetsTyped
  <2>2. /\ verdict' \in {"ok", "failed"} /\ onHost' \in BOOLEAN
        /\ cutOff' \in BOOLEAN /\ excused' \in BOOLEAN
    BY <1>1 DEF StartCheck
  <2>3. runNo' \in 0 .. MaxRun /\ report' \in [Target -> 0 .. MaxRun]
    BY <1>1 DEF StartCheck
  <2>4. /\ step' = "resolve" /\ sub' \in Subs /\ created' = {} /\ passed' = {}
        /\ UNCHANGED clusterVars
    BY <1>1 DEF StartCheck
  <2> QED
    BY <2>1, <2>2, <2>3, <2>4 DEF clusterVars
<1>2. ASSUME Resolve PROVE ChecksTypeOK'
  BY <1>2 DEF Resolve, Do, FirstStep, startVars, benchVars, clusterVars
<1>3. ASSUME ResolveBench PROVE ChecksTypeOK'
  BY <1>3 DEF ResolveBench, Do, startVars, benchVars, clusterVars
<1>4. ASSUME VerifyEncryption PROVE ChecksTypeOK'
  BY <1>4 DEF VerifyEncryption, Do, Outcome, Raw, Lenient, startVars, benchVars, clusterVars
<1>5. ASSUME Probe PROVE ChecksTypeOK'
  <2>1. PICK o \in Outcome(real.psa # "enforce") :
          /\ pod' = IF pod = 0 /\ o.hit /\ real.psa # "enforce" THEN runNo ELSE pod
          /\ step' = IF Lenient(o) THEN "unprobe" ELSE "failed"
          /\ passed' \in {{"psa"}, {}}
          /\ cutOff' = o.cut /\ excused' = (o.hit /\ ~Lenient(o))
    BY <1>5 DEF Probe
  <2>2. cutOff' \in BOOLEAN
    BY <2>1, OutcomeFacts
  <2>3. excused' \in BOOLEAN
    BY <2>1, OutcomeFacts
  <2>4. pod' \in 0 .. MaxRun /\ step' \in {"unprobe", "failed"}
    BY <2>1
  <2>5. UNCHANGED <<real, nss, job, complete, startVars, benchVars, verdict>>
    BY <1>5 DEF Probe
  <2> QED
    BY <2>1, <2>2, <2>3, <2>4, <2>5 DEF startVars, benchVars
<1>6. ASSUME Unprobe PROVE ChecksTypeOK'
  <2>1. excused' \in BOOLEAN
    BY <1>6 DEF Unprobe, BestEffort
  <2>2. pod' \in 0 .. MaxRun
    BY <1>6 DEF Unprobe, BestEffort
  <2>3. /\ step' = "audit"
        /\ UNCHANGED <<real, nss, job, complete, startVars, benchVars, passed, cutOff, verdict>>
    BY <1>6 DEF Unprobe, startVars, benchVars
  <2> QED
    BY <2>1, <2>2, <2>3 DEF startVars, benchVars
<1>7. ASSUME AuditCheck PROVE ChecksTypeOK'
  BY <1>7 DEF AuditCheck, Check, Outcome, Raw, Lenient, clusterVars, startVars, benchVars
<1>8. ASSUME KernelCheck PROVE ChecksTypeOK'
  BY <1>8 DEF KernelCheck, Check, Outcome, Raw, Lenient, clusterVars, startVars, benchVars
<1>9. ASSUME RotateCheck PROVE ChecksTypeOK'
  BY <1>9 DEF RotateCheck, Check, Outcome, Raw, Lenient, clusterVars, startVars, benchVars
<1>10. ASSUME HardeningSummary PROVE ChecksTypeOK'
  BY <1>10 DEF HardeningSummary, Do, AfterHardening, clusterVars, startVars, benchVars
<1>11. ASSUME MakeNamespace PROVE ChecksTypeOK'
  <2>1. nss' \subseteq 1 .. MaxRun
    BY <1>11 DEF MakeNamespace, Routed
  <2> QED
    BY <1>11, <2>1 DEF MakeNamespace, Do, Leave, CreateFailsTo, startVars, benchVars
<1>12. ASSUME AppApply PROVE ChecksTypeOK'
  BY <1>12 DEF AppApply, AppStep, Do, Leave, Outcome, Raw, clusterVars, startVars, benchVars
<1>13. ASSUME AppWait PROVE ChecksTypeOK'
  BY <1>13 DEF AppWait, AppStep, Do, Leave, Outcome, Raw, clusterVars, startVars, benchVars
<1>14. ASSUME AppFetch PROVE ChecksTypeOK'
  BY <1>14 DEF AppFetch, AppStep, Do, Leave, Outcome, Raw, clusterVars, startVars, benchVars
<1>15. ASSUME RemoveNamespace PROVE ChecksTypeOK'
  BY <1>15 DEF RemoveNamespace, BestEffort, startVars, benchVars
<1>16. ASSUME Reach PROVE ChecksTypeOK'
  BY <1>16 DEF Reach, Do, Outcome, Raw, clusterVars, startVars, benchVars
<1>17. ASSUME Wipe PROVE ChecksTypeOK'
  <2>1. CASE todo = << >>
    BY <1>17, <2>1 DEF Wipe, startVars
  <2>2. CASE todo # << >>
    <3>1. Head(todo) \in Target
      BY <2>2
    <3>2. created' \subseteq Target
      BY <1>17, <2>2, <3>1 DEF Wipe, Tracked
    <3>3. job' \in [Target -> 0 .. MaxRun]
      <4>1. job' = LeftoverGone(Head(todo)) \/ job' = job
        BY <1>17, <2>2 DEF Wipe, BestEffort
      <4>2. job \in [Target -> 0 .. MaxRun] /\ 0 \in 0 .. MaxRun
        OBVIOUS
      <4>3. LeftoverGone(Head(todo)) \in [Target -> 0 .. MaxRun]
        BY ONLY <3>1, <4>2 DEF LeftoverGone
      <4> QED
        BY ONLY <4>1, <4>2, <4>3
    <3>4. excused' \in BOOLEAN
      BY <1>17, <2>2 DEF Wipe, BestEffort
    <3>5. step' = "applyJob"
      BY <1>17, <2>2 DEF Wipe
    <3> QED
      BY <1>17, <3>2, <3>3, <3>4, <3>5 DEF Wipe, startVars
  <2> QED
    BY <2>1, <2>2
<1>18. ASSUME ApplyJob PROVE ChecksTypeOK'
  BY <1>18, ApplyJobFacts DEF startVars, benchVars
<1>19. ASSUME WaitJob PROVE ChecksTypeOK'
  BY <1>19 DEF WaitJob, Do, Leave, Outcome, Raw, clusterVars, startVars, benchVars
<1>20. ASSUME Logs PROVE ChecksTypeOK'
  <2>1. report' \in [Target -> 0 .. MaxRun] /\ todo' \in Seq(Target)
    BY <1>20, LogsFacts
  <2> QED
    BY <1>20, <2>1, LogsFacts DEF clusterVars, startVars
<1>21. ASSUME Cleanup PROVE ChecksTypeOK'
  <2>1. excused' \in BOOLEAN
    BY <1>21 DEF Cleanup, BestEffort
  <2>2. job' \in [Target -> 0 .. MaxRun]
    <3>1. PICK gone \in SUBSET created :
            job' = [t \in Target |-> IF t \in gone THEN 0 ELSE job[t]]
      BY <1>21 DEF Cleanup, BestEffort
    <3> QED
      BY <3>1
  <2>3. step' = verdict
        /\ UNCHANGED <<real, pod, nss, complete, startVars, benchVars, passed, cutOff, verdict>>
    BY <1>21 DEF Cleanup, startVars, benchVars
  <2> QED
    BY <2>1, <2>2, <2>3 DEF startVars, benchVars
<1>22. ASSUME JobCompletes PROVE ChecksTypeOK'
  BY <1>22 DEF JobCompletes, commandVars, startVars, benchVars
<1>23. ASSUME Killed PROVE ChecksTypeOK'
  BY <1>23 DEF Killed, clusterVars, startVars, benchVars
<1>24. ASSUME UNCHANGED checksVars PROVE ChecksTypeOK'
  BY <1>24 DEF checksVars, clusterVars, commandVars, startVars, benchVars
<1> QED
  BY NextCases, <1>1, <1>2, <1>3, <1>4, <1>5, <1>6, <1>7, <1>8, <1>9, <1>10, <1>11, <1>12,
    <1>13, <1>14, <1>15, <1>16, <1>17, <1>18, <1>19, <1>20, <1>21, <1>22, <1>23, <1>24

\* Each call leads to the next one of the same subcommand.
LEMMA RoutedStep ==
  ASSUME ChecksTypeOK, Routed, [ChecksNext]_checksVars
  PROVE Routed'
<1> USE DEF Routed, HardeningSteps, AppSteps, JobSteps, BenchSteps
<1>1. ASSUME StartCheck PROVE Routed'
  BY <1>1 DEF StartCheck, clusterVars, ChecksTypeOK, Subs
<1>2. ASSUME Resolve PROVE Routed'
  BY <1>2 DEF Resolve, Do, FirstStep, startVars, benchVars, clusterVars, ChecksTypeOK, Subs
<1>3. ASSUME ResolveBench PROVE Routed'
  BY <1>3 DEF ResolveBench, Do, startVars, benchVars, clusterVars
<1>4. ASSUME VerifyEncryption PROVE Routed'
  BY <1>4 DEF VerifyEncryption, Do, Outcome, Raw, Lenient, startVars, benchVars, clusterVars
<1>5. ASSUME Probe PROVE Routed'
  BY <1>5 DEF Probe, Outcome, Raw, Lenient, Rejected, Marker, startVars, benchVars
<1>6. ASSUME Unprobe PROVE Routed'
  BY <1>6 DEF Unprobe, BestEffort, startVars, benchVars
<1>7. ASSUME AuditCheck PROVE Routed'
  BY <1>7 DEF AuditCheck, Check, Outcome, Raw, Lenient, clusterVars, startVars, benchVars
<1>8. ASSUME KernelCheck PROVE Routed'
  BY <1>8 DEF KernelCheck, Check, Outcome, Raw, Lenient, clusterVars, startVars, benchVars
<1>9. ASSUME RotateCheck PROVE Routed'
  BY <1>9 DEF RotateCheck, Check, Outcome, Raw, Lenient, clusterVars, startVars, benchVars
<1>10. ASSUME HardeningSummary PROVE Routed'
  BY <1>10 DEF HardeningSummary, Do, AfterHardening, clusterVars, startVars, benchVars
<1>11. ASSUME MakeNamespace PROVE Routed'
  BY <1>11 DEF MakeNamespace, Do, Leave, CreateFailsTo, Outcome, Raw, startVars, benchVars
<1>12. ASSUME AppApply PROVE Routed'
  BY <1>12 DEF AppApply, AppStep, Do, Leave, Outcome, Raw, clusterVars, startVars, benchVars
<1>13. ASSUME AppWait PROVE Routed'
  BY <1>13 DEF AppWait, AppStep, Do, Leave, Outcome, Raw, clusterVars, startVars, benchVars
<1>14. ASSUME AppFetch PROVE Routed'
  BY <1>14 DEF AppFetch, AppStep, Do, Leave, Outcome, Raw, clusterVars, startVars, benchVars
<1>15. ASSUME RemoveNamespace PROVE Routed'
  BY <1>15 DEF RemoveNamespace, BestEffort, startVars, benchVars, ChecksTypeOK
<1>16. ASSUME Reach PROVE Routed'
  BY <1>16 DEF Reach, Do, Outcome, Raw, clusterVars, startVars, benchVars
<1>17. ASSUME Wipe PROVE Routed'
  BY <1>17 DEF Wipe, Tracked, BestEffort, LeftoverGone, startVars
<1>18. ASSUME ApplyJob PROVE Routed'
  BY <1>18 DEF ApplyJob, Do, Leave, Outcome, Raw, startVars, benchVars
<1>19. ASSUME WaitJob PROVE Routed'
  BY <1>19 DEF WaitJob, Do, Leave, Outcome, Raw, clusterVars, startVars, benchVars
<1>20. ASSUME Logs PROVE Routed'
  BY <1>20 DEF Logs, Leave, Outcome, Lenient, clusterVars, startVars, benchVars
<1>21. ASSUME Cleanup PROVE Routed'
  BY <1>21 DEF Cleanup, BestEffort, startVars, benchVars, ChecksTypeOK
<1>22. ASSUME JobCompletes PROVE Routed'
  BY <1>22 DEF JobCompletes, commandVars, startVars, benchVars
<1>23. ASSUME Killed PROVE Routed'
  BY <1>23 DEF Killed, clusterVars, startVars, benchVars, CheckOver
<1>24. ASSUME UNCHANGED checksVars PROVE Routed'
  BY <1>24 DEF checksVars, clusterVars, commandVars, startVars, benchVars
<1> QED
  BY NextCases, <1>1, <1>2, <1>3, <1>4, <1>5, <1>6, <1>7, <1>8, <1>9, <1>10, <1>11, <1>12,
    <1>13, <1>14, <1>15, <1>16, <1>17, <1>18, <1>19, <1>20, <1>21, <1>22, <1>23, <1>24

\* A check that passed was answered by the cluster, and the next call starts from that.
LEMMA SeenStep ==
  ASSUME ChecksTypeOK, Routed, Seen, [ChecksNext]_checksVars
  PROVE Seen'
<1> USE DEF Routed, Seen, HardeningSteps, AppSteps, JobSteps, BenchSteps, AllPassed
<1>1. ASSUME StartCheck PROVE Seen'
  BY <1>1 DEF StartCheck, clusterVars, ChecksTypeOK, Subs, Psa
<1>2. ASSUME Resolve PROVE Seen'
  BY <1>2 DEF Resolve, Do, FirstStep, startVars, benchVars, clusterVars, ChecksTypeOK, Subs, Psa
<1>3. ASSUME ResolveBench PROVE Seen'
  BY <1>3 DEF ResolveBench, Do, startVars, benchVars, clusterVars
<1>4. ASSUME VerifyEncryption PROVE Seen'
  BY <1>4, CheckedFact DEF VerifyEncryption, Do, startVars, benchVars, clusterVars
<1>5. ASSUME Probe PROVE Seen'
  <2>1. PICK o \in Outcome(real.psa # "enforce") :
          /\ step' = IF Lenient(o) THEN "unprobe" ELSE "failed"
          /\ passed' = IF Lenient(o) /\ Rejected(o) THEN {"psa"} ELSE {}
          /\ cutOff' = o.cut
    BY <1>5 DEF Probe
  <2>2. "psa" \in passed' => real.psa = "enforce" \/ (real.psa = "warn" /\ cutOff')
    BY <2>1, OutcomeFacts DEF Rejected, Marker
  <2> QED
    BY <1>5, <2>1, <2>2 DEF Probe, startVars
<1>6. ASSUME Unprobe PROVE Seen'
  BY <1>6 DEF Unprobe, BestEffort, startVars, benchVars
<1>7. ASSUME AuditCheck PROVE Seen'
  BY <1>7, CheckedFact DEF AuditCheck, Check, clusterVars, startVars, benchVars
<1>8. ASSUME KernelCheck PROVE Seen'
  BY <1>8, CheckedFact DEF KernelCheck, Check, clusterVars, startVars, benchVars
<1>9. ASSUME RotateCheck PROVE Seen'
  BY <1>9, CheckedFact DEF RotateCheck, Check, clusterVars, startVars, benchVars
<1>10. ASSUME HardeningSummary PROVE Seen'
  BY <1>10 DEF HardeningSummary, Do, AfterHardening, clusterVars, startVars, benchVars
<1>11. ASSUME MakeNamespace PROVE Seen'
  BY <1>11 DEF MakeNamespace, Do, Leave, CreateFailsTo, Outcome, Raw, startVars, benchVars
<1>12. ASSUME AppApply PROVE Seen'
  BY <1>12 DEF AppApply, AppStep, Do, Leave, Outcome, Raw, clusterVars, startVars, benchVars
<1>13. ASSUME AppWait PROVE Seen'
  BY <1>13 DEF AppWait, AppStep, Do, Leave, Outcome, Raw, clusterVars, startVars, benchVars
<1>14. ASSUME AppFetch PROVE Seen'
  BY <1>14, CheckedFact DEF AppFetch, AppStep, Do, Leave, clusterVars, startVars, benchVars
<1>15. ASSUME RemoveNamespace PROVE Seen'
  BY <1>15 DEF RemoveNamespace, BestEffort, startVars, benchVars, ChecksTypeOK, Subs, Psa
<1>16. ASSUME Reach PROVE Seen'
  BY <1>16 DEF Reach, Do, Outcome, Raw, clusterVars, startVars, benchVars
<1>17. ASSUME Wipe PROVE Seen'
  BY <1>17 DEF Wipe, Tracked, BestEffort, LeftoverGone, startVars
<1>18. ASSUME ApplyJob PROVE Seen'
  BY <1>18 DEF ApplyJob, Do, Leave, Outcome, Raw, startVars, benchVars
<1>19. ASSUME WaitJob PROVE Seen'
  BY <1>19 DEF WaitJob, Do, Leave, Outcome, Raw, clusterVars, startVars, benchVars
<1>20. ASSUME Logs PROVE Seen'
  BY <1>20 DEF Logs, Leave, Outcome, Lenient, clusterVars, startVars, benchVars
<1>21. ASSUME Cleanup PROVE Seen'
  BY <1>21 DEF Cleanup, BestEffort, startVars, benchVars, ChecksTypeOK, Subs, Psa
<1>22. ASSUME JobCompletes PROVE Seen'
  BY <1>22 DEF JobCompletes, commandVars, startVars, benchVars
<1>23. ASSUME Killed PROVE Seen'
  BY <1>23 DEF Killed, clusterVars, startVars, benchVars
<1>24. ASSUME UNCHANGED checksVars PROVE Seen'
  BY <1>24 DEF checksVars, clusterVars, commandVars, startVars, benchVars
<1> QED
  BY NextCases, <1>1, <1>2, <1>3, <1>4, <1>5, <1>6, <1>7, <1>8, <1>9, <1>10, <1>11, <1>12,
    <1>13, <1>14, <1>15, <1>16, <1>17, <1>18, <1>19, <1>20, <1>21, <1>22, <1>23, <1>24

\* A step that gives Jobs no number but this run's, or none, keeps the numbers.
LEMMA NumbersKept ==
  ASSUME ChecksTypeOK, Numbered, UNCHANGED <<pod, nss, runNo>>,
         \A t \in Target : job'[t] \in {0, job[t], runNo}
  PROVE  Numbered'
<1>1. runNo \in Nat
  BY MaxRunAssumption DEF ChecksTypeOK
<1>2. ASSUME NEW t \in Target PROVE job'[t] <= runNo'
  <2>1. job[t] <= runNo
    BY DEF Numbered
  <2>2. job'[t] = 0 \/ job'[t] = job[t] \/ job'[t] = runNo
    OBVIOUS
  <2> QED BY <1>1, <2>1, <2>2
<1>3. pod' <= runNo' /\ \A n \in nss' : n <= runNo'
  BY DEF Numbered
<1> QED BY <1>2, <1>3 DEF Numbered

\* Only this run makes things, under its own number.
LEMMA NumberedStep ==
  ASSUME ChecksTypeOK, Reported, Numbered, [ChecksNext]_checksVars
  PROVE Numbered'
<1> USE MaxRunAssumption DEF ChecksTypeOK, Numbered
<1>1. ASSUME StartCheck PROVE Numbered'
  BY <1>1 DEF StartCheck, clusterVars
<1>2. ASSUME Resolve PROVE Numbered'
  BY <1>2 DEF Resolve, Do, FirstStep, startVars, benchVars, clusterVars
<1>3. ASSUME ResolveBench PROVE Numbered'
  BY <1>3 DEF ResolveBench, Do, startVars, benchVars, clusterVars
<1>4. ASSUME VerifyEncryption PROVE Numbered'
  BY <1>4 DEF VerifyEncryption, Do, Outcome, Raw, Lenient, startVars, benchVars, clusterVars
<1>5. ASSUME Probe PROVE Numbered'
  BY <1>5 DEF Probe, Outcome, Raw, Lenient, Rejected, Marker, startVars, benchVars
<1>6. ASSUME Unprobe PROVE Numbered'
  BY <1>6 DEF Unprobe, BestEffort, startVars, benchVars
<1>7. ASSUME AuditCheck PROVE Numbered'
  BY <1>7 DEF AuditCheck, Check, Outcome, Raw, Lenient, clusterVars, startVars, benchVars
<1>8. ASSUME KernelCheck PROVE Numbered'
  BY <1>8 DEF KernelCheck, Check, Outcome, Raw, Lenient, clusterVars, startVars, benchVars
<1>9. ASSUME RotateCheck PROVE Numbered'
  BY <1>9 DEF RotateCheck, Check, Outcome, Raw, Lenient, clusterVars, startVars, benchVars
<1>10. ASSUME HardeningSummary PROVE Numbered'
  BY <1>10 DEF HardeningSummary, Do, AfterHardening, clusterVars, startVars, benchVars
<1>11. ASSUME MakeNamespace PROVE Numbered'
  BY <1>11 DEF MakeNamespace, Do, Leave, CreateFailsTo, Outcome, Raw, startVars, benchVars
<1>12. ASSUME AppApply PROVE Numbered'
  BY <1>12 DEF AppApply, AppStep, Do, Leave, Outcome, Raw, clusterVars, startVars, benchVars
<1>13. ASSUME AppWait PROVE Numbered'
  BY <1>13 DEF AppWait, AppStep, Do, Leave, Outcome, Raw, clusterVars, startVars, benchVars
<1>14. ASSUME AppFetch PROVE Numbered'
  BY <1>14 DEF AppFetch, AppStep, Do, Leave, Outcome, Raw, clusterVars, startVars, benchVars
<1>15. ASSUME RemoveNamespace PROVE Numbered'
  BY <1>15 DEF RemoveNamespace, BestEffort, startVars, benchVars
<1>16. ASSUME Reach PROVE Numbered'
  BY <1>16 DEF Reach, Do, Outcome, Raw, clusterVars, startVars, benchVars
<1>17. ASSUME Wipe PROVE Numbered'
  <2>1. \A t \in Target : job'[t] \in {0, job[t]}
    BY <1>17 DEF Wipe, BestEffort, LeftoverGone
  <2>2. UNCHANGED <<pod, nss, runNo>>
    BY <1>17 DEF Wipe, startVars
  <2> QED
    BY <2>1, <2>2, NumbersKept
<1>18. ASSUME ApplyJob PROVE Numbered'
  <2>1. \A t \in Target : job'[t] \in {job[t], runNo}
    BY <1>18, ApplyJobFacts
  <2>2. UNCHANGED <<pod, nss, runNo>>
    BY <1>18, ApplyJobFacts DEF startVars
  <2> QED
    BY <2>1, <2>2, NumbersKept
<1>19. ASSUME WaitJob PROVE Numbered'
  BY <1>19 DEF WaitJob, Do, Leave, Outcome, Raw, clusterVars, startVars, benchVars
<1>20. ASSUME Logs PROVE Numbered'
  BY <1>20 DEF Logs, Leave, Outcome, Lenient, clusterVars, startVars, benchVars
<1>21. ASSUME Cleanup PROVE Numbered'
  <2>1. \A t \in Target : job'[t] \in {0, job[t]}
    BY <1>21 DEF Cleanup, BestEffort
  <2>2. UNCHANGED <<pod, nss, runNo>>
    BY <1>21 DEF Cleanup, startVars
  <2> QED
    BY <2>1, <2>2, NumbersKept
<1>22. ASSUME JobCompletes PROVE Numbered'
  BY <1>22 DEF JobCompletes, commandVars, startVars, benchVars
<1>23. ASSUME Killed PROVE Numbered'
  BY <1>23 DEF Killed, clusterVars, startVars, benchVars
<1>24. ASSUME UNCHANGED checksVars PROVE Numbered'
  BY <1>24 DEF checksVars, clusterVars, commandVars, startVars, benchVars
<1> QED
  BY NextCases, <1>1, <1>2, <1>3, <1>4, <1>5, <1>6, <1>7, <1>8, <1>9, <1>10, <1>11, <1>12,
    <1>13, <1>14, <1>15, <1>16, <1>17, <1>18, <1>19, <1>20, <1>21, <1>22, <1>23, <1>24

\* What the run makes is made by a call whose successor deletes it.
LEMMA GuardedStep ==
  ASSUME ChecksTypeOK, Routed, Numbered, Guarded, Reported, [ChecksNext]_checksVars
  PROVE Guarded'
<1> USE DEF ChecksTypeOK, Routed, Numbered, Guarded, Reported, HardeningSteps, AppSteps,
            JobSteps, BenchSteps
<1>1. ASSUME StartCheck PROVE Guarded'
  BY <1>1 DEF StartCheck, clusterVars
<1>2. ASSUME Resolve PROVE Guarded'
  BY <1>2 DEF Resolve, Do, FirstStep, startVars, benchVars, clusterVars
<1>3. ASSUME ResolveBench PROVE Guarded'
  BY <1>3 DEF ResolveBench, Do, startVars, benchVars, clusterVars
<1>4. ASSUME VerifyEncryption PROVE Guarded'
  BY <1>4 DEF VerifyEncryption, Do, Outcome, Raw, Lenient, startVars, benchVars, clusterVars
<1>5. ASSUME Probe PROVE Guarded'
  BY <1>5 DEF Probe, Outcome, Raw, Lenient, Rejected, Marker, startVars, benchVars
<1>6. ASSUME Unprobe PROVE Guarded'
  BY <1>6 DEF Unprobe, BestEffort, startVars, benchVars
<1>7. ASSUME AuditCheck PROVE Guarded'
  BY <1>7 DEF AuditCheck, Check, Outcome, Raw, Lenient, clusterVars, startVars, benchVars
<1>8. ASSUME KernelCheck PROVE Guarded'
  BY <1>8 DEF KernelCheck, Check, Outcome, Raw, Lenient, clusterVars, startVars, benchVars
<1>9. ASSUME RotateCheck PROVE Guarded'
  BY <1>9 DEF RotateCheck, Check, Outcome, Raw, Lenient, clusterVars, startVars, benchVars
<1>10. ASSUME HardeningSummary PROVE Guarded'
  BY <1>10 DEF HardeningSummary, Do, AfterHardening, clusterVars, startVars, benchVars
<1>11. ASSUME MakeNamespace PROVE Guarded'
  BY <1>11 DEF MakeNamespace, Do, Leave, CreateFailsTo, Outcome, Raw, startVars, benchVars
<1>12. ASSUME AppApply PROVE Guarded'
  BY <1>12 DEF AppApply, AppStep, Do, Leave, Outcome, Raw, clusterVars, startVars, benchVars
<1>13. ASSUME AppWait PROVE Guarded'
  BY <1>13 DEF AppWait, AppStep, Do, Leave, Outcome, Raw, clusterVars, startVars, benchVars
<1>14. ASSUME AppFetch PROVE Guarded'
  BY <1>14 DEF AppFetch, AppStep, Do, Leave, Outcome, Raw, clusterVars, startVars, benchVars
<1>15. ASSUME RemoveNamespace PROVE Guarded'
  BY <1>15 DEF RemoveNamespace, BestEffort, startVars, benchVars
<1>16. ASSUME Reach PROVE Guarded'
  BY <1>16 DEF Reach, Do, Outcome, Raw, clusterVars, startVars, benchVars
<1>17. ASSUME Wipe PROVE Guarded'
  BY <1>17 DEF Wipe, Tracked, BestEffort, LeftoverGone, startVars
<1>18. ASSUME ApplyJob PROVE Guarded'
  BY <1>18, ApplyJobFacts DEF ApplyJob, startVars, benchVars
<1>19. ASSUME WaitJob PROVE Guarded'
  BY <1>19 DEF WaitJob, Do, Leave, Outcome, Raw, clusterVars, startVars, benchVars
<1>20. ASSUME Logs PROVE Guarded'
  BY <1>20, LogsFacts DEF Logs, clusterVars, startVars
<1>21. ASSUME Cleanup PROVE Guarded'
  BY <1>21 DEF Cleanup, BestEffort, startVars, benchVars
<1>22. ASSUME JobCompletes PROVE Guarded'
  BY <1>22 DEF JobCompletes, commandVars, startVars, benchVars
<1>23. ASSUME Killed PROVE Guarded'
  BY <1>23 DEF Killed, clusterVars, startVars, benchVars
<1>24. ASSUME UNCHANGED checksVars PROVE Guarded'
  BY <1>24 DEF checksVars, clusterVars, commandVars, startVars, benchVars
<1> QED
  BY NextCases, <1>1, <1>2, <1>3, <1>4, <1>5, <1>6, <1>7, <1>8, <1>9, <1>10, <1>11, <1>12,
    <1>13, <1>14, <1>15, <1>16, <1>17, <1>18, <1>19, <1>20, <1>21, <1>22, <1>23, <1>24

\* A log is taken from the Job applied for it, which the wait and the delete before it
\* made this one.
LEMMA ReportedStep ==
  ASSUME ChecksTypeOK, Routed, Numbered, Reported, [ChecksNext]_checksVars
  PROVE Reported'
<1> USE DEF ChecksTypeOK, Routed, Numbered, Reported, HardeningSteps, AppSteps, JobSteps, BenchSteps
<1>1. ASSUME StartCheck PROVE Reported'
  BY <1>1 DEF StartCheck, clusterVars
<1>2. ASSUME Resolve PROVE Reported'
  BY <1>2 DEF Resolve, Do, FirstStep, startVars, benchVars, clusterVars, Subs
<1>3. ASSUME ResolveBench PROVE Reported'
  BY <1>3 DEF ResolveBench, Do, startVars, benchVars, clusterVars
<1>4. ASSUME VerifyEncryption PROVE Reported'
  BY <1>4 DEF VerifyEncryption, Do, Outcome, Raw, Lenient, startVars, benchVars, clusterVars
<1>5. ASSUME Probe PROVE Reported'
  BY <1>5 DEF Probe, Outcome, Raw, Lenient, Rejected, Marker, startVars, benchVars
<1>6. ASSUME Unprobe PROVE Reported'
  BY <1>6 DEF Unprobe, BestEffort, startVars, benchVars
<1>7. ASSUME AuditCheck PROVE Reported'
  BY <1>7 DEF AuditCheck, Check, Outcome, Raw, Lenient, clusterVars, startVars, benchVars
<1>8. ASSUME KernelCheck PROVE Reported'
  BY <1>8 DEF KernelCheck, Check, Outcome, Raw, Lenient, clusterVars, startVars, benchVars
<1>9. ASSUME RotateCheck PROVE Reported'
  BY <1>9 DEF RotateCheck, Check, Outcome, Raw, Lenient, clusterVars, startVars, benchVars
<1>10. ASSUME HardeningSummary PROVE Reported'
  BY <1>10 DEF HardeningSummary, Do, AfterHardening, clusterVars, startVars, benchVars
<1>11. ASSUME MakeNamespace PROVE Reported'
  BY <1>11 DEF MakeNamespace, Do, Leave, CreateFailsTo, Outcome, Raw, startVars, benchVars
<1>12. ASSUME AppApply PROVE Reported'
  BY <1>12 DEF AppApply, AppStep, Do, Leave, Outcome, Raw, clusterVars, startVars, benchVars
<1>13. ASSUME AppWait PROVE Reported'
  BY <1>13 DEF AppWait, AppStep, Do, Leave, Outcome, Raw, clusterVars, startVars, benchVars
<1>14. ASSUME AppFetch PROVE Reported'
  BY <1>14 DEF AppFetch, AppStep, Do, Leave, Outcome, Raw, clusterVars, startVars, benchVars
<1>15. ASSUME RemoveNamespace PROVE Reported'
  BY <1>15 DEF RemoveNamespace, BestEffort, startVars, benchVars
<1>16. ASSUME Reach PROVE Reported'
  BY <1>16 DEF Reach, Do, Outcome, Raw, clusterVars, startVars, benchVars
<1>17. ASSUME Wipe PROVE Reported'
  BY <1>17 DEF Wipe, Tracked, BestEffort, LeftoverGone, startVars
<1>18. ASSUME ApplyJob PROVE Reported'
  BY <1>18, ApplyJobFacts DEF ApplyJob, startVars, benchVars
<1>19. ASSUME WaitJob PROVE Reported'
  BY <1>19 DEF WaitJob, Do, Leave, Outcome, Raw, clusterVars, startVars, benchVars
<1>20. ASSUME Logs PROVE Reported'
  <2>1. step = "logs" /\ ~excused => job[Head(todo)] = runNo
    OBVIOUS
  <2>2. CASE step' = "wipe"
    <3>1. /\ report' = [report EXCEPT ![Head(todo)] = job[Head(todo)]]
          /\ UNCHANGED <<created, runNo, excused>>
      BY <1>20, <2>2, LogsFacts DEF startVars
    <3>2. ~excused => \A t \in created : report'[t] = runNo
      BY <1>20, <2>1, <3>1, LogsFacts DEF Logs
    <3> QED
      BY <2>2, <3>1, <3>2
  <2>3. CASE step' = "cleanup" /\ verdict' = "failed"
    BY <2>3
  <2> QED
    BY <1>20, <2>2, <2>3, LogsFacts
<1>21. ASSUME Cleanup PROVE Reported'
  BY <1>21 DEF Cleanup, BestEffort, startVars, benchVars
<1>22. ASSUME JobCompletes PROVE Reported'
  BY <1>22 DEF JobCompletes, commandVars, startVars, benchVars
<1>23. ASSUME Killed PROVE Reported'
  BY <1>23 DEF Killed, clusterVars, startVars, benchVars
<1>24. ASSUME UNCHANGED checksVars PROVE Reported'
  BY <1>24 DEF checksVars, clusterVars, commandVars, startVars, benchVars
<1> QED
  BY NextCases, <1>1, <1>2, <1>3, <1>4, <1>5, <1>6, <1>7, <1>8, <1>9, <1>10, <1>11, <1>12,
    <1>13, <1>14, <1>15, <1>16, <1>17, <1>18, <1>19, <1>20, <1>21, <1>22, <1>23, <1>24

--------------------------------------------------------------------------------
(* The invariant, and what follows from it.                                *)

\* An idle command and a cluster nobody has looked at.
LEMMA IndInit == ChecksInit => IndInv
<1> SUFFICES ASSUME ChecksInit PROVE IndInv
  OBVIOUS
<1> USE MaxRunAssumption DEF ChecksInit
<1>1. real.psa \in Psa /\ real.holds \subseteq Facts
  OBVIOUS
<1>2. /\ todo \in Seq(Target) /\ verdict \in {"ok", "failed"}
      /\ complete \in [Target -> BOOLEAN]
  OBVIOUS
<1>3. excused \in BOOLEAN /\ onHost \in BOOLEAN /\ cutOff \in BOOLEAN
  OBVIOUS
<1>4. /\ pod \in 0 .. MaxRun /\ nss = {} /\ runNo \in 0 .. MaxRun
      /\ job \in [Target -> 0 .. MaxRun] /\ report \in [Target -> 0 .. MaxRun]
  OBVIOUS
<1>5. ChecksTypeOK
  BY <1>1, <1>2, <1>3, <1>4 DEF ChecksTypeOK, CheckOver, Subs
<1>6. Routed /\ Seen
  BY DEF Routed, Seen, HardeningSteps, AppSteps, JobSteps, BenchSteps
<1>7. Numbered /\ Guarded /\ Reported
  BY DEF Numbered, Guarded, Reported, JobSteps
<1> QED
  BY <1>5, <1>6, <1>7 DEF IndInv

\* Every step keeps the invariant.
LEMMA IndStep ==
  ASSUME IndInv, [ChecksNext]_checksVars
  PROVE IndInv'
  BY TypeStep, RoutedStep, SeenStep, NumberedStep, GuardedStep, ReportedStep DEF IndInv

\* The invariant holds of every run of the checks.
LEMMA Invariance == ChecksSpec => []IndInv
  BY IndInit, IndStep, PTL DEF ChecksSpec

\* Every variable of the checks has its type.
THEOREM ChecksTypeCorrect == ChecksSpec => []ChecksTypeOK
<1>1. IndInv => ChecksTypeOK
  BY DEF IndInv
<1> QED
  BY <1>1, Invariance, PTL

\* verify says PASS only of a cluster that is as it says, whichever calls failed, but for
\* the one PASS it takes from a warning and a lost connection: the verdict is made of
\* answers of this run alone.
THEOREM PassesAreTrue == ChecksSpec => []PassIsTrue
<1>1. IndInv => PassIsTrue
  BY DEF IndInv, Seen, PassIsTrue, AllPassed
<1> QED
  BY <1>1, Invariance, PTL

\* A check that ends has taken its pod, its namespace and its Jobs out of the cluster,
\* unless a delete failed, hbird was killed, or the apply of the probe ended in an error
\* of hbird-ssh itself; an exit status of any kind goes on to the delete.
THEOREM NoLeftovers == ChecksSpec => []NothingLeftBehind
<1>1. IndInv => NothingLeftBehind
  BY DEF IndInv, Guarded, NothingLeftBehind, BenchSteps, JobSteps
<1> QED
  BY <1>1, Invariance, PTL

\* A kube-bench report is from Jobs of this run unless the delete of a leftover failed.
THEOREM ReportsFresh == ChecksSpec => []ReportIsFresh
<1>1. IndInv => ReportIsFresh
  BY DEF IndInv, Reported, ReportIsFresh
<1> QED
  BY <1>1, Invariance, PTL
================================================================================
