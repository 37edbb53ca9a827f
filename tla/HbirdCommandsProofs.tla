------------------------- MODULE HbirdCommandsProofs -------------------------
(***************************************************************************)
(* Proofs about the commands that HbirdCommands puts next to each other.    *)
(* A component is proved correct by itself, from an inductive invariant of  *)
(* its own; "Starts" and "Steps" say that every behaviour of the binary is  *)
(* one of each component, which carries the results over.                   *)
(***************************************************************************)
EXTENDS HbirdCommands, ClusterChecksProofs, SequenceTheorems

--------------------------------------------------------------------------------
(* Every behaviour of the binary is one of each component.                  *)

\* Each component starts in one of its own initial states, at hand or not.
LEMMA Starts ==
  Init => /\ ChecksInit /\ SwitchInit /\ ExportInit /\ SshInit /\ NetInit /\ FileInit
          /\ PreflightInit
BY DEF Init, ChecksIdle, SwitchIdle, ExportIdle, SshIdle, PreflightIdle

\* A step of the binary is a step of one component, or leaves it alone.
LEMMA Steps ==
  [Next]_vars =>
    /\ [ChecksNext]_checksVars /\ [SwitchNext]_switchVars /\ [ExportNext]_exportVars
    /\ [SshNext]_sshVars /\ [NetNext]_netVars /\ [FileNext]_fileVars
    /\ [PreflightNext]_preVars
BY DEF Next, vars, ChecksMove, SwitchMove, ExportMove, NetworkMove, ConfigMove,
       PreflightMove, SshMove, SshOnly

\* The checks of a cluster are ClusterChecks.
LEMMA ChecksLift == Spec => ChecksSpec
BY Starts, Steps, PTL DEF Spec, ChecksSpec

--------------------------------------------------------------------------------
(* SwitchToGhcr.                                                            *)

\* The images are images, and the VM at hand is one of the walk, with a flavor or a ref.
AtHandSteps == {"lease", "sshd", "read", "switch", "reread"}
SwitchShape ==
  /\ booted \in [Vm -> Image] /\ staged \in [Vm -> Image \cup {NoImage}]
  /\ swStep \in SwitchOver \cup {"start", "walk"} \cup AtHandSteps
  /\ swStep # "idle" => swPlan \in SwitchPlan
  /\ swListed \subseteq Vm /\ swTodo \subseteq swListed
  /\ swStep \in AtHandSteps => swVm \in swListed
  /\ swStep \in AtHandSteps \cup {"walk"} /\ swPlan.vm # NoVm =>
       /\ swListed = {swPlan.vm}
       /\ swPlan.ref # NoImage \/ FlavorForVm(swPlan.vm) # "unknown"
  /\ swStep \in AtHandSteps /\ swPlan.vm = NoVm => FlavorForVm(swVm) # "unknown"

\* The VM has the image of its flavor in a way no reboot undoes.
OwnRef(v) == GhcrRefFor(FlavorForVm(v), swPlan.tag)
Settled(v) == staged[v] = OwnRef(v) \/ (booted[v] = OwnRef(v) /\ staged[v] = NoImage)

\* What the walk over all VMs has dealt with.
Walked ==
  swPlan.vm = NoVm /\ swStep # "idle" =>
    /\ swPlan.ref = NoImage
    /\ swStep = "start" => swListed = {} /\ swFailed = {}
    /\ swStep \in {"ok", "failed"} => swTodo = {}
    /\ swStep = "ok" => swFailed = {}
    /\ ~swPlan.dry =>
         \A v \in swListed \ OtherVm :
           \/ v \in swTodo \cup swFailed \cup swStale \/ Settled(v)
           \/ v = swVm /\ swStep \in AtHandSteps \ {"reread"}

\* The flavor of a VM of a known kind is not "unknown", and its image is not "no image".
LEMMA KnownFlavor ==
  /\ \A v \in Vm : FlavorForVm(v) \in Flavor \cup {"unknown"}
  /\ \A v \in Vm \ OtherVm : FlavorForVm(v) # "unknown"
  /\ \A f \in Flavor : \A t : GhcrRefFor(f, t) # NoImage
BY KindsAssumption DEF Vm, GhcrRefFor, FlavorForVm, NoImage, Flavor

\* The image a VM at hand is switched to is one.
LEMMA RefIsImage ==
  ASSUME SwitchShape, swStep \in AtHandSteps
  PROVE  SwRef(swVm) \in Image
<1>1. swPlan.ref \in Image \cup {NoImage} /\ swPlan.tag \in Tag /\ swVm \in Vm
  BY DEF SwitchShape, SwitchPlan, SwitchOver, AtHandSteps
<1>2. CASE swPlan.ref # NoImage
  BY <1>1, <1>2 DEF SwRef
<1>3. CASE swPlan.ref = NoImage
  <2>1. FlavorForVm(swVm) \in Flavor
    BY <1>1, <1>3, KnownFlavor DEF SwitchShape
  <2> QED BY <1>1, <1>3, <2>1 DEF SwRef, Image
<1> QED BY <1>2, <1>3

\* The steps of the command and of the VMs keep the shape.
LEMMA SwitchShapeStep ==
  ASSUME SwitchShape, [SwitchNext]_switchVars
  PROVE  SwitchShape'
<1> USE DEF SwitchShape, AtHandSteps, SwitchOver, SwGo, SwFail, vmImages, switchVars
<1>1. ASSUME StartSwitch PROVE SwitchShape'
  <2>1. swPlan' \in SwitchPlan
    BY <1>1 DEF StartSwitch, SwitchPlan, Image
  <2> QED BY <1>1, <2>1 DEF StartSwitch
<1>2. ASSUME RunSingleVm PROVE SwitchShape'
  BY <1>2 DEF RunSingleVm, SwitchPlan
<1>3. ASSUME RunAllVms PROVE SwitchShape'
  BY <1>3 DEF RunAllVms, SwitchShape
<1>4. ASSUME NextVm PROVE SwitchShape'
  BY <1>4 DEF NextVm, SwitchExit
<1>5. ASSUME WaitForIp \/ WaitForSsh PROVE SwitchShape'
  BY <1>5 DEF WaitForIp, WaitForSsh
<1>6. ASSUME ReadImage PROVE SwitchShape'
  BY <1>6 DEF ReadImage
<1>7. ASSUME BootcSwitch PROVE SwitchShape'
  BY <1>7, RefIsImage DEF BootcSwitch
<1>8. ASSUME Reread PROVE SwitchShape'
  BY <1>8 DEF Reread
<1>9. ASSUME Reboot PROVE SwitchShape'
  BY <1>9 DEF Reboot
<1>10. ASSUME UNCHANGED switchVars PROVE SwitchShape'
  BY <1>10
<1> QED BY <1>1, <1>2, <1>3, <1>4, <1>5, <1>6, <1>7, <1>8, <1>9, <1>10 DEF SwitchNext

\* A VM that is settled stays settled when it reboots.
LEMMA RebootKeeps ==
  ASSUME SwitchShape, Reboot, NEW v \in Vm \ OtherVm, Settled(v)
  PROVE  Settled(v)'
<1>1. OwnRef(v)' = OwnRef(v) /\ OwnRef(v) # NoImage
  BY KnownFlavor DEF Reboot, OwnRef
<1> QED BY <1>1 DEF Reboot, Settled, SwitchShape

\* The VM at hand is settled, failed or counted as left alone when the walk goes on.
LEMMA WalkedStep ==
  ASSUME SwitchShape, Walked, [SwitchNext]_switchVars
  PROVE  Walked'
<1> USE DEF Walked, AtHandSteps, SwitchOver, SwGo, SwFail, vmImages, switchVars
<1>1. ASSUME StartSwitch PROVE Walked'
  BY <1>1 DEF StartSwitch
<1>2. ASSUME RunSingleVm PROVE Walked'
  BY <1>2 DEF RunSingleVm
<1>3. ASSUME RunAllVms PROVE Walked'
  BY <1>3 DEF RunAllVms, SwitchShape
<1>4. ASSUME NextVm PROVE Walked'
  BY <1>4, KnownFlavor DEF NextVm, SwitchExit, WalkEnds, Settled, OwnRef, SwitchShape
<1>5. ASSUME WaitForIp \/ WaitForSsh PROVE Walked'
  BY <1>5 DEF WaitForIp, WaitForSsh, Settled, OwnRef
<1>6. ASSUME ReadImage PROVE Walked'
  BY <1>6, KnownFlavor DEF ReadImage, CurrentImageRef, SwRef, Settled, OwnRef, SwitchShape
<1>7. ASSUME BootcSwitch PROVE Walked'
  BY <1>7 DEF BootcSwitch, SwRef, Settled, OwnRef, SwitchShape
<1>8. ASSUME Reread PROVE Walked'
  BY <1>8 DEF Reread, Settled, OwnRef
<1>9. ASSUME Reboot PROVE Walked'
  BY <1>9, RebootKeeps DEF Reboot, SwitchShape
<1>10. ASSUME UNCHANGED switchVars PROVE Walked'
  BY <1>10 DEF Settled, OwnRef
<1> QED BY <1>1, <1>2, <1>3, <1>4, <1>5, <1>6, <1>7, <1>8, <1>9, <1>10 DEF SwitchNext

\* switch-to-ghcr over all VMs: whichever VMs fail, lose their answer or reboot in between,
\* at the end each one has the image of its flavor for good, or is counted as failed, or
\* was left alone with another image staged; and the exit status is 0 only when none failed.
THEOREM SwitchCoversAll == Spec => []WalkCovers
<1>1. Init => SwitchShape /\ Walked
  BY Starts DEF SwitchInit, SwitchShape, Walked, SwitchOver, AtHandSteps
<1>2. SwitchShape /\ Walked /\ [Next]_vars => SwitchShape' /\ Walked'
  BY Steps, SwitchShapeStep, WalkedStep
<1>3. SwitchShape /\ Walked => WalkCovers
  BY DEF Walked, WalkCovers, Settled, OwnRef, AtHandSteps
<1> QED BY <1>1, <1>2, <1>3, PTL DEF Spec

--------------------------------------------------------------------------------
(* KubeconfigExport.                                                        *)

\* A file holds what was fetched, with the names of one context.
Rewritten(f) ==
  /\ f.raw \in {AdminConf, HalfConf}
  /\ \E ctx \in Context : f.doc = RewriteKubeconfig(f.raw, ServerOf(ctx), ctx)

\* What hbird renames to OUTPUT is the whole rewrite of a document that passed the check.
Whole ==
  /\ exStep \notin ExportOver => exArgs \in ExportArgs
  /\ exStep \in {"backup", "tmp", "rename"} => fetched \in {AdminConf, HalfConf}
  /\ exStep = "rename" => tmpFile.kind = "file" /\ Rewritten(tmpFile)
  /\ output.by = "hbird" => Rewritten(output)

\* What is at OUTPUT is what the command found there and, in time, backed up.
BackupInTime ==
  /\ output.kind \in {"none", "file", "symlink", "dangling"}
  /\ ~raced =>
       /\ exStep \in {"fetch", "backup"} => output.kind = "none" \/ exArgs.force = TRUE
       /\ exStep \in {"tmp", "rename"} =>
            output.kind \in {"none", "dangling"} \/ output \in backups

\* The check takes an answer for a kubeconfig by its first line and its kind.
LEMMA ChecksOut ==
  ASSUME NEW doc \in Answered, LooksLikeKubeconfig(doc)
  PROVE  doc \in {AdminConf, HalfConf}
<1>1. doc # << >>
  BY DEF LooksLikeKubeconfig
<1>2. doc # <<AdminConf[1]>>
  <2>1. AdminConf[1].key = "apiVersion"
    BY DEF AdminConf, Line
  <2> HIDE DEF AdminConf
  <2> QED BY <2>1 DEF LooksLikeKubeconfig
<1> QED BY <1>1, <1>2 DEF Answered

\* Only a whole file is renamed, and no program but hbird signs as hbird.
LEMMA WholeStep ==
  ASSUME Whole, [ExportNext]_exportVars
  PROVE  Whole'
<1> USE DEF Whole, ExportOver, ExGo, ExIoFails, exportVars
<1>1. ASSUME StartExport PROVE Whole'
  BY <1>1 DEF StartExport
<1>2. ASSUME PreCheckOutput PROVE Whole'
  BY <1>2 DEF PreCheckOutput
<1>3. ASSUME FetchAdminConf PROVE Whole'
  BY <1>3, ChecksOut DEF FetchAdminConf
<1>4. ASSUME BackupOutput PROVE Whole'
  BY <1>4 DEF BackupOutput
<1>5. ASSUME WriteTmp PROVE Whole'
  BY <1>5 DEF WriteTmp, Exported, Rewritten, ExportArgs
<1>6. ASSUME Rename PROVE Whole'
  BY <1>6 DEF Rename
<1>7. ASSUME ExportKilled PROVE Whole'
  BY <1>7 DEF ExportKilled
<1>8. ASSUME ForeignWrite PROVE Whole'
  BY <1>8 DEF ForeignWrite, NoFile, Foreign
<1>9. ASSUME UNCHANGED exportVars PROVE Whole'
  BY <1>9
<1> QED BY <1>1, <1>2, <1>3, <1>4, <1>5, <1>6, <1>7, <1>8, <1>9 DEF ExportNext

\* The check, and with --force the backup, come before the file is replaced.
LEMMA BackupStep ==
  ASSUME Whole, BackupInTime, [ExportNext]_exportVars
  PROVE  BackupInTime'
<1> USE DEF BackupInTime, ExportOver, ExGo, ExIoFails, exportVars
<1>1. ASSUME StartExport PROVE BackupInTime'
  BY <1>1 DEF StartExport
<1>2. ASSUME PreCheckOutput PROVE BackupInTime'
  BY <1>2 DEF PreCheckOutput, Whole, ExportArgs
<1>3. ASSUME FetchAdminConf PROVE BackupInTime'
  BY <1>3 DEF FetchAdminConf
<1>4. ASSUME BackupOutput PROVE BackupInTime'
  BY <1>4 DEF BackupOutput, BackedUp, Whole, ExportArgs
<1>5. ASSUME WriteTmp PROVE BackupInTime'
  BY <1>5 DEF WriteTmp
<1>6. ASSUME Rename PROVE BackupInTime'
  BY <1>6 DEF Rename, Whole
<1>7. ASSUME ExportKilled PROVE BackupInTime'
  BY <1>7 DEF ExportKilled
<1>8. ASSUME ForeignWrite PROVE BackupInTime'
  BY <1>8 DEF ForeignWrite, Foreign, NoFile, ForeignKinds
<1>9. ASSUME UNCHANGED exportVars PROVE BackupInTime'
  BY <1>9
<1> QED BY <1>1, <1>2, <1>3, <1>4, <1>5, <1>6, <1>7, <1>8, <1>9 DEF ExportNext

\* A document has its section where its last top-level key is.
LEMMA SectionIs ==
  ASSUME NEW doc, NEW i \in Nat, NEW j \in 1 .. i, ~doc[j].dash /\ ~doc[j].indent,
         \A k \in j + 1 .. i : doc[k].dash \/ doc[k].indent
  PROVE  Section(doc, i) = doc[j].key
<1> DEFINE tops == {k \in 1 .. i : ~doc[k].dash /\ ~doc[k].indent}
<1>1. j \in tops /\ \A k \in tops : k <= j
  OBVIOUS
<1>2. \A m \in tops : (\A k \in tops : k <= m) => m = j
  BY <1>1
<1>3. (CHOOSE m \in tops : \A k \in tops : k <= m) = j
  BY <1>1, <1>2
<1> QED BY <1>3 DEF Section

\* The lines of the admin.conf kubeadm writes.
LEMMA AdminLines ==
  /\ DOMAIN AdminConf = 1 .. 15
  /\ AdminConf[1] = Line(FALSE, FALSE, "apiVersion", "v1")
  /\ AdminConf[2] = Line(FALSE, FALSE, "clusters", "")
  /\ AdminConf[3] = Line(TRUE, FALSE, "cluster", "")
  /\ AdminConf[4] = Line(FALSE, TRUE, "server", "https://init")
  /\ AdminConf[5] = Line(FALSE, TRUE, "name", "kubernetes")
  /\ AdminConf[6] = Line(FALSE, FALSE, "contexts", "")
  /\ AdminConf[7] = Line(TRUE, FALSE, "context", "")
  /\ AdminConf[8] = Line(FALSE, TRUE, "cluster", "kubernetes")
  /\ AdminConf[9] = Line(FALSE, TRUE, "user", "kubernetes-admin")
  /\ AdminConf[10] = Line(FALSE, TRUE, "name", "kubernetes-admin@kubernetes")
  /\ AdminConf[11] = Line(FALSE, FALSE, "current-context", "kubernetes-admin@kubernetes")
  /\ AdminConf[12] = Line(FALSE, FALSE, "kind", "Config")
  /\ AdminConf[13] = Line(FALSE, FALSE, "users", "")
  /\ AdminConf[14] = Line(TRUE, FALSE, "name", "kubernetes-admin")
  /\ AdminConf[15] = Line(FALSE, TRUE, "user", "")
BY DEF AdminConf

\* A line at the top level or below it, with its key and its value.
Is(l, top, key, value) == (~l.dash /\ ~l.indent) = top /\ l.key = key /\ l.value = value

\* The lines of admin.conf after the rewrite.
RewrittenDoc(doc, server, ctx) ==
  /\ DOMAIN doc = 1 .. 15
  /\ Is(doc[1], TRUE, "apiVersion", "v1")
  /\ Is(doc[2], TRUE, "clusters", "")
  /\ Is(doc[3], FALSE, "cluster", "")
  /\ Is(doc[4], FALSE, "server", server)
  /\ Is(doc[5], FALSE, "name", ctx)
  /\ Is(doc[6], TRUE, "contexts", "")
  /\ Is(doc[7], FALSE, "context", "")
  /\ Is(doc[8], FALSE, "cluster", ctx)
  /\ Is(doc[9], FALSE, "user", ctx)
  /\ Is(doc[10], FALSE, "name", ctx)
  /\ Is(doc[11], TRUE, "current-context", ctx)
  /\ Is(doc[12], TRUE, "kind", "Config")
  /\ Is(doc[13], TRUE, "users", "")
  /\ Is(doc[14], FALSE, "name", ctx)
  /\ Is(doc[15], FALSE, "user", "")

\* rewrite_kubeconfig makes these lines of admin.conf.
LEMMA RewrittenLines ==
  ASSUME NEW server, NEW ctx, NEW doc, doc = RewriteKubeconfig(AdminConf, server, ctx)
  PROVE  RewrittenDoc(doc, server, ctx)
<1>0. DOMAIN doc = 1 .. 15
      /\ \A i \in 1 .. 15 : doc[i] = RewriteLine(AdminConf[i], server, ctx)
  BY AdminLines DEF RewriteKubeconfig
<1> DEFINE R(l) == RewriteLine(l, server, ctx)
<1>1. Is(doc[1], TRUE, "apiVersion", "v1")
  <2>1. Is(R(Line(FALSE, FALSE, "apiVersion", "v1")), TRUE, "apiVersion", "v1")
    BY DEF RewriteLine, Keyed, MatchNameKv, KubeadmNames, Line, Is
  <2>2. doc[1] = R(AdminConf[1])
    BY <1>0
  <2> QED BY <2>1, <2>2, AdminLines
<1>2. Is(doc[2], TRUE, "clusters", "")
  <2>1. Is(R(Line(FALSE, FALSE, "clusters", "")), TRUE, "clusters", "")
    BY DEF RewriteLine, Keyed, MatchNameKv, KubeadmNames, Line, Is
  <2>2. doc[2] = R(AdminConf[2])
    BY <1>0
  <2> QED BY <2>1, <2>2, AdminLines
<1>3. Is(doc[3], FALSE, "cluster", "")
  <2>1. Is(R(Line(TRUE, FALSE, "cluster", "")), FALSE, "cluster", "")
    BY DEF RewriteLine, Keyed, MatchNameKv, KubeadmNames, Line, Is
  <2>2. doc[3] = R(AdminConf[3])
    BY <1>0
  <2> QED BY <2>1, <2>2, AdminLines
<1>4. Is(doc[4], FALSE, "server", server)
  <2>1. Is(R(Line(FALSE, TRUE, "server", "https://init")), FALSE, "server", server)
    BY DEF RewriteLine, Keyed, MatchNameKv, KubeadmNames, Line, Is
  <2>2. doc[4] = R(AdminConf[4])
    BY <1>0
  <2> QED BY <2>1, <2>2, AdminLines
<1>5. Is(doc[5], FALSE, "name", ctx)
  <2>1. Is(R(Line(FALSE, TRUE, "name", "kubernetes")), FALSE, "name", ctx)
    BY DEF RewriteLine, Keyed, MatchNameKv, KubeadmNames, Line, Is
  <2>2. doc[5] = R(AdminConf[5])
    BY <1>0
  <2> QED BY <2>1, <2>2, AdminLines
<1>6. Is(doc[6], TRUE, "contexts", "")
  <2>1. Is(R(Line(FALSE, FALSE, "contexts", "")), TRUE, "contexts", "")
    BY DEF RewriteLine, Keyed, MatchNameKv, KubeadmNames, Line, Is
  <2>2. doc[6] = R(AdminConf[6])
    BY <1>0
  <2> QED BY <2>1, <2>2, AdminLines
<1>7. Is(doc[7], FALSE, "context", "")
  <2>1. Is(R(Line(TRUE, FALSE, "context", "")), FALSE, "context", "")
    BY DEF RewriteLine, Keyed, MatchNameKv, KubeadmNames, Line, Is
  <2>2. doc[7] = R(AdminConf[7])
    BY <1>0
  <2> QED BY <2>1, <2>2, AdminLines
<1>8. Is(doc[8], FALSE, "cluster", ctx)
  <2>1. Is(R(Line(FALSE, TRUE, "cluster", "kubernetes")), FALSE, "cluster", ctx)
    BY DEF RewriteLine, Keyed, MatchNameKv, KubeadmNames, Line, Is
  <2>2. doc[8] = R(AdminConf[8])
    BY <1>0
  <2> QED BY <2>1, <2>2, AdminLines
<1>9. Is(doc[9], FALSE, "user", ctx)
  <2>1. Is(R(Line(FALSE, TRUE, "user", "kubernetes-admin")), FALSE, "user", ctx)
    BY DEF RewriteLine, Keyed, MatchNameKv, KubeadmNames, Line, Is
  <2>2. doc[9] = R(AdminConf[9])
    BY <1>0
  <2> QED BY <2>1, <2>2, AdminLines
<1>10. Is(doc[10], FALSE, "name", ctx)
  <2>1. Is(R(Line(FALSE, TRUE, "name", "kubernetes-admin@kubernetes")), FALSE, "name", ctx)
    BY DEF RewriteLine, Keyed, MatchNameKv, KubeadmNames, Line, Is
  <2>2. doc[10] = R(AdminConf[10])
    BY <1>0
  <2> QED BY <2>1, <2>2, AdminLines
<1>11. Is(doc[11], TRUE, "current-context", ctx)
  <2>1. Is(R(Line(FALSE, FALSE, "current-context", "kubernetes-admin@kubernetes")), TRUE,
           "current-context", ctx)
    BY DEF RewriteLine, Keyed, MatchNameKv, KubeadmNames, Line, Is
  <2>2. doc[11] = R(AdminConf[11])
    BY <1>0
  <2> QED BY <2>1, <2>2, AdminLines
<1>12. Is(doc[12], TRUE, "kind", "Config")
  <2>1. Is(R(Line(FALSE, FALSE, "kind", "Config")), TRUE, "kind", "Config")
    BY DEF RewriteLine, Keyed, MatchNameKv, KubeadmNames, Line, Is
  <2>2. doc[12] = R(AdminConf[12])
    BY <1>0
  <2> QED BY <2>1, <2>2, AdminLines
<1>13. Is(doc[13], TRUE, "users", "")
  <2>1. Is(R(Line(FALSE, FALSE, "users", "")), TRUE, "users", "")
    BY DEF RewriteLine, Keyed, MatchNameKv, KubeadmNames, Line, Is
  <2>2. doc[13] = R(AdminConf[13])
    BY <1>0
  <2> QED BY <2>1, <2>2, AdminLines
<1>14. Is(doc[14], FALSE, "name", ctx)
  <2>1. Is(R(Line(TRUE, FALSE, "name", "kubernetes-admin")), FALSE, "name", ctx)
    BY DEF RewriteLine, Keyed, MatchNameKv, KubeadmNames, Line, Is
  <2>2. doc[14] = R(AdminConf[14])
    BY <1>0
  <2> QED BY <2>1, <2>2, AdminLines
<1>15. Is(doc[15], FALSE, "user", "")
  <2>1. Is(R(Line(FALSE, TRUE, "user", "")), FALSE, "user", "")
    BY DEF RewriteLine, Keyed, MatchNameKv, KubeadmNames, Line, Is
  <2>2. doc[15] = R(AdminConf[15])
    BY <1>0
  <2> QED BY <2>1, <2>2, AdminLines
<1> QED BY <1>0, <1>1, <1>2, <1>3, <1>4, <1>5, <1>6, <1>7, <1>8, <1>9,
           <1>10, <1>11, <1>12, <1>13, <1>14, <1>15 DEF RewrittenDoc

\* kubectl finds every name the rewritten admin.conf refers to, and the server asked for,
\* whatever the context is called.
LEMMA RewriteResolves ==
  ASSUME NEW server, NEW ctx, NEW doc, doc = RewriteKubeconfig(AdminConf, server, ctx)
  PROVE  Resolves(doc, server, ctx)
<1>0. RewrittenDoc(doc, server, ctx)
  BY RewrittenLines
<1>1. DOMAIN doc = 1 .. 15
  BY <1>0 DEF RewrittenDoc
<1>2. /\ doc[1].key = "apiVersion"  /\ doc[2].key = "clusters"  /\ doc[3].key = "cluster"
      /\ doc[4].key = "server"  /\ doc[5].key = "name"  /\ doc[6].key = "contexts"
      /\ doc[7].key = "context"  /\ doc[8].key = "cluster"  /\ doc[9].key = "user"
      /\ doc[10].key = "name"  /\ doc[11].key = "current-context"
      /\ doc[12].key = "kind"  /\ doc[13].key = "users"
      /\ doc[14].key = "name"  /\ doc[15].key = "user"
  BY <1>0 DEF RewrittenDoc, Is
<1>3. /\ doc[4].value = server  /\ doc[5].value = ctx  /\ doc[8].value = ctx
      /\ doc[9].value = ctx  /\ doc[10].value = ctx  /\ doc[11].value = ctx
      /\ doc[14].value = ctx
  BY <1>0 DEF RewrittenDoc, Is
<1>4. /\ ~doc[2].dash /\ ~doc[2].indent  /\ (doc[3].dash \/ doc[3].indent)
      /\ (doc[4].dash \/ doc[4].indent)  /\ (doc[5].dash \/ doc[5].indent)
      /\ ~doc[6].dash /\ ~doc[6].indent  /\ (doc[7].dash \/ doc[7].indent)
      /\ (doc[8].dash \/ doc[8].indent)  /\ (doc[9].dash \/ doc[9].indent)
      /\ (doc[10].dash \/ doc[10].indent)  /\ ~doc[11].dash /\ ~doc[11].indent
      /\ ~doc[13].dash /\ ~doc[13].indent  /\ (doc[14].dash \/ doc[14].indent)
      /\ (doc[15].dash \/ doc[15].indent)
  BY <1>0 DEF RewrittenDoc, Is
<1>5. Section(doc, 3) = "clusters"
  <2>1. \A k \in 2 + 1 .. 3 : doc[k].dash \/ doc[k].indent
    BY <1>4
  <2> QED BY <1>2, <1>4, <2>1, SectionIs
<1>6. Section(doc, 4) = "clusters"
  <2>1. \A k \in 2 + 1 .. 4 : doc[k].dash \/ doc[k].indent
    BY <1>4
  <2> QED BY <1>2, <1>4, <2>1, SectionIs
<1>7. Section(doc, 5) = "clusters"
  <2>1. \A k \in 2 + 1 .. 5 : doc[k].dash \/ doc[k].indent
    BY <1>4
  <2> QED BY <1>2, <1>4, <2>1, SectionIs
<1>8. Section(doc, 8) = "contexts"
  <2>1. \A k \in 6 + 1 .. 8 : doc[k].dash \/ doc[k].indent
    BY <1>4
  <2> QED BY <1>2, <1>4, <2>1, SectionIs
<1>9. Section(doc, 9) = "contexts"
  <2>1. \A k \in 6 + 1 .. 9 : doc[k].dash \/ doc[k].indent
    BY <1>4
  <2> QED BY <1>2, <1>4, <2>1, SectionIs
<1>10. Section(doc, 10) = "contexts"
  <2>1. \A k \in 6 + 1 .. 10 : doc[k].dash \/ doc[k].indent
    BY <1>4
  <2> QED BY <1>2, <1>4, <2>1, SectionIs
<1>11. Section(doc, 11) = "current-context"
  <2>1. \A k \in 11 + 1 .. 11 : doc[k].dash \/ doc[k].indent
    BY <1>4
  <2> QED BY <1>2, <1>4, <2>1, SectionIs
<1>12. Section(doc, 14) = "users"
  <2>1. \A k \in 13 + 1 .. 14 : doc[k].dash \/ doc[k].indent
    BY <1>4
  <2> QED BY <1>2, <1>4, <2>1, SectionIs
<1>13. Section(doc, 15) = "users"
  <2>1. \A k \in 13 + 1 .. 15 : doc[k].dash \/ doc[k].indent
    BY <1>4
  <2> QED BY <1>2, <1>4, <2>1, SectionIs
<1> DEFINE At(key) == {j \in DOMAIN doc : doc[j].key = key}
<1>14. /\ At("name") = {5, 10, 14} /\ At("cluster") = {3, 8} /\ At("user") = {9, 15}
       /\ At("server") = {4} /\ At("current-context") = {11}
  <2>1. At("name") = {5, 10, 14} /\ At("server") = {4}
    BY <1>1, <1>2, SMTT(30)
  <2>2. At("cluster") = {3, 8} /\ At("current-context") = {11}
    BY <1>1, <1>2, SMTT(30)
  <2>3. At("user") = {9, 15}
    BY <1>1, <1>2, SMTT(30)
  <2> QED BY <2>1, <2>2, <2>3
<1>15. /\ In(doc, "current-context", "current-context") = {ctx}
      /\ In(doc, "contexts", "name") = {ctx} /\ In(doc, "clusters", "name") = {ctx}
      /\ In(doc, "users", "name") = {ctx} /\ In(doc, "contexts", "cluster") = {ctx}
      /\ In(doc, "contexts", "user") = {ctx} /\ In(doc, "clusters", "server") = {server}
  BY <1>3, <1>5, <1>6, <1>7, <1>8, <1>9, <1>10, <1>11, <1>12, <1>13, <1>14 DEF In
<1> QED BY <1>15 DEF Resolves

\* The rewrite keeps the two lines the check looks at, and drops none.
LEMMA StillLooks ==
  ASSUME NEW conf \in {AdminConf, HalfConf}, NEW server, NEW ctx,
         NEW doc, doc = RewriteKubeconfig(conf, server, ctx)
  PROVE  LooksLikeKubeconfig(doc) /\ DOMAIN doc = DOMAIN conf
<1>1. /\ 1 \in DOMAIN conf /\ 12 \in DOMAIN conf
      /\ conf[1] = Line(FALSE, FALSE, "apiVersion", "v1")
      /\ conf[12] = Line(FALSE, FALSE, "kind", "Config")
  <2>1. /\ 1 \in DOMAIN HalfConf /\ 12 \in DOMAIN HalfConf
        /\ HalfConf[1] = AdminConf[1] /\ HalfConf[12] = AdminConf[12]
    BY DEF HalfConf
  <2>2. /\ 1 \in DOMAIN AdminConf /\ 12 \in DOMAIN AdminConf
    <3>1. DOMAIN AdminConf = 1 .. 15
      BY AdminLines
    <3> HIDE DEF AdminConf
    <3> QED BY <3>1
  <2>3. /\ AdminConf[1] = Line(FALSE, FALSE, "apiVersion", "v1")
        /\ AdminConf[12] = Line(FALSE, FALSE, "kind", "Config")
    BY AdminLines
  <2> QED BY <2>1, <2>2, <2>3
<1>2. RewriteLine(conf[1], server, ctx) = conf[1] /\ RewriteLine(conf[12], server, ctx) = conf[12]
  BY <1>1 DEF RewriteLine, Keyed, MatchNameKv, Line
<1>3. /\ DOMAIN doc = DOMAIN conf /\ doc[1] = conf[1] /\ doc[12] = conf[12]
  BY <1>1, <1>2 DEF RewriteKubeconfig
<1> QED BY <1>1, <1>3 DEF LooksLikeKubeconfig, Line

\* Wherever exports are killed and files fail, what hbird put at OUTPUT is the whole rewrite
\* of what it fetched, and for a whole admin.conf a kubeconfig kubectl can use, for every
\* set of context names.
THEOREM ExportIsUsable == Spec => []OutputIsUsable
<1>1. Init => Whole
  BY Starts DEF ExportInit, Whole, NoFile, Foreign, ExportOver
<1>2. Whole /\ [Next]_vars => Whole'
  BY Steps, WholeStep
<1>3. Whole => OutputIsUsable
  <2> SUFFICES ASSUME Whole, output.by = "hbird" PROVE OutputIsUsable
    BY DEF OutputIsUsable
  <2>1. PICK ctx \in Context : output.doc = RewriteKubeconfig(output.raw, ServerOf(ctx), ctx)
    BY DEF Whole, Rewritten
  <2>2. output.raw \in {AdminConf, HalfConf}
    BY DEF Whole, Rewritten
  <2>3. LooksLikeKubeconfig(output.doc) /\ DOMAIN output.doc = DOMAIN output.raw
    BY <2>1, <2>2, StillLooks
  <2>4. output.raw = AdminConf => Resolves(output.doc, ServerOf(ctx), ctx)
    BY <2>1, RewriteResolves
  <2> QED BY <2>3, <2>4 DEF OutputIsUsable
<1> QED BY <1>1, <1>2, <1>3, PTL DEF Spec

\* No file is replaced without a backup, unless somebody wrote it after the last look; a
\* symlink that leads nowhere is no file.
THEOREM BackupsFirst == Spec => OldFileKept
<1>1. Init => Whole /\ BackupInTime
  BY Starts DEF ExportInit, Whole, BackupInTime, NoFile, Foreign, ForeignKinds, ExportOver
<1>2. Whole /\ BackupInTime /\ [Next]_vars => Whole' /\ BackupInTime'
  BY Steps, WholeStep, BackupStep
<1>3. BackupInTime /\ [Next]_vars =>
        [exStep = "rename" /\ exStep' = "ok" =>
           output.kind \in {"none", "dangling"} \/ output \in backups \/ raced]_exportVars
  BY DEF BackupInTime
<1> QED BY <1>1, <1>2, <1>3, PTL DEF Spec, OldFileKept

--------------------------------------------------------------------------------
(* SshCommand.                                                              *)

\* The child at each step of the call; once it has ended it has nothing left to say.
ChildAt ==
  /\ sshStep = "spawn" => child = "none"
  /\ sshStep = "done" => child \in {"none", "reaped"} \/ answer = "wait"
  /\ sshStep \in {"join", "timeout"} => child = "reaped"
  /\ child = "zombie" => toSay = 0
  /\ sshStep = "join" => toSay = 0
  /\ sshStep = "done" /\ answer \in {"ok", "nonzero"} =>
       outPipe = 0 /\ toSay = 0 /\ answer = status

\* The numbers of chunks: none is made up.
Conserved ==
  /\ got \in Nat /\ outPipe \in 0 .. PipeSize /\ toSay \in Nat
  /\ got + outPipe + toSay <= MaxChunks
  /\ left \in 0 .. MaxChunks /\ inPipe \in 0 .. PipeSize

\* The rest of the call's state has its type.
SshRest ==
  /\ opts \in [budget : BOOLEAN, stdin : 0 .. MaxChunks, identity : BOOLEAN, jump : BOOLEAN]
  /\ sshStep \in SshSteps /\ answer \in Answers /\ eof \in BOOLEAN
  /\ child \in {"none", "running", "zombie", "reaped"} /\ stuck \in BOOLEAN
  /\ status \in {"ok", "nonzero"} /\ helper \in BOOLEAN /\ late \in BOOLEAN

\* The call reaps its child before it answers, and joins the readers before it takes the
\* output.
LEMMA ChildAtStep ==
  ASSUME SshRest, ChildAt, [SshNext]_sshVars
  PROVE  ChildAt'
<1> USE DEF ChildAt, SshRest, SshSteps, Answers, childVars, pipeVars
<1>1. ASSUME SpawnFails PROVE ChildAt'
  BY <1>1 DEF SpawnFails, Return
<1>2. ASSUME Spawn PROVE ChildAt'
  BY <1>2 DEF Spawn
<1>3. ASSUME WriteStdin PROVE ChildAt'
  BY <1>3 DEF WriteStdin
<1>4. ASSUME CloseStdin PROVE ChildAt'
  BY <1>4 DEF CloseStdin
<1>5. ASSUME StdinWriteFails PROVE ChildAt'
  BY <1>5 DEF StdinWriteFails
<1>6. ASSUME ReapAfterStdin PROVE ChildAt'
  BY <1>6 DEF ReapAfterStdin
<1>7. ASSUME Drain PROVE ChildAt'
  BY <1>7 DEF Drain
<1>8. ASSUME Wait PROVE ChildAt'
  BY <1>8 DEF Wait
<1>9. ASSUME JoinReaders PROVE ChildAt'
  BY <1>9 DEF JoinReaders, Joined, OutputEnded, Return
<1>10. ASSUME Expire PROVE ChildAt'
  BY <1>10 DEF Expire, KilledChild
<1>11. ASSUME JoinAfterTimeout PROVE ChildAt'
  BY <1>11 DEF JoinAfterTimeout, Return
<1>12. ASSUME Tick PROVE ChildAt'
  BY <1>12 DEF Tick
<1>13. ASSUME ChildReads PROVE ChildAt'
  BY <1>13 DEF ChildReads
<1>14. ASSUME ChildWrites PROVE ChildAt'
  BY <1>14 DEF ChildWrites
<1>15. ASSUME ChildExits PROVE ChildAt'
  BY <1>15 DEF ChildExits
<1>16. ASSUME ChildStuck PROVE ChildAt'
  BY <1>16 DEF ChildStuck
<1>17. ASSUME HelperExits PROVE ChildAt'
  BY <1>17 DEF HelperExits
<1>18. ASSUME WaitFails PROVE ChildAt'
  BY <1>18 DEF WaitFails, Return
<1>19. ASSUME UNCHANGED sshVars PROVE ChildAt'
  BY <1>19 DEF sshVars
<1> QED BY <1>1, <1>2, <1>3, <1>4, <1>5, <1>6, <1>7, <1>8, <1>9, <1>10, <1>11, <1>12,
           <1>13, <1>14, <1>15, <1>16, <1>17, <1>18, <1>19
        DEF SshNext, ClientStep, ChildStep

\* A chunk is in one place at a time.
LEMMA ConservedStep ==
  ASSUME SshRest, Conserved, [SshNext]_sshVars
  PROVE  Conserved'
<1> USE SshBoundsAssumption DEF Conserved, childVars, pipeVars
<1>1. ASSUME SpawnFails PROVE Conserved'
  BY <1>1 DEF SpawnFails, Return
<1>2. ASSUME Spawn PROVE Conserved'
  BY <1>2 DEF Spawn
<1>3. ASSUME WriteStdin PROVE Conserved'
  BY <1>3 DEF WriteStdin
<1>4. ASSUME CloseStdin PROVE Conserved'
  BY <1>4 DEF CloseStdin
<1>5. ASSUME StdinWriteFails PROVE Conserved'
  BY <1>5 DEF StdinWriteFails
<1>6. ASSUME ReapAfterStdin PROVE Conserved'
  BY <1>6 DEF ReapAfterStdin
<1>7. ASSUME Drain PROVE Conserved'
  BY <1>7 DEF Drain
<1>8. ASSUME Wait PROVE Conserved'
  BY <1>8 DEF Wait
<1>9. ASSUME JoinReaders PROVE Conserved'
  BY <1>9 DEF JoinReaders, Joined, OutputEnded, Return
<1>10. ASSUME Expire PROVE Conserved'
  BY <1>10 DEF Expire, KilledChild
<1>11. ASSUME JoinAfterTimeout PROVE Conserved'
  BY <1>11 DEF JoinAfterTimeout, Return
<1>12. ASSUME Tick PROVE Conserved'
  BY <1>12 DEF Tick
<1>13. ASSUME ChildReads PROVE Conserved'
  BY <1>13 DEF ChildReads
<1>14. ASSUME ChildWrites PROVE Conserved'
  BY <1>14 DEF ChildWrites
<1>15. ASSUME ChildExits PROVE Conserved'
  BY <1>15 DEF ChildExits
<1>16. ASSUME ChildStuck PROVE Conserved'
  BY <1>16 DEF ChildStuck
<1>17. ASSUME HelperExits PROVE Conserved'
  BY <1>17 DEF HelperExits
<1>18. ASSUME WaitFails PROVE Conserved'
  BY <1>18 DEF WaitFails, Return
<1>19. ASSUME UNCHANGED sshVars PROVE Conserved'
  BY <1>19 DEF sshVars
<1> QED BY <1>1, <1>2, <1>3, <1>4, <1>5, <1>6, <1>7, <1>8, <1>9, <1>10, <1>11, <1>12,
           <1>13, <1>14, <1>15, <1>16, <1>17, <1>18, <1>19
        DEF SshNext, ClientStep, ChildStep

\* The other types are kept.
LEMMA SshRestStep ==
  ASSUME SshRest, [SshNext]_sshVars
  PROVE  SshRest'
<1> USE DEF SshRest, SshSteps, Answers, childVars, pipeVars
<1>1. ASSUME SpawnFails PROVE SshRest'
  BY <1>1 DEF SpawnFails, Return
<1>2. ASSUME Spawn PROVE SshRest'
  BY <1>2 DEF Spawn
<1>3. ASSUME WriteStdin PROVE SshRest'
  BY <1>3 DEF WriteStdin
<1>4. ASSUME CloseStdin PROVE SshRest'
  BY <1>4 DEF CloseStdin
<1>5. ASSUME StdinWriteFails PROVE SshRest'
  BY <1>5 DEF StdinWriteFails
<1>6. ASSUME ReapAfterStdin PROVE SshRest'
  BY <1>6 DEF ReapAfterStdin
<1>7. ASSUME Drain PROVE SshRest'
  BY <1>7 DEF Drain
<1>8. ASSUME Wait PROVE SshRest'
  BY <1>8 DEF Wait
<1>9. ASSUME JoinReaders PROVE SshRest'
  BY <1>9 DEF JoinReaders, Joined, OutputEnded, Return
<1>10. ASSUME Expire PROVE SshRest'
  BY <1>10 DEF Expire, KilledChild
<1>11. ASSUME JoinAfterTimeout PROVE SshRest'
  BY <1>11 DEF JoinAfterTimeout, Return
<1>12. ASSUME Tick PROVE SshRest'
  BY <1>12 DEF Tick
<1>13. ASSUME ChildReads PROVE SshRest'
  BY <1>13 DEF ChildReads
<1>14. ASSUME ChildWrites PROVE SshRest'
  BY <1>14 DEF ChildWrites
<1>15. ASSUME ChildExits PROVE SshRest'
  BY <1>15 DEF ChildExits
<1>16. ASSUME ChildStuck PROVE SshRest'
  BY <1>16 DEF ChildStuck
<1>17. ASSUME HelperExits PROVE SshRest'
  <2>1. helper' \in BOOLEAN
    BY <1>17 DEF HelperExits
  <2>2. UNCHANGED <<opts, sshStep, answer, child, stuck, status, eof, late>>
    BY <1>17 DEF HelperExits
  <2> QED BY <2>1, <2>2
<1>18. ASSUME WaitFails PROVE SshRest'
  BY <1>18 DEF WaitFails, Return
<1>19. ASSUME UNCHANGED sshVars PROVE SshRest'
  BY <1>19 DEF sshVars
<1> QED BY <1>1, <1>2, <1>3, <1>4, <1>5, <1>6, <1>7, <1>8, <1>9, <1>10, <1>11, <1>12,
           <1>13, <1>14, <1>15, <1>16, <1>17, <1>18, <1>19
        DEF SshNext, ClientStep, ChildStep

\* What the call starts with.
LEMMA SshStarts == SshInit => SshRest /\ ChildAt /\ Conserved
<1> SUFFICES ASSUME SshInit PROVE SshRest /\ ChildAt /\ Conserved
  OBVIOUS
<1>1. SshRest /\ ChildAt
  BY DEF SshInit, SshRest, ChildAt, SshSteps, Answers
<1>2. Conserved
  BY SshBoundsAssumption DEF SshInit, Conserved
<1> QED BY <1>1, <1>2

\* A successful answer, or a failure of the remote command, is its whole output and its
\* status, and no child is left behind whatever the answer, but for a wait the operating
\* system refuses: for every pipe size and every length of input and output.
THEOREM AnswersAreWhole == Spec => []AnswerIsWhole
<1>1. Init => SshRest /\ ChildAt
  BY Starts, SshStarts
<1>2. SshRest /\ ChildAt /\ [Next]_vars => SshRest' /\ ChildAt'
  BY Steps, SshRestStep, ChildAtStep
<1>3. ChildAt => AnswerIsWhole
  BY DEF ChildAt, AnswerIsWhole
<1> QED BY <1>1, <1>2, <1>3, PTL DEF Spec

--------------------------------------------------------------------------------
(* ConfigFile.                                                              *)

\* The texts an element can be.
Token == Values \cup Word \cup {"a#", "a b", "a)", "#"}

\* The state between two lines; the parser has met no error but one of a line.
FileShape ==
  /\ DOMAIN raw \subseteq Keys /\ DOMAIN shell \subseteq Keys
  /\ \A k \in DOMAIN shell : shell[k] \in Seq(Token)
  /\ body \in Seq(Token)
  /\ open = <<>> \/ \E k \in Keys : open = <<k>>
  /\ fileStep = "line" =>
       cliErr \in {"none", "UnrecognizedLine", "TrailingContent", "UnterminatedQuote"}

\* What the parser has read of a key and what the shell has, when they agree.
Same(value, elems) ==
  \/ value.shape = "array" /\ elems = value.elems
  \/ value.shape = "scalar" /\ elems # <<>> /\ elems[1] = value.elems[1]

\* Of a file without a strange line and without an error so far, both have read the same.
Alike ==
  fileStep = "line" /\ cliErr = "none" /\ ~strange =>
    /\ ~shellErr /\ DOMAIN shell = DOMAIN raw
    /\ \A k \in DOMAIN raw : Same(raw[k], shell[k])

\* An assignment changes one key, and keeps the types.
LEMMA WithTyped ==
  ASSUME NEW f, NEW K, NEW S, NEW k \in K, NEW v \in S, DOMAIN f \subseteq K,
         \A x \in DOMAIN f : f[x] \in S
  PROVE  /\ DOMAIN With(f, k, v) \subseteq K
         /\ \A x \in DOMAIN With(f, k, v) : With(f, k, v)[x] \in S
BY DEF With

\* An assignment of the same to both readers leaves them alike.
LEMMA WithSame ==
  ASSUME NEW f, NEW g, NEW k, NEW v, NEW s, DOMAIN g = DOMAIN f, Same(v, s),
         \A x \in DOMAIN f : Same(f[x], g[x])
  PROVE  /\ DOMAIN With(g, k, s) = DOMAIN With(f, k, v)
         /\ \A x \in DOMAIN With(f, k, v) : Same(With(f, k, v)[x], With(g, k, s)[x])
<1> HIDE DEF Same
<1> QED BY DEF With

\* A sequence with another first element.
LEMMA FirstReplaced ==
  ASSUME NEW S, NEW v \in S, NEW s \in Seq(S)
  PROVE  /\ <<v>> \in Seq(S) /\ <<v>> # <<>> /\ <<v>>[1] = v
         /\ LET r == <<v>> \o SubSeq(s, 2, Len(s))
            IN  Len(s) > 1 => r \in Seq(S) /\ r # <<>> /\ r[1] = v
<1>1. <<v>> \in Seq(S) /\ Len(<<v>>) = 1 /\ <<v>>[1] = v
  OBVIOUS
<1>2. ASSUME Len(s) > 1 PROVE SubSeq(s, 2, Len(s)) \in Seq(S)
  BY <1>2
<1>3. ASSUME NEW t \in Seq(S)
      PROVE  <<v>> \o t \in Seq(S) /\ Len(<<v>> \o t) = 1 + Len(t) /\ (<<v>> \o t)[1] = v
  BY <1>1
<1>4. \A t \in Seq(S) : Len(t) > 0 => t # <<>>
  OBVIOUS
<1> QED BY <1>1, <1>2, <1>3, <1>4

\* Assigning a scalar gives the shell a variable whose first element it is.
LEMMA ShellScalarFacts ==
  ASSUME FileShape, NEW k, NEW v \in Token
  PROVE  /\ ShellScalar(k, v) \in Seq(Token)
         /\ ShellScalar(k, v) # <<>> /\ ShellScalar(k, v)[1] = v
<1>1. CASE k \in DOMAIN shell /\ Len(shell[k]) > 1
  <2>1. shell[k] \in Seq(Token)
    BY <1>1 DEF FileShape
  <2> QED BY <1>1, <2>1, FirstReplaced DEF ShellScalar
<1>2. CASE ~(k \in DOMAIN shell /\ Len(shell[k]) > 1)
  <2>1. <<>> \in Seq(Token)
    OBVIOUS
  <2> QED BY <1>2, <2>1, FirstReplaced DEF ShellScalar
<1> QED BY <1>1, <1>2

\* A line inside or at the start of an array, for both readers.
LEMMA ExtendedFacts ==
  ASSUME FileShape, Alike, NextLine, NEW k \in Keys, NEW words \in Seq(Token),
         NEW closes \in BOOLEAN, NEW tail \in Tails, Extended(k, words, closes, tail)
  PROVE  FileShape' /\ Alike'
<1> DEFINE here == body \o words
           elems == body \o ArrayText(words, closes, tail)
           said == body \o ShellText(words, tail)
<1>1. here \in Seq(Token) /\ elems \in Seq(Token) /\ said \in Seq(Token)
  <2>1. "#" \in Token /\ "a)" \in Token
    BY DEF Token
  <2>2. Append(words, "#") \in Seq(Token) /\ Append(words, "a)") \in Seq(Token)
    BY <2>1
  <2>3. /\ body \in Seq(Token) /\ ArrayText(words, closes, tail) \in Seq(Token)
        /\ ShellText(words, tail) \in Seq(Token)
    BY <2>2 DEF FileShape, ArrayText, ShellText
  <2> QED BY <2>3
<1>2. /\ UNCHANGED fileStep /\ fileStep = "line" /\ cliErr = "none"
      /\ cliErr' \in {"none", "UnterminatedQuote"}
      /\ strange' = ~ReadAlike(closes, tail) /\ shellErr' = (shellErr \/ ArrayRuns(tail))
  BY DEF NextLine, Extended
<1>3. /\ open' \in {<<k>>, <<>>} /\ body' \in {elems, <<>>}
      /\ raw' = raw \/ raw' = With(raw, k, Array(elems))
      /\ shell' = shell \/ shell' = With(shell, k, said)
  BY DEF Extended, Insert
<1>6. ASSUME ReadAlike(closes, tail)
      PROVE  /\ cliErr' = cliErr
             /\ raw' = IF closes THEN With(raw, k, Array(elems)) ELSE raw
             /\ shell' = IF closes /\ ~shellErr THEN With(shell, k, here) ELSE shell
             /\ elems = here /\ ~ArrayRuns(tail)
  BY <1>6 DEF Extended, Insert, ReadAlike, ParserCloses, ArrayText, ShellText, ArrayRuns, Quotes
<1> HIDE DEF here, elems, said
<1>4. FileShape'
  <2>1. DOMAIN raw' \subseteq Keys
    BY <1>3 DEF FileShape, With
  <2>2. DOMAIN shell' \subseteq Keys /\ \A x \in DOMAIN shell' : shell'[x] \in Seq(Token)
    <3>1. CASE shell' = shell
      BY <3>1 DEF FileShape
    <3>2. CASE shell' = With(shell, k, said)
      BY <1>1, <3>2, WithTyped DEF FileShape
    <3> QED BY <1>3, <3>1, <3>2
  <2>3. body' \in Seq(Token)
    <3>1. <<>> \in Seq(Token)
      OBVIOUS
    <3> QED BY <1>1, <1>3, <3>1
  <2> QED BY <1>2, <1>3, <2>1, <2>2, <2>3 DEF FileShape
<1>5. ASSUME ~strange' PROVE Alike'
  <2>1. ReadAlike(closes, tail) /\ elems = here
    BY <1>2, <1>5, <1>6
  <2>2. ~shellErr /\ DOMAIN shell = DOMAIN raw /\ \A x \in DOMAIN raw : Same(raw[x], shell[x])
    BY DEF Alike, NextLine
  <2>3. CASE closes
    <3>1. raw' = With(raw, k, Array(elems)) /\ shell' = With(shell, k, here)
      BY <1>6, <2>1, <2>2, <2>3
    <3>2. Same(Array(elems), here)
      BY <2>1 DEF Same, Array
    <3>3. /\ DOMAIN shell' = DOMAIN raw'
          /\ \A x \in DOMAIN raw' : Same(raw'[x], shell'[x])
      BY <2>2, <3>1, <3>2, WithSame
    <3> QED BY <1>2, <1>6, <2>1, <2>2, <3>3 DEF Alike
  <2>4. CASE ~closes
    BY <1>2, <1>6, <2>1, <2>2, <2>4 DEF Alike
  <2> QED BY <2>3, <2>4
<1> QED BY <1>4, <1>5 DEF Alike

\* A scalar line, for both readers.
LEMMA ScalarFacts ==
  ASSUME FileShape, Alike, ScalarLine
  PROVE  FileShape' /\ Alike'
<1>1. PICK k \in Keys, v \in Values, form \in Forms :
        /\ NextLine
        /\ cliErr' = ScalarError(form)
        /\ raw' = IF ScalarError(form) = "none"
                  THEN Insert(k, Scalar(strip_trailing_comment(form, v))) ELSE raw
        /\ IF ShellRuns(form)
           THEN shellErr' = TRUE /\ UNCHANGED shell
           ELSE /\ shell' = IF shellErr THEN shell
                            ELSE With(shell, k, ShellScalar(k, ShellValue(form, v)))
                /\ UNCHANGED shellErr
        /\ strange' = Divergent(form)
        /\ form \notin {"bare", "quoted", "bareComment", "quotedComment"} => v = "a"
        /\ UNCHANGED <<open, body>>
  BY DEF ScalarLine
<1> DEFINE sv == ShellValue(form, v)
           s == ShellScalar(k, sv)
           p == Scalar(strip_trailing_comment(form, v))
<1>2. sv \in Token
  BY DEF ShellValue, Values, Token
<1>3. s \in Seq(Token) /\ s # <<>> /\ s[1] = sv
  BY <1>2, ShellScalarFacts
<1>4. FileShape'
  <2>1. cliErr' \in {"none", "TrailingContent", "UnterminatedQuote"}
    BY <1>1 DEF ScalarError
  <2>2. DOMAIN raw' \subseteq Keys
    BY <1>1 DEF FileShape, Insert, With
  <2>3. DOMAIN shell' \subseteq Keys /\ \A x \in DOMAIN shell' : shell'[x] \in Seq(Token)
    <3>1. CASE shell' = shell
      BY <3>1 DEF FileShape
    <3>2. CASE shell' = With(shell, k, s)
      <4> HIDE DEF s
      <4> QED BY <1>3, <3>2, WithTyped DEF FileShape
    <3> QED BY <1>1, <3>1, <3>2
  <2> QED BY <1>1, <2>1, <2>2, <2>3 DEF FileShape, NextLine
<1>5. ASSUME cliErr' = "none", ~strange' PROVE Alike'
  <2>1. ~ShellRuns(form) /\ strip_trailing_comment(form, v) = sv
    BY <1>1, <1>5 DEF ScalarError, check_trailing_after_quote, ShellRuns, Divergent,
      strip_trailing_comment, ShellValue, Forms
  <2>2. ~shellErr /\ DOMAIN shell = DOMAIN raw /\ \A x \in DOMAIN raw : Same(raw[x], shell[x])
    BY <1>1 DEF Alike, NextLine
  <2>3. raw' = With(raw, k, p) /\ shell' = With(shell, k, s) /\ ~shellErr'
    BY <1>1, <1>5, <2>1, <2>2 DEF Insert
  <2>4. Same(p, s)
    BY <1>3, <2>1 DEF Same, Scalar
  <2> HIDE DEF s, p
  <2>5. /\ DOMAIN shell' = DOMAIN raw'
        /\ \A x \in DOMAIN raw' : Same(raw'[x], shell'[x])
    BY <2>2, <2>3, <2>4, WithSame
  <2> QED BY <2>3, <2>5 DEF Alike
<1> QED BY <1>4, <1>5 DEF Alike

\* The words of a line are texts.
LEMMA WordsTyped == Words \subseteq Seq(Token)
<1>1. Word \subseteq Token
  BY DEF Token
<1>2. <<>> \in Seq(Token) /\ \A w \in Token : <<w>> \in Seq(Token)
  OBVIOUS
<1> QED BY <1>1, <1>2 DEF Words

\* The open array has the name of a key.
LEMMA OpenKey ==
  ASSUME FileShape, InArray
  PROVE  open[1] \in Keys
<1>1. PICK k \in Keys : open = <<k>>
  BY DEF FileShape, InArray
<1> QED BY <1>1

\* Every line keeps the readers alike.
LEMMA FileStep ==
  ASSUME FileShape, Alike, [FileNext]_fileVars
  PROVE  FileShape' /\ Alike'
<1>1. ASSUME ScalarLine PROVE FileShape' /\ Alike'
  BY <1>1, ScalarFacts
<1>2. ASSUME BlankLine PROVE FileShape' /\ Alike'
  BY <1>2 DEF BlankLine, NextLine, FileShape, Alike
<1>3. ASSUME JunkLine PROVE FileShape' /\ Alike'
  BY <1>3 DEF JunkLine, NextLine, FileShape, Alike
<1>4. ASSUME OpenArray PROVE FileShape' /\ Alike'
  <2>1. PICK k \in {"CP_NAME", "WORKER_NAMES"}, w \in Words, closes \in BOOLEAN,
             t \in Tails : Extended(k, w, closes, t)
    BY <1>4 DEF OpenArray
  <2>2. k \in Keys /\ w \in Seq(Token) /\ NextLine
    BY <1>4, WordsTyped DEF OpenArray, Keys, Required
  <2> QED BY <2>1, <2>2, ExtendedFacts
<1>5. ASSUME BodyLine PROVE FileShape' /\ Alike'
  <2>1. PICK w \in Words, closes \in BOOLEAN, t \in Tails :
          Extended(open[1], w, closes, t)
    BY <1>5 DEF BodyLine
  <2>2. open[1] \in Keys /\ w \in Seq(Token) /\ NextLine
    BY <1>5, WordsTyped, OpenKey DEF BodyLine
  <2> QED BY <2>1, <2>2, ExtendedFacts
<1>6. ASSUME CloseLine PROVE FileShape' /\ Alike'
  <2>1. open[1] \in Keys /\ <<>> \in Seq(Token)
    BY <1>6, OpenKey DEF CloseLine
  <2> QED BY <1>6, <2>1, ExtendedFacts DEF CloseLine, Tails
<1>7. ASSUME BodyComment PROVE FileShape' /\ Alike'
  <2>1. PICK c \in {"plain", "paren"} : SkippedLine(c)
    BY <1>7 DEF BodyComment
  <2>2. UNCHANGED <<fileStep, cliErr, shell, shellErr>> /\ strange' = (c = "paren")
    BY <1>7, <2>1 DEF BodyComment, NextLine, SkippedLine
  <2>3. CASE c = "paren"
    <3>1. open[1] \in Keys
      BY <1>7, OpenKey DEF BodyComment
    <3>2. DOMAIN raw' \subseteq Keys /\ open' = <<>> /\ body' = <<>>
      BY <2>1, <2>3, <3>1 DEF SkippedLine, Insert, With, FileShape
    <3>3. <<>> \in Seq(Token)
      OBVIOUS
    <3> QED BY <2>2, <2>3, <3>2, <3>3 DEF FileShape, Alike
  <2>4. CASE c # "paren"
    BY <1>7, <2>1, <2>2, <2>4 DEF SkippedLine, FileShape, Alike, BodyComment, NextLine
  <2> QED BY <2>3, <2>4
<1>8. ASSUME EndOfFile PROVE FileShape' /\ Alike'
  BY <1>8 DEF EndOfFile, FileShape, Alike
<1>9. ASSUME UNCHANGED fileVars PROVE FileShape' /\ Alike'
  BY <1>9 DEF fileVars, FileShape, Alike
<1> QED BY <1>1, <1>2, <1>3, <1>4, <1>5, <1>6, <1>7, <1>8, <1>9 DEF FileNext

\* The end of the file, read by both: what build_config takes out of the map is what the
\* scripts find in their variables.
LEMMA EndFacts ==
  ASSUME FileShape, Alike, EndOfFile
  PROVE  SameNodes'
<1> SUFFICES ASSUME ~strange PROVE SameNodes'
  BY DEF EndOfFile, SameNodes
<1>1. UNCHANGED <<raw, shell, strange>> /\ fileStep = "line"
  BY DEF EndOfFile
<1>2. ASSUME cliErr # "none" PROVE cliErr' \notin {"none", "MissingRequired", "UnterminatedArray"}
  BY <1>1, <1>2 DEF EndOfFile, FileShape
<1>3. ASSUME cliErr = "none", InArray PROVE cliErr' = "UnterminatedArray" /\ shellErr'
  BY <1>3 DEF EndOfFile
<1>4. ASSUME cliErr = "none", ~InArray
      PROVE  /\ cliErr' = FirstError /\ FirstError # "UnterminatedArray"
             /\ ~shellErr'
             /\ FirstError = "none" => config' = build_config
  BY <1>1, <1>4 DEF EndOfFile, FirstError, Alike
<1>5. ASSUME cliErr = "none"
      PROVE  /\ DOMAIN shell = DOMAIN raw
             /\ \A k \in DOMAIN raw : Same(raw[k], shell[k])
  BY <1>1, <1>5 DEF Alike
<1>6. ASSUME cliErr = "none", FirstError = "MissingRequired"
      PROVE  \E k \in Required : ShellScalarOf(k) = ""
  <2>1. PICK k \in Required : Missing(k)
    BY <1>6 DEF FirstError, Required
  <2>2. ShellScalarOf(k) = ""
    BY <1>5, <1>6, <2>1 DEF Missing, Empty, Has, ShellScalarOf, Same
  <2> QED BY <2>2
<1>7. ASSUME cliErr = "none", FirstError = "none"
      PROVE  /\ ShellScalarOf("CP_NAME") = build_config.cp
             /\ "WORKER_NAMES" \in DOMAIN shell => ShellWorkers = build_config.workers
  <2>1. /\ "CP_NAME" \in DOMAIN raw /\ ~Empty("CP_NAME") /\ ~Has("CP_NAME", "array")
        /\ ~Has("WORKER_NAMES", "scalar")
    BY <1>7 DEF FirstError, Missing, Required
  <2>2. ShellScalarOf("CP_NAME") = build_config.cp
    <3>1. /\ raw["CP_NAME"].shape = "scalar" /\ shell["CP_NAME"] # <<>>
          /\ shell["CP_NAME"][1] = raw["CP_NAME"].elems[1]
      BY <1>5, <1>7, <2>1 DEF Has, Same
    <3>2. take_scalar_or_default("CP_NAME", "") = raw["CP_NAME"].elems[1]
      BY <2>1, <3>1 DEF take_scalar_or_default, Has
    <3> QED BY <1>5, <1>7, <2>1, <3>1, <3>2 DEF build_config, ShellScalarOf
  <2>3. ASSUME "WORKER_NAMES" \in DOMAIN shell PROVE ShellWorkers = build_config.workers
    <3>1. /\ "WORKER_NAMES" \in DOMAIN raw /\ raw["WORKER_NAMES"].shape = "array"
          /\ shell["WORKER_NAMES"] = raw["WORKER_NAMES"].elems
      BY <1>5, <1>7, <2>1, <2>3 DEF Has, Same
    <3>2. resolved_worker_names = raw["WORKER_NAMES"].elems
      BY <3>1 DEF resolved_worker_names, Has
    <3> QED BY <2>3, <3>1, <3>2 DEF build_config, ShellWorkers
  <2> QED BY <2>2, <2>3
<1>8. /\ \A k : ShellScalarOf(k)' = ShellScalarOf(k)
      /\ ShellWorkers' = ShellWorkers /\ DOMAIN shell' = DOMAIN shell
  BY <1>1 DEF ShellScalarOf, ShellWorkers
<1>9. CASE cliErr # "none"
  BY <1>2, <1>9 DEF SameNodes
<1>10. CASE cliErr = "none" /\ InArray
  BY <1>3, <1>10 DEF SameNodes
<1>11. CASE cliErr = "none" /\ ~InArray
  <2>1. CASE FirstError = "none"
    BY <1>4, <1>7, <1>8, <1>11, <2>1 DEF SameNodes
  <2>2. CASE FirstError # "none"
    BY <1>4, <1>6, <1>8, <1>11, <2>2 DEF SameNodes
  <2> QED BY <2>1, <2>2
<1> QED BY <1>9, <1>10, <1>11

\* What hbird takes out of a plain file, the scripts that source it take out of it as
\* well, and where hbird refuses one for a missing key or an open array, they find no value
\* for a required key either or do not get through it (tokenize, parse_array,
\* build_config; `source "$CONF"` in hbird-rolling-apply.sh).
THEOREM SameNodesRead == Spec => []SameNodes
<1> DEFINE FileInv == FileShape /\ Alike /\ SameNodes
<1>1. Init => FileInv
  <2>1. <<>> \in Seq(Token)
    OBVIOUS
  <2> SUFFICES ASSUME FileInit PROVE FileInv
    BY Starts
  <2> QED BY <2>1 DEF FileInit, FileShape, Alike, SameNodes
<1>2. FileInv /\ [Next]_vars => FileInv'
  <2> SUFFICES ASSUME FileInv, [FileNext]_fileVars PROVE FileInv'
    BY Steps
  <2>1. FileShape' /\ Alike'
    BY FileStep
  <2>2. CASE EndOfFile
    BY <2>1, <2>2, EndFacts
  <2>3. CASE UNCHANGED fileVars
    BY <2>1, <2>3 DEF fileVars, SameNodes, ShellScalarOf, ShellWorkers
  <2>4. CASE FileNext /\ ~EndOfFile
    <3>1. fileStep' = "line"
      BY <2>4 DEF FileNext, ScalarLine, BlankLine, JunkLine, OpenArray, BodyLine,
        CloseLine, BodyComment, NextLine
    <3> QED BY <2>1, <3>1 DEF SameNodes
  <2> QED BY <2>2, <2>3, <2>4
<1> QED BY <1>1, <1>2, PTL DEF Spec

--------------------------------------------------------------------------------
(* NetworkPlan.                                                             *)

Apart(ms) == \A i, j \in DOMAIN ms : ms[i][1] = ms[j][1] => i = j
PastMacs == netStep \notin {"idle", "macs"} \/ (netStep = "macs" /\ ruling = "ok")

\* The values the checks read, and the primary MACs once they are resolved.
NetShape ==
  /\ workers \in Nat
  /\ netStep = "macs" => knobs.entries \in [Vms -> MacEntry]
  /\ netStep = "extra" => knobs.macs \in [Vms -> ValidMac]
  /\ netStep = "addresses" =>
       /\ knobs.ips \in [Vms -> Addr]
       /\ knobs.pod \in Cidr \cup {NoRange} /\ knobs.svc \in Cidr \cup {NoRange}
  /\ PastMacs => primary \in [Vms -> ValidMac] /\ Apart(primary)
  /\ netStep = "reserve" => knobs.vm \in Nat

\* The ruling on the NICs and on the addresses: two parts of PlanIsSound.
RuledOn ==
  /\ ruling = "ok" /\ netStep # "reserve" => NicsAreApart /\ AddressesAreApart
  /\ ruling = "refused" /\ netStep \in {"macs", "extra", "addresses"} =>
       ~(NicsAreApart /\ AddressesAreApart)

\* The VM's address is in force, or the MAC had one before.
Kept(i) ==
  primary[i][1] \in DOMAIN hosts /\ (primary[i][1] \in added => hosts[primary[i][1]] = pins[i])

\* The reservations of this deploy: VMs are dealt with in order, each under its own MAC.
Booked ==
  /\ Distinct(hosts)
  /\ netStep \notin {"reserve", "done"} => pins = <<>> /\ added = {}
  /\ netStep \in {"reserve", "done"} =>
       /\ DOMAIN pins \subseteq Vms
       /\ ~warned => \A i \in DOMAIN pins : Kept(i)
  /\ netStep = "reserve" =>
       /\ \A i \in DOMAIN pins : i < knobs.vm
       /\ \A m \in added : \E i \in Vms : i < knobs.vm /\ m = primary[i][1]

(* ---- MACs ---------------------------------------------------------------*)

\* The MAC of a VM is one or malformed, and never unset.
LEMMA MacOfFacts ==
  ASSUME NEW e \in MacEntry
  PROVE  MacOf(e) = BadMac \/ MacOf(e) \in ValidMac
<1>1. CASE \E m \in Mac \ {NoMac} : e = [given |-> m, derived |-> 1]
  BY <1>1 DEF MacOf, Mac
<1>2. CASE \E d \in 1 .. MaxNic : e = [given |-> NoMac, derived |-> d]
  BY <1>2 DEF MacOf, ValidMac
<1> QED BY <1>1, <1>2 DEF MacEntry

\* In lower case two MACs are the same text exactly if they are the same MAC.
LEMMA LowerFacts ==
  /\ \A m \in ValidMac : /\ m[1] \in 1 .. MaxNic
                         /\ to_ascii_lowercase(m) = <<m[1], "lower">>
                         /\ to_ascii_lowercase(m) \in ValidMac
  /\ \A m, n \in ValidMac :
       to_ascii_lowercase(m) = to_ascii_lowercase(n) <=> m[1] = n[1]
  /\ BadMac[1] = 0
<1>1. \A m \in ValidMac : /\ m[1] \in 1 .. MaxNic
                          /\ to_ascii_lowercase(m) = <<m[1], "lower">>
                          /\ to_ascii_lowercase(m) \in ValidMac
  BY DEF ValidMac, to_ascii_lowercase
<1>2. \A m, n \in ValidMac :
        to_ascii_lowercase(m) = to_ascii_lowercase(n) <=> m[1] = n[1]
  <2> SUFFICES ASSUME NEW m \in ValidMac, NEW n \in ValidMac
               PROVE  <<m[1], "lower">> = <<n[1], "lower">> <=> m[1] = n[1]
    BY <1>1
  <2> QED OBVIOUS
<1> QED BY <1>1, <1>2 DEF BadMac

\* resolve_primary_macs accepts exactly the MACs that are apart.
LEMMA MacsRuled ==
  ASSUME NetShape, RuledOn, resolve_primary_macs
  PROVE  NetShape' /\ RuledOn'
<1> DEFINE e == knobs.entries
           id(i) == MacOf(e[i])
           ok == \A i \in DOMAIN e : is_valid_mac(id(i)) /\ ~PrimaryCollides(e, i)
           apart == /\ \A i \in Vms : id(i)[1] # 0
                    /\ \A i, j \in Vms : id(i)[1] = id(j)[1] => i = j
<1>1. /\ netStep = "macs" /\ netStep' = "macs" /\ UNCHANGED <<workers, knobs>>
      /\ ruling' = IF ok THEN "ok" ELSE "refused"
      /\ primary' = IF ok THEN [i \in DOMAIN e |-> MacOf(e[i])] ELSE <<>>
      /\ workers \in Nat /\ e \in [Vms -> MacEntry] /\ DOMAIN e = Vms
  BY DEF resolve_primary_macs, Decide, NetShape
<1>2. \A i \in Vms : id(i) = BadMac \/ id(i) \in ValidMac
  BY <1>1, MacOfFacts
<1>3. \A i \in Vms : /\ is_valid_mac(id(i)) <=> id(i)[1] # 0
                     /\ id(i)[1] # 0 => id(i) \in ValidMac
  BY <1>2, LowerFacts DEF is_valid_mac
<1>4. \A i \in Vms : PrimaryCollides(e, i) <=>
                       \E j \in 0 .. i - 1 : to_ascii_lowercase(id(j)) = to_ascii_lowercase(id(i))
  BY DEF PrimaryCollides
<1> HIDE DEF e, id
<1>5. ok => apart
  <2> SUFFICES ASSUME ok PROVE apart
    OBVIOUS
  <2>1. \A i \in Vms : id(i)[1] # 0 /\ id(i) \in ValidMac
    BY <1>1, <1>3
  <2>2. ASSUME NEW i \in Vms, NEW j \in Vms, id(i)[1] = id(j)[1], j < i PROVE FALSE
    <3>1. to_ascii_lowercase(id(j)) = to_ascii_lowercase(id(i)) /\ j \in 0 .. i - 1
      BY <1>1, <2>1, <2>2, LowerFacts DEF Vms
    <3> QED BY <1>1, <1>4, <3>1
  <2>3. \A i, j \in Vms : i \in Nat /\ j \in Nat
    BY <1>1 DEF Vms
  <2> QED BY <2>1, <2>2, <2>3
<1>6. apart => ok
  <2> SUFFICES ASSUME apart, NEW i \in Vms PROVE is_valid_mac(id(i)) /\ ~PrimaryCollides(e, i)
    BY <1>1
  <2>1. \A j \in 0 .. i - 1 : j \in Vms /\ j # i
    BY <1>1 DEF Vms
  <2>2. \A j \in 0 .. i - 1 : to_ascii_lowercase(id(j)) # to_ascii_lowercase(id(i))
    BY <1>3, <2>1, LowerFacts
  <2> QED BY <1>3, <1>4, <2>2
<1> HIDE DEF ok, apart
<1>7. NicsAreApart' <=> apart
  <2> DEFINE ids == [i \in Vms |-> MacOf(e[i])[1]]
  <2>1. NicsAreApart' <=> 0 \notin Used(ids) /\ Distinct(ids)
    BY <1>1 DEF NicsAreApart, e, Vms
  <2>2. DOMAIN ids = Vms /\ \A i \in Vms : ids[i] = id(i)[1]
    BY DEF id
  <2> HIDE DEF ids
  <2>3. 0 \notin Used(ids) <=> \A i \in Vms : id(i)[1] # 0
    BY <2>2 DEF Used
  <2>4. Distinct(ids) <=> \A i, j \in Vms : id(i)[1] = id(j)[1] => i = j
    BY <2>2 DEF Distinct
  <2> QED BY <2>1, <2>3, <2>4 DEF apart
<1>8. AddressesAreApart'
  BY <1>1 DEF AddressesAreApart
<1>9. ASSUME ok PROVE primary' \in [Vms -> ValidMac] /\ Apart(primary')
  <2>1. primary' = [i \in Vms |-> id(i)]
    BY <1>1, <1>9 DEF id
  <2>2. \A i \in Vms : id(i) \in ValidMac
    BY <1>3, <1>5, <1>9 DEF apart
  <2> QED BY <1>5, <1>9, <2>1, <2>2 DEF Apart, apart
<1>10. NetShape'
  BY <1>1, <1>9 DEF NetShape, PastMacs, Vms, e
<1> QED BY <1>1, <1>5, <1>6, <1>7, <1>8, <1>10 DEF RuledOn

\* CheckExtraMacs accepts exactly the MACs that are apart from each other and from the
\* primary ones.
LEMMA ExtraRuled ==
  ASSUME NetShape, RuledOn, CheckExtraMacs
  PROVE  NetShape' /\ RuledOn'
<1> DEFINE m == knobs.macs
           ok == \A i \in Vms : ~ExtraCollides(m, i)
           apart == /\ \A i, j \in Vms : m[i][1] = m[j][1] => i = j
                    /\ \A i, j \in Vms : primary[j][1] # m[i][1]
<1>1. /\ netStep = "extra" /\ netStep' = "extra" /\ UNCHANGED <<workers, knobs, primary>>
      /\ ruling' = IF ok THEN "ok" ELSE "refused"
      /\ workers \in Nat /\ m \in [Vms -> ValidMac]
      /\ primary \in [Vms -> ValidMac] /\ Apart(primary)
  BY DEF CheckExtraMacs, Decide, NetShape, PastMacs
<1>2. \A i \in Vms : m[i] \in ValidMac /\ primary[i] \in ValidMac
  BY <1>1, LowerFacts
<1>3. \A i \in Vms : ExtraCollides(m, i) <=>
        \/ \E j \in 0 .. i - 1 : to_ascii_lowercase(m[j]) = to_ascii_lowercase(m[i])
        \/ \E j \in Vms : to_ascii_lowercase(primary[j]) = to_ascii_lowercase(m[i])
  BY DEF ExtraCollides
<1>4. \A i \in Vms : \A j \in 0 .. i - 1 : j \in Vms /\ j # i
  BY <1>1 DEF Vms
<1>5. \A i, j \in Vms : i \in Nat /\ j \in Nat /\ (j < i => j \in 0 .. i - 1)
  BY <1>1 DEF Vms
<1> HIDE DEF m
<1>6. \A i \in Vms : ExtraCollides(m, i) <=>
        \/ \E j \in 0 .. i - 1 : m[j][1] = m[i][1]
        \/ \E j \in Vms : primary[j][1] = m[i][1]
  BY <1>2, <1>3, <1>4, LowerFacts
<1>7. ok => apart
  <2> SUFFICES ASSUME ok PROVE apart
    OBVIOUS
  <2>1. ASSUME NEW i \in Vms, NEW j \in Vms, m[i][1] = m[j][1], j < i PROVE FALSE
    BY <1>5, <1>6, <2>1
  <2>2. \A i, j \in Vms : primary[j][1] # m[i][1]
    BY <1>6
  <2> QED BY <1>5, <2>1, <2>2
<1>8. apart => ok
  BY <1>4, <1>6
<1> HIDE DEF ok, apart
<1>9. NicsAreApart' <=> apart
  <2> DEFINE ids == [n \in Vms \X {1, 2} |-> IF n[2] = 1 THEN primary[n[1]][1] ELSE m[n[1]][1]]
  <2>1. NicsAreApart' <=> Distinct(ids)
    BY <1>1 DEF NicsAreApart, m, Vms
  <2>2. DOMAIN ids = Vms \X {1, 2}
    OBVIOUS
  <2>3. \A i \in Vms : ids[<<i, 1>>] = primary[i][1] /\ ids[<<i, 2>>] = m[i][1]
    OBVIOUS
  <2> HIDE DEF ids
  <2>4. Distinct(ids) => apart
    <3> SUFFICES ASSUME Distinct(ids) PROVE apart
      OBVIOUS
    <3>1. ASSUME NEW i \in Vms, NEW j \in Vms, m[i][1] = m[j][1] PROVE i = j
      <4>1. <<i, 2>> \in DOMAIN ids /\ <<j, 2>> \in DOMAIN ids
        BY <2>2
      <4>2. <<i, 2>> = <<j, 2>>
        BY <2>3, <3>1, <4>1 DEF Distinct
      <4> QED BY <4>2
    <3>2. ASSUME NEW i \in Vms, NEW j \in Vms, primary[j][1] = m[i][1] PROVE FALSE
      <4>1. <<i, 2>> \in DOMAIN ids /\ <<j, 1>> \in DOMAIN ids
        BY <2>2
      <4>2. <<i, 2>> = <<j, 1>>
        BY <2>3, <3>2, <4>1 DEF Distinct
      <4> QED BY <4>2
    <3> QED BY <3>1, <3>2 DEF apart
  <2>5. apart => Distinct(ids)
    <3> SUFFICES ASSUME apart, NEW a \in Vms \X {1, 2}, NEW b \in Vms \X {1, 2},
                        ids[a] = ids[b]
                 PROVE  a = b
      BY <2>2 DEF Distinct
    <3>1. /\ a = <<a[1], a[2]>> /\ a[1] \in Vms /\ a[2] \in {1, 2}
          /\ b = <<b[1], b[2]>> /\ b[1] \in Vms /\ b[2] \in {1, 2}
      OBVIOUS
    <3>2. /\ ids[a] = IF a[2] = 1 THEN primary[a[1]][1] ELSE m[a[1]][1]
          /\ ids[b] = IF b[2] = 1 THEN primary[b[1]][1] ELSE m[b[1]][1]
      BY DEF ids
    <3>3. \A i, j \in Vms : primary[i][1] = primary[j][1] => i = j
      BY <1>1 DEF Apart
    <3> DEFINE i == a[1]
               j == b[1]
               x == a[2]
               y == b[2]
    <3>4. /\ i \in Vms /\ j \in Vms /\ x \in {1, 2} /\ y \in {1, 2}
          /\ (IF x = 1 THEN primary[i][1] ELSE m[i][1])
               = (IF y = 1 THEN primary[j][1] ELSE m[j][1])
      BY <3>1, <3>2
    <3> HIDE DEF i, j, x, y
    <3>5. CASE x = 1 /\ y = 1
      BY <3>1, <3>3, <3>4, <3>5 DEF i, j, x, y
    <3>6. CASE x = 2 /\ y = 2
      BY <3>1, <3>4, <3>6 DEF i, j, x, y, apart
    <3>7. CASE x # y
      BY <3>4, <3>7 DEF apart
    <3> QED BY <3>4, <3>5, <3>6, <3>7
  <2> QED BY <2>1, <2>4, <2>5
<1>10. AddressesAreApart'
  BY <1>1 DEF AddressesAreApart
<1>11. NetShape'
  BY <1>1 DEF NetShape, PastMacs, Vms, m
<1> QED BY <1>1, <1>7, <1>8, <1>9, <1>10, <1>11 DEF RuledOn

(* ---- addresses ----------------------------------------------------------*)

\* An address and the range it is in.
LEMMA DivisionFacts ==
  ASSUME NEW x \in Nat, NEW s \in Nat \ {0}, NEW k \in Nat
  PROVE  (x \div s = k) <=> (k * s <= x /\ x < (k + 1) * s)
<1>1. s * (x \div s) <= x /\ x < s * (x \div s) + s /\ x \div s \in Nat
  OBVIOUS
<1>2. ASSUME k * s <= x, x < (k + 1) * s PROVE x \div s = k
  <2>1. s * k <= x /\ x < s * k + s
    BY <1>2
  <2> QED BY <2>1
<1> QED BY <1>1, <1>2

\* ip_in_cidr, a comparison of leading bits, says whether the range holds the address.
LEMMA RangeIsMask ==
  ASSUME NEW a \in Addr, NEW c \in Cidr \cup {NoRange}
  PROVE  ip_in_cidr(a, c) <=> a \in KnownRange(c)
<1>1. CASE c = NoRange
  BY <1>1 DEF ip_in_cidr, KnownRange
<1>2. CASE c \in Cidr
  <2> DEFINE p == c[2]
             b == c[1]
             size == 2^(AddrBits - p)
             count == 2^p
  <2>1. p \in 0 .. AddrBits /\ AddrBits - p \in 0 .. AddrBits /\ b \in Addr
    BY <1>2, NetAssumption DEF Cidr
  <2>2. size \in Nat \ {0} /\ count \in Nat \ {0} /\ count * size = 2^AddrBits
    BY <2>1, PowersAssumption
  <2>3. a \in Nat /\ b \in Nat /\ a < count * size /\ b < count * size
    BY <2>1, <2>2 DEF Addr
  <2>4. c # NoRange
    <3>1. NoRange[1] \notin Addr
      BY <2>2 DEF NoRange, NoAddr, Addr
    <3> QED BY <2>1, <3>1
  <2>5. ip_in_cidr(a, c) <=> p = 0 \/ a \div size = b \div size
    BY <2>4 DEF ip_in_cidr
  <2>6. a \in KnownRange(c) <=>
          \E k \in Nat \cap (0 .. count - 1) :
            a \in k * size .. (k + 1) * size - 1 /\ b \in k * size .. (k + 1) * size - 1
    BY <2>4 DEF KnownRange
  <2>7. p = 0 => count = 1
    OBVIOUS
  <2> HIDE DEF p, b, size, count
  <2>8. \A x, k \in Nat : (x \in k * size .. (k + 1) * size - 1) <=> (x \div size = k)
    <3> SUFFICES ASSUME NEW x \in Nat, NEW k \in Nat
                 PROVE  (x \in k * size .. (k + 1) * size - 1) <=> (x \div size = k)
      OBVIOUS
    <3>1. k * size \in Nat /\ (k + 1) * size \in Nat
      BY <2>2
    <3>2. (x \in k * size .. (k + 1) * size - 1) <=> (k * size <= x /\ x < (k + 1) * size)
      BY <3>1
    <3> QED BY <2>2, <3>2, DivisionFacts
  <2>9. ASSUME NEW x \in Nat, x < count * size
        PROVE  x \div size \in Nat /\ x \div size < count
    <3>1. size * (x \div size) <= x /\ x \div size \in Nat
      BY <2>2
    <3>2. size * (x \div size) < size * count
      BY <2>2, <2>9, <3>1
    <3> QED BY <2>2, <3>1, <3>2
  <2>10. a \in KnownRange(c) <=> a \div size = b \div size
    <3>1. /\ a \div size \in Nat \cap (0 .. count - 1)
          /\ b \div size \in Nat \cap (0 .. count - 1)
      BY <2>2, <2>3, <2>9
    <3> QED BY <2>3, <2>6, <2>8, <3>1
  <2>11. ASSUME p = 0 PROVE a \div size = b \div size
    <3>1. \A x \in Nat : x < 1 => x = 0
      OBVIOUS
    <3> QED BY <2>3, <2>7, <2>9, <2>11, <3>1
  <2> QED BY <2>5, <2>10, <2>11
<1> QED BY <1>1, <1>2

\* CheckAddresses accepts exactly the addresses that are apart from each other and outside
\* the cluster's ranges.
LEMMA AddressesRuled ==
  ASSUME NetShape, RuledOn, CheckAddresses
  PROVE  NetShape' /\ RuledOn'
<1> DEFINE a == knobs.ips
           ok == \A i \in Vms : /\ \A j \in 0 .. i - 1 : a[j] # a[i]
                                /\ ~ip_in_cidr(a[i], knobs.pod)
                                /\ ~ip_in_cidr(a[i], knobs.svc)
           once == \A i, j \in Vms : a[i] = a[j] => i = j
           outside == \A i \in Vms : a[i] \notin KnownRange(knobs.pod) \cup KnownRange(knobs.svc)
<1>1. /\ netStep = "addresses" /\ netStep' = "addresses"
      /\ UNCHANGED <<workers, knobs, primary>>
      /\ ruling' = IF ok THEN "ok" ELSE "refused"
      /\ workers \in Nat /\ a \in [Vms -> Addr] /\ DOMAIN a = Vms
      /\ knobs.pod \in Cidr \cup {NoRange} /\ knobs.svc \in Cidr \cup {NoRange}
  BY DEF CheckAddresses, Decide, NetShape
<1>2. \A i \in Vms : a[i] \in Addr
  BY <1>1
<1>3. \A i \in Vms : /\ ip_in_cidr(a[i], knobs.pod) <=> a[i] \in KnownRange(knobs.pod)
                     /\ ip_in_cidr(a[i], knobs.svc) <=> a[i] \in KnownRange(knobs.svc)
  BY <1>1, <1>2, RangeIsMask
<1>4. \A i \in Vms : \A j \in 0 .. i - 1 : j \in Vms /\ j # i
  BY <1>1 DEF Vms
<1>5. \A i, j \in Vms : i \in Nat /\ j \in Nat /\ (j < i => j \in 0 .. i - 1)
  BY <1>1 DEF Vms
<1> HIDE DEF a
<1>6. (\A i \in Vms : \A j \in 0 .. i - 1 : a[j] # a[i]) <=> once
  <2>1. ASSUME \A i \in Vms : \A j \in 0 .. i - 1 : a[j] # a[i],
               NEW i \in Vms, NEW j \in Vms, a[i] = a[j]
        PROVE  i = j
    <3>1. ~(j < i) /\ ~(i < j)
      BY <1>5, <2>1
    <3> QED BY <1>5, <3>1
  <2>2. once => \A i \in Vms : \A j \in 0 .. i - 1 : a[j] # a[i]
    BY <1>4
  <2> QED BY <2>1, <2>2
<1>7. ok <=> once /\ outside
  BY <1>3, <1>6
<1> HIDE DEF ok, once, outside
<1>8. AddressesAreApart' <=> once /\ outside
  <2>1. AddressesAreApart' <=>
          Distinct(a) /\ Used(a) \cap (KnownRange(knobs.pod) \cup KnownRange(knobs.svc)) = {}
    BY <1>1 DEF AddressesAreApart, a
  <2>2. Distinct(a) <=> once
    BY <1>1 DEF Distinct, once
  <2>3. (Used(a) \cap (KnownRange(knobs.pod) \cup KnownRange(knobs.svc)) = {}) <=> outside
    BY <1>1 DEF Used, outside
  <2> QED BY <2>1, <2>2, <2>3
<1>9. NicsAreApart'
  BY <1>1 DEF NicsAreApart
<1>10. NetShape'
  BY <1>1 DEF NetShape, PastMacs, Vms, a
<1> QED BY <1>1, <1>7, <1>8, <1>9, <1>10 DEF RuledOn

(* ---- reservations -------------------------------------------------------*)

\* A reservation of a VM: it goes under the VM's own MAC, which no earlier VM has, and only
\* if the address is free.
LEMMA ReserveFacts ==
  ASSUME NetShape, Booked, ReserveVm
  PROVE  Booked'
<1> DEFINE v == knobs.vm
           mac == primary[v][1]
<1>1. /\ netStep = "reserve" /\ netStep' = "reserve" /\ v \in Vms /\ v \in Nat
      /\ UNCHANGED <<workers, primary>> /\ knobs'.vm = v + 1
      /\ workers \in Nat /\ primary \in [Vms -> ValidMac] /\ Apart(primary)
  BY DEF ReserveVm, NetShape, PastMacs
<1>2. /\ Distinct(hosts) /\ DOMAIN pins \subseteq Vms
      /\ \A i \in DOMAIN pins : i < v
      /\ \A m \in added : \E i \in Vms : i < v /\ m = primary[i][1]
      /\ ~warned => \A i \in DOMAIN pins : Kept(i)
  BY <1>1 DEF Booked
<1>3. \A i \in Vms : i \in Nat /\ (i < v => i < v + 1 /\ primary[i][1] # mac)
  BY <1>1 DEF Vms, Apart
<1>4. mac \notin added
  BY <1>2, <1>3
<1> HIDE DEF v, mac
<1>5. CASE UNCHANGED resVars
  <2>1. UNCHANGED <<hosts, pins, added, warned>>
    BY <1>5 DEF resVars
  <2>2. DOMAIN pins \subseteq Vms' /\ Vms' = Vms
    BY <1>1, <1>2 DEF Vms
  <2>3. /\ \A i \in DOMAIN pins : i < v + 1
        /\ \A m \in added : \E i \in Vms : i < v + 1 /\ m = primary[i][1]
    BY <1>2, <1>3
  <2>4. ~warned => \A i \in DOMAIN pins : Kept(i)'
    BY <1>1, <1>2, <2>1 DEF Kept
  <2> QED BY <1>1, <1>2, <2>1, <2>2, <2>3, <2>4 DEF Booked
<1>6. ASSUME NEW ip \in Addr, ensure_dhcp_reservation(mac, ip),
             pins' = [j \in DOMAIN pins \cup {v} |-> IF j = v THEN ip ELSE pins[j]]
      PROVE  Booked'
  <2>1. \/ UNCHANGED <<hosts, added, warned>> /\ mac \in DOMAIN hosts
        \/ UNCHANGED <<hosts, added>> /\ warned' = TRUE
        \/ /\ mac \notin DOMAIN hosts /\ \A m \in DOMAIN hosts : hosts[m] # ip
           /\ hosts' = [m \in DOMAIN hosts \cup {mac} |-> IF m = mac THEN ip ELSE hosts[m]]
           /\ added' = added \cup {mac} /\ UNCHANGED warned
    BY <1>6 DEF ensure_dhcp_reservation, classify_dhcp_reservation, Reserved, Present, Taken,
      NetUpdateWorks, NetUpdateFails, net_update_add_ip_dhcp_host
  <2>2. Distinct(hosts')
    BY <1>2, <2>1 DEF Distinct
  <2>3. DOMAIN pins' \subseteq Vms' /\ \A i \in DOMAIN pins' : i < v + 1
    BY <1>1, <1>2, <1>3, <1>6 DEF Vms
  <2>4. \A m \in added' : \E i \in Vms' : i < v + 1 /\ m = primary'[i][1]
    <3>1. Vms' = Vms /\ added' \subseteq added \cup {mac}
      BY <1>1, <2>1 DEF Vms
    <3>2. mac = primary[v][1] /\ v < v + 1
      BY <1>1 DEF mac
    <3> QED BY <1>1, <1>2, <1>3, <3>1, <3>2
  <2>5. ASSUME ~warned', NEW i \in DOMAIN pins' PROVE Kept(i)'
    <3>1. CASE i = v
      <4>1. pins'[i] = ip /\ primary'[i][1] = mac
        BY <1>1, <1>6, <3>1 DEF mac
      <4>2. mac \in DOMAIN hosts' /\ (mac \in added' => hosts'[mac] = ip)
        BY <1>4, <2>1, <2>5
      <4> QED BY <4>1, <4>2 DEF Kept
    <3>2. CASE i # v
      <4>1. i \in DOMAIN pins /\ pins'[i] = pins[i] /\ ~warned
        BY <1>6, <2>1, <2>5, <3>2
      <4>2. primary'[i][1] = primary[i][1] /\ primary[i][1] # mac
        BY <1>1, <1>2, <1>3, <4>1
      <4>3. Kept(i)
        BY <1>2, <4>1
      <4> QED BY <2>1, <4>1, <4>2, <4>3 DEF Kept
    <3> QED BY <3>1, <3>2
  <2> QED BY <1>1, <2>2, <2>3, <2>4, <2>5 DEF Booked
<1> QED BY <1>5, <1>6 DEF ReserveVm, v, mac

\* A check that leaves the reservations alone leaves them booked.
LEMMA BookedKept ==
  ASSUME Booked, UNCHANGED resVars, netStep \notin {"reserve", "done"},
         netStep' \notin {"reserve", "done"}
  PROVE  Booked'
BY DEF Booked, resVars

\* Every step keeps the plan's invariant.
LEMMA NetStep ==
  ASSUME NetShape, RuledOn, Booked, [NetNext]_netVars
  PROVE  NetShape' /\ RuledOn' /\ Booked'
<1> DEFINE Goal == NetShape' /\ RuledOn' /\ Booked'
<1>1. ASSUME StartPlan PROVE Goal
  <2>1. PICK n \in 0 .. MaxNetWorkers : workers' = n /\ \E e \in [0 .. n -> MacEntry] :
                                                       knobs' = [entries |-> e]
    BY <1>1 DEF StartPlan
  <2>2. n \in Nat /\ Vms' = 0 .. n /\ knobs'.entries \in [0 .. n -> MacEntry]
    BY <2>1, NetAssumption DEF Vms
  <2>3. netStep = "idle" /\ netStep' = "macs" /\ ruling' = "open" /\ UNCHANGED resVars
    BY <1>1 DEF StartPlan
  <2>4. NetShape'
    BY <2>1, <2>2, <2>3 DEF NetShape, PastMacs
  <2>5. Booked'
    BY <2>3, BookedKept
  <2> QED BY <2>3, <2>4, <2>5 DEF RuledOn
<1>2. ASSUME resolve_primary_macs PROVE Goal
  <2>1. netStep = "macs" /\ netStep' = "macs" /\ UNCHANGED resVars
    BY <1>2 DEF resolve_primary_macs, Decide
  <2> QED BY <1>2, <2>1, MacsRuled, BookedKept
<1>3. ASSUME LookRanges \/ LookFamily \/ LookArrays \/ LookHost PROVE Goal
  <2>1. /\ netStep' \in {"ranges", "family", "arrays", "host"} /\ ruling' = "open"
        /\ UNCHANGED <<workers, primary, resVars>>
        /\ netStep \in {"macs", "ranges", "family", "addresses"} /\ ruling = "ok"
    BY <1>3 DEF LookRanges, LookFamily, LookArrays, LookHost, Look
  <2>2. NetShape'
    BY <2>1 DEF NetShape, PastMacs, Vms
  <2>3. Booked'
    BY <2>1, BookedKept
  <2> QED BY <2>1, <2>2, <2>3 DEF RuledOn
<1>4. ASSUME CheckRanges \/ CheckFamily \/ CheckArrays \/ check_extra_network_on_host
      PROVE  Goal
  <2>1. /\ netStep' = netStep /\ netStep \in {"ranges", "family", "arrays", "host"}
        /\ UNCHANGED <<workers, knobs, primary, resVars>>
    BY <1>4 DEF CheckRanges, CheckFamily, CheckArrays, check_extra_network_on_host, Decide
  <2>2. NetShape'
    BY <2>1 DEF NetShape, PastMacs, Vms
  <2>3. NicsAreApart' /\ AddressesAreApart'
    BY <2>1 DEF NicsAreApart, AddressesAreApart
  <2>4. Booked'
    BY <2>1, BookedKept
  <2> QED BY <2>1, <2>2, <2>3, <2>4 DEF RuledOn
<1>5. ASSUME LookExtraMacs PROVE Goal
  <2>1. /\ netStep' = "extra" /\ ruling' = "open" /\ UNCHANGED <<workers, primary, resVars>>
        /\ netStep = "arrays" /\ knobs'.macs \in [Vms -> ValidMac]
    BY <1>5 DEF LookExtraMacs, Look
  <2>2. NetShape'
    BY <2>1 DEF NetShape, PastMacs, Vms
  <2>3. Booked'
    BY <2>1, BookedKept
  <2> QED BY <2>1, <2>2, <2>3 DEF RuledOn
<1>6. ASSUME CheckExtraMacs PROVE Goal
  <2>1. netStep = "extra" /\ netStep' = "extra" /\ UNCHANGED resVars
    BY <1>6 DEF CheckExtraMacs, Decide
  <2> QED BY <1>6, <2>1, ExtraRuled, BookedKept
<1>7. ASSUME LookAddresses PROVE Goal
  <2>1. /\ netStep' = "addresses" /\ ruling' = "open"
        /\ UNCHANGED <<workers, primary, resVars>>
        /\ netStep = "extra" /\ knobs'.ips \in [Vms -> Addr]
        /\ knobs'.pod \in Cidr \cup {NoRange} /\ knobs'.svc \in Cidr \cup {NoRange}
    BY <1>7 DEF LookAddresses, Look
  <2>2. NetShape'
    BY <2>1 DEF NetShape, PastMacs, Vms
  <2>3. Booked'
    BY <2>1, BookedKept
  <2> QED BY <2>1, <2>2, <2>3 DEF RuledOn
<1>8. ASSUME CheckAddresses PROVE Goal
  <2>1. netStep = "addresses" /\ netStep' = "addresses" /\ UNCHANGED resVars
    BY <1>8 DEF CheckAddresses, Decide
  <2> QED BY <1>8, <2>1, AddressesRuled, BookedKept
<1>9. ASSUME StartReservations PROVE Goal
  <2>1. /\ netStep' = "reserve" /\ ruling' = "open" /\ knobs' = [vm |-> 0]
        /\ netStep \in {"host", "family"} /\ hosts' \in Left
        /\ primary' = [i \in Vms |-> to_ascii_lowercase(primary[i])]
        /\ UNCHANGED <<workers, pins, added, warned>>
    BY <1>9 DEF StartReservations, Accepted
  <2>5. primary \in [Vms -> ValidMac] /\ Apart(primary) /\ Vms' = Vms
    BY <2>1 DEF NetShape, PastMacs, Vms
  <2>6. primary' \in [Vms -> ValidMac] /\ \A i \in Vms : primary'[i][1] = primary[i][1]
    BY <2>1, <2>5, LowerFacts
  <2>7. Apart(primary')
    BY <2>5, <2>6 DEF Apart
  <2>2. NetShape'
    BY <2>1, <2>5, <2>6, <2>7 DEF NetShape
  <2>3. Distinct(hosts')
    BY <2>1 DEF Left
  <2>4. pins' = <<>> /\ added' = {} /\ DOMAIN pins' = {}
    BY <2>1 DEF Booked
  <2> QED BY <2>1, <2>2, <2>3, <2>4 DEF RuledOn, Booked
<1>10. ASSUME ReserveVm PROVE Goal
  <2>1. /\ netStep = "reserve" /\ netStep' = "reserve"
        /\ UNCHANGED <<ruling, workers, primary>> /\ knobs' = [vm |-> knobs.vm + 1]
    BY <1>10 DEF ReserveVm
  <2>2. NetShape'
    BY <2>1 DEF NetShape, PastMacs, Vms
  <2> QED BY <1>10, <2>1, <2>2, ReserveFacts DEF RuledOn
<1>11. ASSUME PlanDone PROVE Goal
  <2>1. /\ netStep = "reserve" /\ netStep' = "done"
        /\ UNCHANGED <<ruling, workers, knobs, primary, hosts, pins, added, warned>>
    BY <1>11 DEF PlanDone, resVars
  <2>2. NetShape'
    BY <2>1 DEF NetShape, PastMacs, Vms
  <2>3. NicsAreApart' /\ AddressesAreApart'
    BY <2>1 DEF NicsAreApart, AddressesAreApart
  <2>4. Booked'
    BY <2>1 DEF Booked, Kept, Vms
  <2> QED BY <2>1, <2>2, <2>3, <2>4 DEF RuledOn
<1>12. ASSUME PlanOver PROVE Goal
  BY <1>12 DEF PlanOver, NetShape, PastMacs, RuledOn, Booked, Distinct
<1>13. ASSUME UNCHANGED netVars PROVE Goal
  <2>1. UNCHANGED <<netStep, ruling, workers, knobs, primary, hosts, pins, added, warned>>
    BY <1>13 DEF netVars
  <2>2. NetShape'
    BY <2>1 DEF NetShape, PastMacs, Vms, Apart
  <2>3. NicsAreApart' = NicsAreApart /\ AddressesAreApart' = AddressesAreApart
    BY <2>1 DEF NicsAreApart, AddressesAreApart, Vms
  <2>4. RuledOn'
    BY <2>1, <2>3 DEF RuledOn
  <2>5. Booked'
    BY <2>1 DEF Booked, Kept, Vms
  <2> QED BY <2>2, <2>4, <2>5
<1> QED BY <1>1, <1>2, <1>3, <1>4, <1>5, <1>6, <1>7, <1>8, <1>9, <1>10, <1>11, <1>12, <1>13
        DEF NetNext

\* deploy-cluster goes on exactly with the plans in which every NIC has a MAC of its own and
\* every address of the second network is used once and lies outside the ranges that the
\* config sets, and the reservations of a deploy that warned of nothing hold
\* (resolve_primary_macs, validate_extra_network, ensure_dhcp_reservation).
THEOREM PlansAreSound == Spec => []PlanIsSound
<1> DEFINE NetInv == NetShape /\ RuledOn /\ Booked
<1>1. Init => NetInv
  <2> SUFFICES ASSUME NetInit PROVE NetInv
    BY Starts
  <2> QED BY DEF NetInit, NetShape, PastMacs, RuledOn, Booked, Distinct
<1>2. NetInv /\ [Next]_vars => NetInv'
  BY Steps, NetStep
<1>3. NetInv => PlanIsSound
  BY DEF RuledOn, Booked, Kept, PlanIsSound, ReservationsHold
<1> QED BY <1>1, <1>2, <1>3, PTL DEF Spec

--------------------------------------------------------------------------------
(* CiliumPreflight.                                                         *)

\* The ends of the window of a row: both grow with the Cilium minor.
Lowest(c) ==
  CASE c = 14 -> 19 [] c = 15 -> 26 [] c = 16 -> 27 [] c = 17 -> 29 [] c = 18 -> 30
Highest(c) ==
  CASE c = 14 -> 27 [] c = 15 -> 29 [] c = 16 -> 30 [] c = 17 -> 32 [] c = 18 -> 33

\* The pins that are classified are the minors the operator means, but for a "v".
PinIsMeant ==
  \A m \in Nat : /\ (found.k8s = Minor(m)) <=> Means(given.k8s.text, m)
                 /\ (found.cilium = Minor(m)) <=> (Means(given.cilium.text, m) /\ ~FlagWithV)
Readable == PinReadable(given.cilium, 3) /\ PinReadable(given.k8s, 2)

\* The verdict is the one on the pins.
Judged ==
  \/ Rows(found.cilium) = {} /\ diagnosis.kind = "MatrixStale"
  \/ \E c \in Rows(found.cilium) :
       \/ /\ \E m \in Row[c] : Minor(m) = found.k8s
          /\ diagnosis.kind = "Supported"
       \/ /\ ~\E m \in Row[c] : Minor(m) = found.k8s
          /\ diagnosis.kind = "Mismatch"
          /\ diagnosis.below = is_below_window(found.k8s, lowest_supported_minor(c))

\* A pin that cannot be read ends the command; otherwise the pins, then the verdict, then
\* the exit code that goes with it.
PreInv ==
  /\ given.k8s.text \in TextsOf(K8sMinors) /\ given.cilium.text \in TextsOf(CiliumMinors)
  /\ preStep \in {"resolve", "classify", "exit", "over"}
  /\ preStep # "over" => exitCode = 0
  /\ preStep \in {"classify", "exit"} => Readable
  /\ preStep = "over" =>
       /\ (exitCode = 2) <=> ~Readable
       /\ (exitCode = 1) <=>
            (Readable /\ given.strict /\ ~given.dry /\ diagnosis.kind # "Supported")
  /\ preStep # "resolve" /\ Readable => PinIsMeant
  /\ preStep \in {"exit", "over"} /\ Readable => Judged

\* The windows are intervals, and they move up with the Cilium minor.
LEMMA RowIsWindow ==
  /\ DOMAIN Row = 14 .. 18
  /\ \A c \in 14 .. 18 :
       /\ Lowest(c) \in Nat /\ Highest(c) \in Nat /\ Lowest(c) < Highest(c)
       /\ \A k : k \in Row[c] <=> k \in Nat /\ Lowest(c) <= k /\ k <= Highest(c)
BY DEF Row, Lowest, Highest

\* A later row starts and ends later.
LEMMA WindowsMove ==
  \A c, d \in 14 .. 18 : c < d => Lowest(c) < Lowest(d) /\ Highest(c) < Highest(d)
BY DEF Lowest, Highest

\* lowest_supported_minor is the lower end of the window.
LEMMA LowestIsLowest ==
  ASSUME NEW c \in 14 .. 18
  PROVE  lowest_supported_minor(c) = Lowest(c)
<1>1. /\ Lowest(c) \in Nat /\ Highest(c) \in Nat /\ Lowest(c) < Highest(c)
      /\ \A k : k \in Row[c] <=> k \in Nat /\ Lowest(c) <= k /\ k <= Highest(c)
  BY RowIsWindow
<1>2. \A m, n \in Nat : PairBelow(<<1, n>>, <<1, m>>) <=> n < m
  BY DEF PairBelow
<1>3. /\ Lowest(c) \in Row[c]
      /\ \A n \in Row[c] : ~PairBelow(<<1, n>>, <<1, Lowest(c)>>)
  BY <1>1, <1>2
<1>4. ASSUME NEW m \in Row[c], \A n \in Row[c] : ~PairBelow(<<1, n>>, <<1, m>>)
      PROVE  m = Lowest(c)
  <2>1. m \in Nat /\ Lowest(c) <= m /\ ~PairBelow(<<1, Lowest(c)>>, <<1, m>>)
    BY <1>1, <1>3, <1>4
  <2> QED BY <1>1, <1>2, <2>1
<1> QED BY <1>3, <1>4 DEF lowest_supported_minor

\* Two texts of a minor are one only if the minors are.
LEMMA MinorIsOne == \A m, n \in Nat : Minor(m) = Minor(n) => m = n
<1> SUFFICES ASSUME NEW m \in Nat, NEW n \in Nat, Minor(m) = Minor(n) PROVE m = n
  OBVIOUS
<1>1. <<1, m>> = <<1, n>>
  BY DEF Minor, Text
<1> QED BY <1>1

\* The comparison with a minor.
LEMMA BelowIsLess ==
  \A m, low \in Nat : is_below_window(Minor(m), low) <=> m < low
<1> SUFFICES ASSUME NEW m \in Nat, NEW low \in Nat
             PROVE  is_below_window(Minor(m), low) <=> m < low
  OBVIOUS
<1>1. Minor(m).nums = <<1, m>> /\ Len(<<1, m>>) = 2 /\ <<1, m>>[1] = 1 /\ <<1, m>>[2] = m
  BY DEF Minor, Text
<1> QED BY <1>1 DEF is_below_window, HasPair, PairBelow

\* A verdict on the pins is right.
LEMMA JudgedRight ==
  ASSUME PinIsMeant, Judged
  PROVE  VerdictIsRight
<1>1. \A c \in 14 .. 18 : Row[c] \subseteq Nat
  BY RowIsWindow
<1>2. \A c, d \in Rows(found.cilium) : c = d /\ c \in 14 .. 18
  BY MinorIsOne, RowIsWindow DEF Rows
<1>3. \A c \in 14 .. 18 : c \in Rows(found.cilium) <=>
                            (Means(given.cilium.text, c) /\ ~FlagWithV)
  <2>1. \A c \in 14 .. 18 : c \in Nat /\ (c \in Rows(found.cilium) <=> found.cilium = Minor(c))
    BY RowIsWindow DEF Rows
  <2> QED BY <2>1 DEF PinIsMeant
<1>4. \A c \in 14 .. 18 : (\E m \in Row[c] : Minor(m) = found.k8s)
                            <=> \E m \in Row[c] : Means(given.k8s.text, m)
  BY <1>1 DEF PinIsMeant
<1> DEFINE listed == Listed /\ ~FlagWithV
<1>5. listed <=> \E c \in Rows(found.cilium) : \E m \in Row[c] : Minor(m) = found.k8s
  <2>1. listed <=> \E c \in 14 .. 18 : /\ Means(given.cilium.text, c) /\ ~FlagWithV
                                        /\ \E m \in Row[c] : Means(given.k8s.text, m)
    BY RowIsWindow DEF Listed
  <2> HIDE DEF listed
  <2> QED BY <1>2, <1>3, <1>4, <2>1
<1> HIDE DEF listed
<1>6. (diagnosis.kind = "Supported") <=> listed
  BY <1>2, <1>5 DEF Judged
<1>11. (diagnosis.kind = "MatrixStale") <=> Rows(found.cilium) = {}
  BY <1>2 DEF Judged
<1>12. (Rows(found.cilium) = {}) <=>
         (FlagWithV \/ \A c \in DOMAIN Row : ~Means(given.cilium.text, c))
  BY <1>2, <1>3, RowIsWindow
<1>7. ASSUME diagnosis.kind = "Mismatch", NEW c \in Rows(found.cilium)
      PROVE  /\ \A m \in Row[c] : ~Means(given.k8s.text, m)
             /\ diagnosis.below = is_below_window(found.k8s, Lowest(c))
  <2>1. PICK d \in Rows(found.cilium) :
          /\ ~\E m \in Row[d] : Minor(m) = found.k8s
          /\ diagnosis.below = is_below_window(found.k8s, lowest_supported_minor(d))
    BY <1>7 DEF Judged
  <2>2. d = c /\ c \in 14 .. 18
    BY <1>2, <1>7
  <2> QED BY <1>4, <2>1, <2>2, LowestIsLowest
<1>8. ASSUME diagnosis.kind = "Mismatch", NEW c \in Rows(found.cilium), NEW k \in Nat,
             Means(given.k8s.text, k)
      PROVE  /\ diagnosis.below <=> k < Lowest(c)
             /\ k < Lowest(c) \/ k > Highest(c)
  <2>1. c \in 14 .. 18
    BY <1>2
  <2>2. found.k8s = Minor(k)
    BY <1>8 DEF PinIsMeant
  <2>3. diagnosis.below <=> k < Lowest(c)
    BY <1>7, <1>8, <2>1, <2>2, RowIsWindow, BelowIsLess
  <2>4. ~(Lowest(c) <= k /\ k <= Highest(c))
    BY <1>7, <1>8, <2>1, RowIsWindow
  <2> QED BY <2>1, <2>3, <2>4, RowIsWindow
<1>9. ASSUME diagnosis.kind = "Mismatch", NEW c \in Rows(found.cilium), NEW d \in DOMAIN Row,
             NEW k \in Row[d], Means(given.k8s.text, k)
      PROVE  (d < c /\ diagnosis.below) \/ (d > c /\ ~diagnosis.below)
  <2>1. c \in 14 .. 18 /\ d \in 14 .. 18 /\ k \in Nat
    BY <1>1, <1>2, <1>9, RowIsWindow
  <2>2. k >= Lowest(d) /\ k <= Highest(d)
    BY <1>9, <2>1, RowIsWindow
  <2>3. (diagnosis.below <=> k < Lowest(c)) /\ (k < Lowest(c) \/ k > Highest(c))
    BY <1>8, <1>9, <2>1
  <2>4. /\ Lowest(c) \in Nat /\ Highest(c) \in Nat /\ Lowest(c) < Highest(c)
        /\ Lowest(d) \in Nat /\ Highest(d) \in Nat
        /\ c < d => Lowest(c) < Lowest(d)
        /\ d < c => Highest(d) < Highest(c)
    BY <2>1, RowIsWindow, WindowsMove
  <2>5. d # c
    BY <2>1, <2>2, <2>3, <2>4
  <2>6. CASE d < c
    BY <2>1, <2>2, <2>3, <2>4, <2>6
  <2>7. CASE d > c
    BY <2>1, <2>2, <2>3, <2>4, <2>7
  <2> QED BY <2>1, <2>5, <2>6, <2>7
<1>10. ASSUME diagnosis.kind = "Mismatch", NEW c \in Rows(found.cilium), NEW k \in K8sMinors,
              Means(given.k8s.text, k), \A n \in Row[c] : k < n
       PROVE  diagnosis.below
  <2>1. c \in 14 .. 18 /\ k \in Nat
    BY <1>2, PreflightAssumption
  <2>2. Lowest(c) \in Row[c]
    BY <2>1, RowIsWindow
  <2> QED BY <1>8, <1>10, <2>1, <2>2
<1>13. ASSUME diagnosis.kind = "Mismatch", NEW c \in DOMAIN Row, Means(given.cilium.text, c)
       PROVE  c \in Rows(found.cilium)
  BY <1>3, <1>11, <1>12, <1>13, RowIsWindow
<1> QED BY <1>6, <1>9, <1>10, <1>11, <1>12, <1>13 DEF VerdictIsRight, listed

\* The first two numbers of a text.
LEMMA LeadingTwo ==
  ASSUME NEW s \in Seq(Nat), Len(s) >= 2
  PROVE  SubSeq(s, 1, 2) = <<s[1], s[2]>>
<1>1. /\ SubSeq(s, 1, 2) \in Seq(Nat) /\ Len(SubSeq(s, 1, 2)) = 2
      /\ SubSeq(s, 1, 2)[1] = s[1] /\ SubSeq(s, 1, 2)[2] = s[2]
  OBVIOUS
<1>2. <<s[1], s[2]>> \in Seq(Nat) /\ Len(<<s[1], s[2]>>) = 2
  OBVIOUS
<1>3. \A i \in 1 .. 2 : SubSeq(s, 1, 2)[i] = <<s[1], s[2]>>[i]
  BY <1>1
<1> QED BY <1>1, <1>2, <1>3, SeqEqual

\* The first three numbers of a text.
LEMMA LeadingThree ==
  ASSUME NEW s \in Seq(Nat), Len(s) >= 3
  PROVE  /\ SubSeq(s, 1, 3) \in Seq(Nat) /\ Len(SubSeq(s, 1, 3)) = 3
         /\ SubSeq(s, 1, 3)[1] = s[1] /\ SubSeq(s, 1, 3)[2] = s[2]
  OBVIOUS

\* The minor of a text without a "v" that has at least two numbers.
LEMMA MinorOfText ==
  ASSUME NEW s \in Seq(Nat), Len(s) >= 2
  PROVE  cilium_minor_of(Text(FALSE, s)) = Text(FALSE, SubSeq(s, 1, 2))
<1>1. Text(FALSE, s).nums = s /\ Text(FALSE, s).v = FALSE
  BY DEF Text
<1> QED BY <1>1 DEF cilium_minor_of, HasLeading, Leading

\* The numbers of a text are numbers.
LEMMA NumsTyped ==
  ASSUME NEW minors \in SUBSET Nat, NEW t \in TextsOf(minors)
  PROVE  t.nums \in Seq(Nat)
<1> DEFINE Short == {<<>>, <<1>>}
           Pairs == {<<M, m>> : M \in {1, 2}, m \in minors}
           Triples == {<<1, m, 5>> : m \in minors}
<1>1. Short \subseteq Seq(Nat)
  <2>1. <<>> \in Seq(Nat) /\ <<1>> \in Seq(Nat)
    OBVIOUS
  <2> QED BY <2>1
<1>2. Pairs \subseteq Seq(Nat)
  <2> SUFFICES ASSUME NEW p \in Pairs PROVE p \in Seq(Nat)
    OBVIOUS
  <2>1. PICK M \in {1, 2}, m \in minors : p = <<M, m>>
    OBVIOUS
  <2>2. <<M, m>> \in Seq(Nat)
    OBVIOUS
  <2> QED BY <2>1, <2>2
<1>3. Triples \subseteq Seq(Nat)
  <2>1. \A m \in Nat : <<1, m, 5>> \in Seq(Nat)
    OBVIOUS
  <2> QED BY <2>1
<1>4. TextsOf(minors) = {Text(v, n) : v \in BOOLEAN, n \in Short \cup Pairs \cup Triples}
  BY DEF TextsOf
<1> HIDE DEF Short, Pairs, Triples
<1>5. PICK v \in BOOLEAN, n \in Short \cup Pairs \cup Triples : t = Text(v, n)
  BY <1>4
<1>6. t.nums = n
  BY <1>5 DEF Text
<1> QED BY <1>1, <1>2, <1>3, <1>5, <1>6

\* A file without the line has a text, the empty one.
LEMMA NoTextTyped ==
  ASSUME NEW minors
  PROVE  NoText \in TextsOf(minors)
<1> DEFINE Short == {<<>>, <<1>>}
           Pairs == {<<M, m>> : M \in {1, 2}, m \in minors}
           Triples == {<<1, m, 5>> : m \in minors}
<1>1. <<>> \in Short
  OBVIOUS
<1>2. TextsOf(minors) = {Text(v, n) : v \in BOOLEAN, n \in Short \cup Pairs \cup Triples}
  BY DEF TextsOf
<1> HIDE DEF Short, Pairs, Triples
<1>3. \E v \in BOOLEAN, n \in Short \cup Pairs \cup Triples : NoText = Text(v, n)
  BY <1>1 DEF NoText
<1> QED BY <1>2, <1>3

\* The text of a minor is the one whose first two numbers it is.
LEMMA TextIsMinor ==
  ASSUME NEW n \in Seq(Nat), NEW m \in Nat, Len(n) >= 2
  PROVE  (Text(FALSE, SubSeq(n, 1, 2)) = Minor(m)) <=> (n[1] = 1 /\ n[2] = m)
<1>1. SubSeq(n, 1, 2) = <<n[1], n[2]>>
  BY LeadingTwo
<1>2. ASSUME Text(FALSE, <<n[1], n[2]>>) = Minor(m) PROVE n[1] = 1 /\ n[2] = m
  <2>1. <<n[1], n[2]>> = <<1, m>>
    BY <1>2 DEF Text, Minor
  <2> QED BY <2>1
<1>3. ASSUME n[1] = 1, n[2] = m PROVE Text(FALSE, <<n[1], n[2]>>) = Minor(m)
  BY <1>3 DEF Minor
<1> QED BY <1>1, <1>2, <1>3

\* A text is no minor's if it starts with a "v" or has fewer than two numbers.
LEMMA TextIsNoMinor ==
  ASSUME NEW t, NEW m \in Nat, t.v \/ Len(t.nums) < 2, t.nums \in Seq(Nat)
  PROVE  t # Minor(m)
<1>1. Minor(m).nums = <<1, m>> /\ Len(<<1, m>>) = 2 /\ Minor(m).v = FALSE
  BY DEF Minor, Text
<1>2. ASSUME t = Minor(m) PROVE FALSE
  <2>1. ~t.v
    <3>1. t.v = FALSE
      BY <1>1, <1>2, Zenon
    <3> QED BY <3>1, Zenon
  <2>2. Len(t.nums) = 2
    BY <1>1, <1>2, Zenon
  <2>3. ~(Len(t.nums) < 2)
    BY <2>2
  <2> QED BY <2>1, <2>3, Zenon
<1> QED BY <1>2, Zenon

\* What a text has once its "v" is stripped.
LEMMA Stripped ==
  ASSUME NEW t, NEW k \in Nat
  PROVE  /\ StripV(t) = Text(FALSE, t.nums) /\ StripV(t).nums = t.nums /\ StripV(t).v = FALSE
         /\ HasLeading(StripV(t), k) <=> Len(t.nums) >= k
         /\ Leading(StripV(t), k) = Text(FALSE, SubSeq(t.nums, 1, k))
<1>1. Text(FALSE, t.nums).nums = t.nums /\ Text(FALSE, t.nums).v = FALSE
  BY DEF Text
<1> QED BY <1>1 DEF StripV, HasLeading, Leading

\* The Kubernetes pin is resolved to the minor the operator means.
LEMMA K8sResolved ==
  ASSUME PreInv, resolve_pins, preStep' = "classify", NEW m \in Nat
  PROVE  (found'.k8s = Minor(m)) <=> Means(given.k8s.text, m)
<1> DEFINE t == given.k8s.text
           n == t.nums
<1>1. n \in Seq(Nat)
  BY NumsTyped, PreflightAssumption DEF PreInv
<1>2. /\ found'.k8s = IF given.k8s.from = "flag" THEN normalize_k8s_minor(t)
                      ELSE extract_k8s_pin(given.k8s)
      /\ given.k8s.from = "flag" \/ ExtractOk(given.k8s, 2)
  BY DEF resolve_pins
<1>3. /\ HasLeading(StripV(t), 2) <=> Len(n) >= 2
      /\ Leading(StripV(t), 2) = Text(FALSE, SubSeq(n, 1, 2))
  BY Stripped
<1>4. found'.k8s = IF Len(n) >= 2 THEN Text(FALSE, SubSeq(n, 1, 2)) ELSE t
  BY <1>2, <1>3 DEF normalize_k8s_minor, extract_k8s_pin, ExtractOk
<1>5. CASE Len(n) >= 2
  BY <1>1, <1>4, <1>5, TextIsMinor DEF Means
<1>6. CASE ~(Len(n) >= 2)
  <2>0. found'.k8s = t
    BY <1>4, <1>6
  <2>1. Len(n) < 2
    <3> HIDE DEF n
    <3> QED BY <1>1, <1>6
  <2>2. t # Minor(m)
    BY <1>1, <2>1, TextIsNoMinor
  <2> QED BY <1>6, <2>0, <2>2 DEF Means
<1> QED BY <1>5, <1>6

\* The Cilium pin is resolved to the minor the operator means, unless a flag has a "v".
LEMMA CiliumResolved ==
  ASSUME PreInv, resolve_pins, preStep' = "classify", NEW m \in Nat
  PROVE  (found'.cilium = Minor(m)) <=> (Means(given.cilium.text, m) /\ ~FlagWithV)
<1> DEFINE t == given.cilium.text
           n == t.nums
<1>1. n \in Seq(Nat)
  BY NumsTyped, PreflightAssumption DEF PreInv
<1>2. /\ found'.cilium = cilium_minor_of(IF given.cilium.from = "flag" THEN t
                                         ELSE extract_cilium_pin(given.cilium))
      /\ given.cilium.from = "flag" \/ ExtractOk(given.cilium, 3)
  BY DEF resolve_pins
<1>3. CASE given.cilium.from = "flag" /\ ~t.v /\ Len(n) >= 2
  <2>1. found'.cilium = Text(FALSE, SubSeq(n, 1, 2))
    BY <1>2, <1>3 DEF cilium_minor_of, HasLeading, Leading
  <2> QED BY <1>1, <1>3, <2>1, TextIsMinor DEF Means, FlagWithV
<1>4. CASE given.cilium.from = "flag" /\ (t.v \/ ~(Len(n) >= 2))
  <2>1. found'.cilium = t
    BY <1>2, <1>4 DEF cilium_minor_of, HasLeading
  <2>2. t.v \/ Len(n) < 2
    BY <1>1, <1>4
  <2>3. t # Minor(m)
    BY <1>1, <2>2, TextIsNoMinor
  <2> QED BY <1>4, <2>1, <2>3 DEF Means, FlagWithV
<1>5. CASE given.cilium.from # "flag"
  <2> DEFINE three == SubSeq(n, 1, 3)
  <2>1. Len(n) >= 3 /\ extract_cilium_pin(given.cilium) = Text(FALSE, three)
    BY <1>2, <1>5, Stripped DEF ExtractOk, extract_cilium_pin
  <2>2. three \in Seq(Nat) /\ Len(three) = 3 /\ three[1] = n[1] /\ three[2] = n[2]
    <3> HIDE DEF n
    <3> QED BY <1>1, <2>1, LeadingThree
  <2> HIDE DEF three
  <2>3. Len(three) >= 2
    BY <2>2
  <2>4. found'.cilium = Text(FALSE, SubSeq(three, 1, 2))
    BY <1>2, <1>5, <2>1, <2>2, <2>3, MinorOfText
  <2>5. (found'.cilium = Minor(m)) <=> (three[1] = 1 /\ three[2] = m)
    BY <2>2, <2>3, <2>4, TextIsMinor
  <2>6. Len(n) >= 2
    <3> HIDE DEF n
    <3> QED BY <1>1, <2>1
  <2> QED BY <1>5, <2>2, <2>5, <2>6 DEF Means, FlagWithV
<1> QED BY <1>3, <1>4, <1>5

\* resolve_pins goes on exactly with the pins that can be read.
LEMMA PinsReadable ==
  ASSUME resolve_pins
  PROVE  /\ UNCHANGED given /\ preStep = "resolve"
         /\ Readable => preStep' = "classify" /\ exitCode' = exitCode
         /\ ~Readable => preStep' = "over" /\ exitCode' = 2
<1>1. ExtractOk(given.cilium, 3) <=>
        given.cilium.from = "file" /\ Len(given.cilium.text.nums) >= 3
  BY Stripped DEF ExtractOk
<1>2. ExtractOk(given.k8s, 2) <=> given.k8s.from = "file" /\ Len(given.k8s.text.nums) >= 2
  BY Stripped DEF ExtractOk
<1> QED BY <1>1, <1>2 DEF resolve_pins, Readable, PinReadable

\* Every step of the command keeps the invariant.
LEMMA PreStep ==
  ASSUME PreInv, [PreflightNext]_preVars
  PROVE  PreInv'
<1>1. ASSUME resolve_pins PROVE PreInv'
  <2>1. UNCHANGED given /\ Readable' = Readable /\ FlagWithV' = FlagWithV
    BY <1>1, PinsReadable DEF Readable, FlagWithV
  <2>2. CASE Readable
    <3>1. preStep' = "classify" /\ exitCode' = 0
      BY <1>1, <2>2, PinsReadable DEF PreInv
    <3>2. PinIsMeant'
      BY <1>1, <2>1, <3>1, K8sResolved, CiliumResolved DEF PinIsMeant
    <3> QED BY <2>1, <2>2, <3>1, <3>2 DEF PreInv
  <2>3. CASE ~Readable
    <3>1. preStep' = "over" /\ exitCode' = 2
      BY <1>1, <2>3, PinsReadable
    <3> QED BY <2>1, <2>3, <3>1 DEF PreInv
  <2> QED BY <2>2, <2>3
<1>2. ASSUME classify PROVE PreInv'
  <2>1. UNCHANGED <<given, found>> /\ Rows(found'.cilium) = Rows(found.cilium)
    BY <1>2 DEF classify
  <2>2. ASSUME Rows(found.cilium) = {},
               diagnosis' = [kind |-> "MatrixStale", below |-> FALSE]
        PROVE  Judged'
    BY <2>1, <2>2 DEF Judged
  <2>3. ASSUME NEW c \in Rows(found.cilium),
               diagnosis' =
                 IF \E m \in Row[c] : Minor(m) = found.k8s
                 THEN [kind |-> "Supported", below |-> FALSE]
                 ELSE [kind |-> "Mismatch",
                       below |-> is_below_window(found.k8s, lowest_supported_minor(c))]
        PROVE  Judged'
    <3>1. CASE \E m \in Row[c] : Minor(m) = found.k8s
      BY <2>1, <2>3, <3>1 DEF Judged
    <3>2. CASE ~\E m \in Row[c] : Minor(m) = found.k8s
      BY <2>1, <2>3, <3>2 DEF Judged
    <3> QED BY <3>1, <3>2
  <2>4. Judged'
    BY <1>2, <2>2, <2>3 DEF classify
  <2>5. Readable' = Readable /\ FlagWithV' = FlagWithV
    BY <2>1 DEF Readable, FlagWithV
  <2>6. PinIsMeant'
    BY <1>2, <2>1, <2>5 DEF classify, PreInv, PinIsMeant
  <2> QED BY <1>2, <2>1, <2>4, <2>5, <2>6 DEF classify, PreInv
<1>3. ASSUME PreflightExit PROVE PreInv'
  <2>1. UNCHANGED <<given, found, diagnosis>> /\ preStep = "exit" /\ preStep' = "over"
        /\ exitCode' = IF given.dry THEN 0 ELSE verdict_exit_code
    BY <1>3 DEF PreflightExit
  <2>2. /\ Readable' = Readable /\ Readable
        /\ FlagWithV' = FlagWithV /\ Rows(found'.cilium) = Rows(found.cilium)
    BY <2>1 DEF Readable, FlagWithV, PreInv
  <2>3. Judged'
    BY <2>1, <2>2 DEF PreInv, Judged
  <2>4. PinIsMeant'
    BY <2>1, <2>2 DEF PreInv, PinIsMeant
  <2>5. /\ exitCode' # 2
        /\ (exitCode' = 1) <=> (given.strict /\ ~given.dry /\ diagnosis.kind # "Supported")
    BY <2>1 DEF verdict_exit_code
  <2> QED BY <2>1, <2>2, <2>3, <2>4, <2>5 DEF PreInv
<1>4. ASSUME UNCHANGED preVars PROVE PreInv'
  BY <1>4 DEF preVars, PreInv, Judged, PinIsMeant, Rows, Readable, FlagWithV
<1> QED BY <1>1, <1>2, <1>3, <1>4 DEF PreflightNext

\* `hbird preflight cilium` ends with 2 exactly if a pin cannot be read, and with --strict
\* passes exactly the pairs of the matrix, whatever way the pins are written but for a
\* Cilium flag with a "v", which it never passes; its verdict and its hint are right
\* (run_cilium, classify).
THEOREM PreflightRight == Spec => []PreflightIsRight
<1>1. Init => PreInv
  <2> SUFFICES ASSUME PreflightInit PROVE PreInv
    BY Starts
  <2>1. given.k8s.text \in TextsOf(K8sMinors)
    <3>1. given.k8s \in SourcesOf(K8sMinors)
      BY DEF PreflightInit
    <3> QED BY <3>1, NoTextTyped DEF SourcesOf
  <2>2. given.cilium.text \in TextsOf(CiliumMinors)
    <3>1. given.cilium \in SourcesOf(CiliumMinors)
      BY DEF PreflightInit
    <3> QED BY <3>1, NoTextTyped DEF SourcesOf
  <2> QED BY <2>1, <2>2 DEF PreflightInit, PreInv
<1>2. PreInv /\ [Next]_vars => PreInv'
  BY Steps, PreStep
<1>3. PreInv => PreflightIsRight
  <2> SUFFICES ASSUME PreInv, preStep = "over" PROVE PreflightIsRight
    BY DEF PreflightIsRight
  <2>1. Readable => VerdictIsRight
    BY JudgedRight DEF PreInv
  <2>2. Readable => ((diagnosis.kind # "Supported") <=> (~Listed \/ FlagWithV))
    BY <2>1 DEF VerdictIsRight
  <2>3. /\ (exitCode = 2) <=> ~Readable
        /\ (exitCode = 1) <=>
             (Readable /\ given.strict /\ ~given.dry /\ diagnosis.kind # "Supported")
    BY DEF PreInv
  <2> HIDE DEF PreInv
  <2> QED BY <2>1, <2>2, <2>3 DEF PreflightIsRight, Readable
<1> QED BY <1>1, <1>2, <1>3, PTL DEF Spec

--------------------------------------------------------------------------------
(* Types.                                                                   *)

\* The switch: what SwitchShape does not say.
SwitchRest ==
  /\ swPlan \in SwitchPlan /\ swVm \in Vm
  /\ swBefore \in Image \cup {NoImage} /\ swFailed \subseteq Vm /\ swStale \subseteq Vm
  /\ switches \in 0 .. MaxSwitch

\* A step of the switch keeps the types.
LEMMA SwitchTyped ==
  ASSUME SwitchShape, SwitchRest, [SwitchNext]_switchVars
  PROVE  SwitchRest'
<1> USE DEF SwitchRest, SwGo, SwFail, vmImages, switchVars
<1>1. ASSUME StartSwitch PROVE SwitchRest'
  <2>1. swPlan' \in SwitchPlan
    BY <1>1 DEF StartSwitch, SwitchPlan, Image
  <2>2. switches' \in 0 .. MaxSwitch
    BY <1>1, MaxSwitchAssumption DEF StartSwitch
  <2> QED BY <1>1, <2>1, <2>2 DEF StartSwitch
<1>2. ASSUME RunSingleVm PROVE SwitchRest'
  BY <1>2 DEF RunSingleVm
<1>3. ASSUME RunAllVms PROVE SwitchRest'
  BY <1>3 DEF RunAllVms
<1>4. ASSUME NextVm PROVE SwitchRest'
  BY <1>4 DEF NextVm, SwitchShape
<1>5. ASSUME WaitForIp \/ WaitForSsh PROVE SwitchRest'
  BY <1>5 DEF WaitForIp, WaitForSsh
<1>6. ASSUME ReadImage PROVE SwitchRest'
  <2>1. booted[swVm] \in Image
    BY DEF SwitchShape
  <2>2. swBefore' \in Image \cup {NoImage}
    BY <1>6, <2>1 DEF ReadImage, CurrentImageRef
  <2>3. swStale' \subseteq Vm
    BY <1>6 DEF ReadImage
  <2> QED BY <1>6, <2>2, <2>3 DEF ReadImage
<1>7. ASSUME BootcSwitch PROVE SwitchRest'
  BY <1>7 DEF BootcSwitch
<1>8. ASSUME Reread PROVE SwitchRest'
  BY <1>8 DEF Reread
<1>9. ASSUME Reboot PROVE SwitchRest'
  BY <1>9 DEF Reboot
<1>10. ASSUME UNCHANGED switchVars PROVE SwitchRest'
  BY <1>10
<1> QED BY <1>1, <1>2, <1>3, <1>4, <1>5, <1>6, <1>7, <1>8, <1>9, <1>10 DEF SwitchNext

\* A step of the export keeps the types.
LEMMA ExportTyped ==
  ASSUME Whole, ExportTypeOK, [ExportNext]_exportVars
  PROVE  ExportTypeOK'
<1> USE DEF ExportTypeOK, ExportOver, ExGo, ExIoFails, exportVars
<1>1. ASSUME StartExport PROVE ExportTypeOK'
  <2>1. raced' \in BOOLEAN /\ exArgs' \in ExportArgs /\ exStep' = "check"
    BY <1>1 DEF StartExport
  <2>2. exports' \in 0 .. MaxExport
    BY <1>1, ExportBoundsAssumption DEF StartExport
  <2>3. UNCHANGED <<output, backups, foreigns>> /\ fetched' \in Answered
    BY <1>1 DEF StartExport, Answered
  <2> QED BY <2>1, <2>2, <2>3
<1>2. ASSUME PreCheckOutput PROVE ExportTypeOK'
  BY <1>2 DEF PreCheckOutput
<1>3. ASSUME FetchAdminConf PROVE ExportTypeOK'
  BY <1>3 DEF FetchAdminConf
<1>4. ASSUME BackupOutput PROVE ExportTypeOK'
  <2>1. raced' \in BOOLEAN
    BY <1>4 DEF BackupOutput
  <2>2. \A b \in backups' : b.kind # "none"
    BY <1>4 DEF BackupOutput, BackedUp
  <2> QED BY <1>4, <2>1, <2>2 DEF BackupOutput
<1>5. ASSUME WriteTmp PROVE ExportTypeOK'
  BY <1>5 DEF WriteTmp
<1>6. ASSUME Rename PROVE ExportTypeOK'
  BY <1>6 DEF Rename, Whole, ForeignKinds
<1>7. ASSUME ExportKilled PROVE ExportTypeOK'
  <2>1. Partial.kind = "file"
    BY DEF Partial
  <2>2. \A b \in backups' : b.kind # "none"
    BY <1>7, <2>1 DEF ExportKilled
  <2> QED BY <1>7, <2>2 DEF ExportKilled
<1>8. ASSUME ForeignWrite PROVE ExportTypeOK'
  <2>1. output'.kind \in {"none"} \cup ForeignKinds
    BY <1>8 DEF ForeignWrite, Foreign, NoFile
  <2>2. foreigns' \in 0 .. MaxForeign
    BY <1>8, ExportBoundsAssumption DEF ForeignWrite
  <2> QED BY <1>8, <2>1, <2>2 DEF ForeignWrite
<1>9. ASSUME UNCHANGED exportVars PROVE ExportTypeOK'
  BY <1>9
<1> QED BY <1>1, <1>2, <1>3, <1>4, <1>5, <1>6, <1>7, <1>8, <1>9 DEF ExportNext

\* A step of the preflight keeps the types.
LEMMA PreflightTyped ==
  ASSUME PreflightTypeOK, [PreflightNext]_preVars
  PROVE  PreflightTypeOK'
<1>1. ASSUME resolve_pins PROVE PreflightTypeOK'
  BY <1>1 DEF resolve_pins, PreflightTypeOK
<1>2. ASSUME classify PROVE PreflightTypeOK'
  <2>1. \A t, low : is_below_window(t, low) \in BOOLEAN
    BY DEF is_below_window, HasPair
  <2>2. /\ diagnosis'.kind \in {"none", "Supported", "MatrixStale", "Mismatch"}
        /\ diagnosis'.below \in BOOLEAN
    <3>1. CASE diagnosis' = [kind |-> "MatrixStale", below |-> FALSE]
      BY <3>1
    <3>2. CASE diagnosis' = [kind |-> "Supported", below |-> FALSE]
      BY <3>2
    <3>3. ASSUME NEW c,
                 diagnosis' = [kind |-> "Mismatch",
                               below |-> is_below_window(found.k8s, lowest_supported_minor(c))]
          PROVE  diagnosis'.kind = "Mismatch" /\ diagnosis'.below \in BOOLEAN
      BY <2>1, <3>3
    <3> QED BY <1>2, <3>1, <3>2, <3>3 DEF classify
  <2> QED BY <1>2, <2>2 DEF classify, PreflightTypeOK
<1>3. ASSUME PreflightExit PROVE PreflightTypeOK'
  BY <1>3 DEF PreflightExit, PreflightTypeOK, verdict_exit_code
<1>4. ASSUME UNCHANGED preVars PROVE PreflightTypeOK'
  BY <1>4 DEF preVars, PreflightTypeOK
<1> QED BY <1>1, <1>2, <1>3, <1>4 DEF PreflightNext

\* A line keeps the types.
LEMMA FileTyped ==
  ASSUME FileShape, FileShape', FileTypeOK, [FileNext]_fileVars
  PROVE  FileTypeOK'
<1>1. DOMAIN raw' \subseteq Keys /\ DOMAIN shell' \subseteq Keys /\ Len(open') <= 1
  <2>1. Len(<<>>) = 0 /\ \A k : Len(<<k>>) = 1
    OBVIOUS
  <2>2. open' = <<>> \/ \E k \in Keys : open' = <<k>>
    BY DEF FileShape
  <2>3. Len(open') = 0 \/ Len(open') = 1
    BY <2>1, <2>2, Zenon
  <2>4. Len(open') <= 1
    <3>1. \A n : n = 0 \/ n = 1 => n <= 1
      OBVIOUS
    <3> QED BY <2>3, <3>1, Zenon
  <2>5. DOMAIN raw' \subseteq Keys /\ DOMAIN shell' \subseteq Keys
    BY DEF FileShape
  <2> QED BY <2>4, <2>5
<1> DEFINE Rest == /\ fileStep \in {"line", "done"} /\ lines \in 0 .. MaxLines
                   /\ cliErr \in FileErrors /\ DOMAIN config = DOMAIN NoConfig
                   /\ shellErr \in BOOLEAN /\ strange \in BOOLEAN
           Rested == /\ fileStep' \in {"line", "done"} /\ lines' \in 0 .. MaxLines
                     /\ cliErr' \in FileErrors /\ DOMAIN config' = DOMAIN NoConfig
                     /\ shellErr' \in BOOLEAN /\ strange' \in BOOLEAN
<1>2. Rest
  BY DEF FileTypeOK
<1>3. NextLine => /\ fileStep' \in {"line", "done"} /\ lines' \in 0 .. MaxLines
                  /\ DOMAIN config' = DOMAIN NoConfig
  BY <1>2, ConfigBoundsAssumption DEF NextLine
<1>4. ASSUME ScalarLine PROVE Rested
  <2>1. NextLine
    BY <1>4 DEF ScalarLine
  <2>2. cliErr' \in FileErrors
    BY <1>4 DEF ScalarLine, ScalarError, FileErrors
  <2>3. shellErr' \in BOOLEAN
    BY <1>2, <1>4 DEF ScalarLine
  <2>4. strange' \in BOOLEAN
    BY <1>4 DEF ScalarLine, Divergent
  <2> QED BY <1>3, <2>1, <2>2, <2>3, <2>4
<1>5. ASSUME BlankLine PROVE Rested
  BY <1>2, <1>3, <1>5 DEF BlankLine
<1>6. ASSUME JunkLine PROVE Rested
  BY <1>2, <1>3, <1>6 DEF JunkLine, FileErrors
<1>7. ASSUME NEW k, NEW w, NEW closes, NEW c, Extended(k, w, closes, c), NextLine PROVE Rested
  <2>1. strange' \in BOOLEAN
    BY <1>7 DEF Extended, ReadAlike
  <2>2. cliErr' \in FileErrors
    BY <1>2, <1>7 DEF Extended, FileErrors
  <2>3. shellErr' \in BOOLEAN
    BY <1>7 DEF Extended, ArrayRuns
  <2> QED BY <1>3, <1>7, <2>1, <2>2, <2>3
<1>8. ASSUME OpenArray \/ BodyLine \/ CloseLine PROVE Rested
  BY <1>7, <1>8 DEF OpenArray, BodyLine, CloseLine
<1>9. ASSUME BodyComment PROVE Rested
  <2>1. NextLine
    BY <1>9 DEF BodyComment
  <2>2. strange' \in BOOLEAN
    BY <1>9 DEF BodyComment, SkippedLine
  <2>3. UNCHANGED <<cliErr, shellErr>>
    BY <1>9 DEF BodyComment, SkippedLine
  <2> QED BY <1>2, <1>3, <2>1, <2>2, <2>3
<1>10. ASSUME EndOfFile PROVE Rested
  <2>1. FirstError \in FileErrors /\ "UnterminatedArray" \in FileErrors
    BY DEF FirstError, FileErrors
  <2>2. cliErr' \in FileErrors
    BY <1>2, <1>10, <2>1 DEF EndOfFile
  <2>3. DOMAIN build_config = DOMAIN NoConfig
    BY DEF build_config, NoConfig
  <2>4. DOMAIN config' = DOMAIN NoConfig
    BY <1>10, <2>3 DEF EndOfFile
  <2>5. shellErr' \in BOOLEAN
    BY <1>10 DEF EndOfFile
  <2> QED BY <1>2, <1>10, <2>2, <2>4, <2>5 DEF EndOfFile
<1>11. ASSUME UNCHANGED fileVars PROVE Rested
  BY <1>2, <1>11 DEF fileVars
<1>12. Rested
  BY <1>4, <1>5, <1>6, <1>8, <1>9, <1>10, <1>11 DEF FileNext
<1> QED BY <1>1, <1>12 DEF FileTypeOK

\* The network plan: what NetShape and Booked do not say.
NetRest ==
  /\ netStep \in NetSteps /\ ruling \in {"open", "ok", "refused"}
  /\ workers \in 0 .. MaxNetWorkers
  /\ PastMacs \/ primary = <<>>
  /\ DOMAIN hosts \subseteq 1 .. MaxNic /\ \A m \in DOMAIN hosts : hosts[m] \in Addr
  /\ \A i \in DOMAIN pins : pins[i] \in Addr
  /\ added \subseteq DOMAIN hosts /\ warned \in BOOLEAN

\* Together they are the types of the plan.
LEMMA NetTypes ==
  ASSUME NetShape, Booked, NetRest
  PROVE  NetTypeOK
<1>1. \A i \in DOMAIN primary : primary[i] \in ValidMac
  BY LowerFacts DEF NetShape, NetRest
<1>2. DOMAIN pins \subseteq Vms
  BY DEF Booked
<1> QED BY <1>1, <1>2 DEF NetRest, NetTypeOK

\* A reservation keeps the types.
LEMMA ReserveTyped ==
  ASSUME NetShape, NetRest, ReserveVm
  PROVE  NetRest'
<1> DEFINE v == knobs.vm
           mac == primary[v][1]
<1>1. /\ netStep = "reserve" /\ netStep' = "reserve" /\ v \in Vms
      /\ UNCHANGED <<ruling, workers, primary>> /\ primary \in [Vms -> ValidMac]
  BY DEF ReserveVm, NetShape, PastMacs
<1>2. mac \in 1 .. MaxNic
  BY <1>1 DEF ValidMac
<1> HIDE DEF v, mac
<1>3. CASE UNCHANGED resVars
  BY <1>1, <1>3 DEF resVars, NetRest, PastMacs
<1>4. ASSUME NEW ip \in Addr, ensure_dhcp_reservation(mac, ip),
             pins' = [j \in DOMAIN pins \cup {v} |-> IF j = v THEN ip ELSE pins[j]]
      PROVE  NetRest'
  <2>1. \/ UNCHANGED <<hosts, added>>
        \/ /\ hosts' = [m \in DOMAIN hosts \cup {mac} |-> IF m = mac THEN ip ELSE hosts[m]]
           /\ added' = added \cup {mac}
    BY <1>4 DEF ensure_dhcp_reservation, Reserved, net_update_add_ip_dhcp_host
  <2>2. warned' = warned \/ warned' = TRUE
    BY <1>4 DEF ensure_dhcp_reservation, Reserved
  <2>3. warned' \in BOOLEAN
    BY <2>2 DEF NetRest
  <2>4. \A i \in DOMAIN pins' : pins'[i] \in Addr
    BY <1>4 DEF NetRest
  <2>5. /\ DOMAIN hosts' \subseteq 1 .. MaxNic /\ \A m \in DOMAIN hosts' : hosts'[m] \in Addr
        /\ added' \subseteq DOMAIN hosts'
    BY <1>2, <1>4, <2>1 DEF NetRest
  <2> QED BY <1>1, <2>3, <2>4, <2>5 DEF NetRest, PastMacs
<1> QED BY <1>3, <1>4 DEF ReserveVm, v, mac

\* Every step of the plan keeps the types.
LEMMA NetTyped ==
  ASSUME NetShape, Booked, NetRest, [NetNext]_netVars
  PROVE  NetRest'
<1> USE DEF NetSteps
<1>1. ASSUME StartPlan PROVE NetRest'
  BY <1>1 DEF StartPlan, resVars, NetRest, PastMacs
<1>2. ASSUME resolve_primary_macs PROVE NetRest'
  BY <1>2 DEF resolve_primary_macs, Decide, resVars, NetRest, PastMacs
<1>3. ASSUME CheckRanges \/ CheckFamily \/ CheckArrays \/ CheckExtraMacs \/ CheckAddresses
               \/ check_extra_network_on_host
      PROVE  NetRest'
  <2>1. /\ UNCHANGED <<netStep, workers, primary, hosts, pins, added, warned>>
        /\ ruling' \in {"ok", "refused"}
        /\ netStep \in {"ranges", "family", "arrays", "extra", "addresses", "host"}
    BY <1>3 DEF CheckRanges, CheckFamily, CheckArrays, CheckExtraMacs, CheckAddresses,
      check_extra_network_on_host, Decide, resVars
  <2> QED BY <2>1 DEF NetRest, PastMacs
<1>4. ASSUME \/ LookRanges \/ LookFamily \/ LookArrays \/ LookExtraMacs \/ LookAddresses
             \/ LookHost
      PROVE  NetRest'
  <2>1. /\ UNCHANGED <<workers, primary, hosts, pins, added, warned>> /\ ruling' = "open"
        /\ netStep' \in {"ranges", "family", "arrays", "extra", "addresses", "host"}
    BY <1>4 DEF LookRanges, LookFamily, LookArrays, LookExtraMacs, LookAddresses, LookHost,
      Look, resVars
  <2> QED BY <2>1 DEF NetRest, PastMacs
<1>5. ASSUME StartReservations PROVE NetRest'
  <2>1. /\ UNCHANGED <<workers, pins, added, warned>> /\ ruling' = "open"
        /\ netStep' = "reserve" /\ hosts' \in Left /\ netStep \in {"host", "family"}
    BY <1>5 DEF StartReservations, Accepted
  <2>2. DOMAIN hosts' \subseteq 1 .. MaxNic /\ \A m \in DOMAIN hosts' : hosts'[m] \in Addr
    BY <2>1 DEF Left
  <2>3. added = {}
    BY <2>1 DEF Booked
  <2> QED BY <2>1, <2>2, <2>3 DEF NetRest, PastMacs
<1>6. ASSUME ReserveVm PROVE NetRest'
  BY <1>6, ReserveTyped
<1>7. ASSUME PlanDone PROVE NetRest'
  BY <1>7 DEF PlanDone, resVars, NetRest, PastMacs
<1>8. ASSUME PlanOver PROVE NetRest'
  <2>1. /\ netStep' = "idle" /\ ruling' = "open" /\ workers' = 0 /\ primary' = <<>>
        /\ hosts' = <<>> /\ pins' = <<>> /\ added' = {} /\ warned' \in BOOLEAN
    BY <1>8 DEF PlanOver
  <2>2. DOMAIN hosts' = {} /\ DOMAIN pins' = {} /\ workers' \in 0 .. MaxNetWorkers
    BY <2>1, NetAssumption
  <2> QED BY <2>1, <2>2 DEF NetRest
<1>9. ASSUME UNCHANGED netVars PROVE NetRest'
  BY <1>9 DEF netVars, NetRest, PastMacs
<1> QED BY <1>1, <1>2, <1>3, <1>4, <1>5, <1>6, <1>7, <1>8, <1>9 DEF NetNext

\* Every variable of every command has its type, for every value of the bounds.
THEOREM CommandsTypeCorrect == Spec => []TypeOK
<1> DEFINE SwitchPart == SwitchShape /\ SwitchRest
           ExportPart == Whole /\ ExportTypeOK
           SshPart == SshRest /\ Conserved
           NetPart == NetShape /\ RuledOn /\ Booked /\ NetRest
           FilePart == FileShape /\ Alike /\ FileTypeOK
           Typed == SwitchPart /\ ExportPart /\ SshPart /\ NetPart /\ FilePart /\ PreflightTypeOK
<1>1. Init => Typed
  <2> SUFFICES ASSUME Init PROVE Typed
    OBVIOUS
  <2>1. SwitchPart
    <3>1. SwitchInit
      BY Starts
    <3>2. (CHOOSE t \in Tag : TRUE) \in Tag /\ (CHOOSE v \in Vm : TRUE) \in Vm
      BY SomeVmAssumption DEF Vm
    <3>3. SwitchShape
      BY <3>1 DEF SwitchInit, SwitchShape, SwitchOver, AtHandSteps
    <3>4. swPlan \in SwitchPlan
      BY <3>1, <3>2 DEF SwitchInit, SwitchPlan
    <3> QED BY <3>1, <3>2, <3>3, <3>4, MaxSwitchAssumption DEF SwitchInit, SwitchRest
  <2>2. ExportPart
    <3>1. ExportInit
      BY Starts
    <3>2. (CHOOSE c \in Context : TRUE) \in Context
      BY SomeContextAssumption
    <3>3. exArgs \in ExportArgs /\ raced \in BOOLEAN /\ fetched \in Answered
      BY <3>1, <3>2 DEF ExportInit, ExportArgs, Answered
    <3>4. output.kind \in {"none"} \cup ForeignKinds /\ output.by # "hbird"
      BY <3>1 DEF ExportInit, Foreign, NoFile
    <3>5. ExportTypeOK
      BY <3>1, <3>3, <3>4, ExportBoundsAssumption DEF ExportInit, ExportTypeOK, ExportOver
    <3>6. Whole
      BY <3>1, <3>4 DEF ExportInit, Whole, ExportOver
    <3> QED BY <3>5, <3>6
  <2>3. SshPart
    BY Starts, SshStarts
  <2>4. NetPart
    <3>1. NetInit
      BY Starts
    <3>2. NetShape /\ RuledOn /\ Booked
      BY <3>1 DEF NetInit, NetShape, PastMacs, RuledOn, Booked, Distinct
    <3>3. DOMAIN hosts = {} /\ DOMAIN pins = {} /\ workers \in 0 .. MaxNetWorkers
      BY <3>1, NetAssumption DEF NetInit
    <3>4. warned \in BOOLEAN
      BY <3>1 DEF NetInit
    <3> QED BY <3>1, <3>2, <3>3, <3>4 DEF NetInit, NetRest, NetSteps
  <2>5. FilePart
    <3>1. FileInit
      BY Starts
    <3>2. <<>> \in Seq(Token) /\ Len(<<>>) = 0
      OBVIOUS
    <3>3. FileShape /\ Alike
      BY <3>1, <3>2 DEF FileInit, FileShape, Alike
    <3>4. shellErr \in BOOLEAN /\ strange \in BOOLEAN
      BY <3>1 DEF FileInit
    <3>5. FileTypeOK
      BY <3>1, <3>2, <3>4, ConfigBoundsAssumption DEF FileInit, FileTypeOK, FileErrors
    <3> QED BY <3>3, <3>5
  <2>6. PreflightTypeOK
    <3>1. PreflightInit
      BY Starts
    <3>2. NoReport.kind = "none" /\ NoReport.below \in BOOLEAN
      BY DEF NoReport
    <3> QED BY <3>1, <3>2 DEF PreflightInit, PreflightTypeOK
  <2> QED BY <2>1, <2>2, <2>3, <2>4, <2>5, <2>6
<1>2. Typed /\ [Next]_vars => Typed'
  <2> SUFFICES ASSUME Typed, [Next]_vars PROVE Typed'
    OBVIOUS
  <2>1. SwitchShape' /\ SwitchRest'
    BY Steps, SwitchShapeStep, SwitchTyped
  <2>2. Whole' /\ ExportTypeOK'
    BY Steps, WholeStep, ExportTyped
  <2>3. SshRest' /\ Conserved'
    BY Steps, SshRestStep, ConservedStep
  <2>4. NetShape' /\ RuledOn' /\ Booked' /\ NetRest'
    BY Steps, NetStep, NetTyped
  <2>5. FileShape' /\ Alike' /\ FileTypeOK'
    BY Steps, FileStep, FileTyped
  <2>6. PreflightTypeOK'
    BY Steps, PreflightTyped
  <2> QED BY <2>1, <2>2, <2>3, <2>4, <2>5, <2>6
<1>3. Typed /\ ChecksTypeOK => TypeOK
  <2> SUFFICES ASSUME Typed, ChecksTypeOK PROVE TypeOK
    OBVIOUS
  <2>1. SwitchTypeOK
    BY DEF SwitchShape, SwitchRest, SwitchTypeOK, AtHandSteps
  <2>2. SshTypeOK
    BY SshBoundsAssumption DEF SshRest, Conserved, SshTypeOK
  <2>3. NetTypeOK
    BY NetTypes
  <2> QED BY <2>1, <2>2, <2>3 DEF TypeOK
<1>4. Spec => []ChecksTypeOK
  BY ChecksLift, ChecksTypeCorrect, PTL
<1> QED BY <1>1, <1>2, <1>3, <1>4, PTL DEF Spec
==============================================================================
