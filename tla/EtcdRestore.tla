------------------------------ MODULE EtcdRestore ------------------------------
(***************************************************************************)
(* `hbird etcd backup` and `hbird etcd restore` (etcd.rs) against the      *)
(* control plane: the static-pod manifests, the kubelet, the running etcd  *)
(* and its data directory.  The restore is one remote script; hbird waits  *)
(* for it, and sends a rollback script when it failed or when the          *)
(* connection was lost, in which case the script goes on by itself.        *)
(*                                                                         *)
(* A data directory is told from others by a number and by where it comes  *)
(* from: the cluster's own, a snapshot, or an empty directory the kubelet  *)
(* made for the etcd pod.                                                  *)
(***************************************************************************)
EXTENDS Integers

CONSTANTS
  Snap,        \* the snapshot files on the operator's machine
  Own, Empty,  \* origins of a data directory that is not from a snapshot
  None,        \* no file or directory
  Partial,     \* a file or directory whose writing was cut off
  MaxDirs,     \* bound: data directories made
  PromptStop,  \* the static pods stop within the script's 10 s
  Faults       \* "call", "step", "lost", "crash"

ASSUME NamesAssumption ==
  /\ {Own, Empty} \cap Snap = {} /\ Own # Empty
  /\ {None, Partial} \cap (Snap \cup {Own, Empty}) = {} /\ None # Partial
ASSUME MaxDirsAssumption == MaxDirs \in Nat
ASSUME PromptStopAssumption == PromptStop \in BOOLEAN

Dirs == [id: 0 .. MaxDirs, from: Snap \cup {Own, Empty}]
FirstDir == [id |-> 0, from |-> Own]

ASSUME DirsAssumption == None \notin Dirs /\ Partial \notin Dirs

VARIABLES
  \* the control plane
  live,     \* the manifests are in /etc/kubernetes/manifests, not in .disabled
  kubelet,  \* kubelet runs
  dir,      \* /var/lib/etcd
  kept,     \* the /var/lib/etcd.before-restore.<ts> directories
  open,     \* the data directory of the running etcd, or None
  tmp,      \* /tmp/restore-snapshot.db
  script,   \* the next command of the restore script, or "over"
  scriptOk, \* how it ended
  made,     \* data directories made so far
  \* the operator's machine
  file,     \* the snapshot files: None, Partial, or whole: the file's name
  pc,       \* the next call of the command
  snap,     \* the file it writes or reads
  \* history
  opened,   \* every data directory an etcd has run on
  rolled,   \* the rollback ran with both commands, and the script was over by then
  upFirst   \* kubelet ran when the restore began

cpVars == <<live, kubelet, dir, kept, open, tmp, made, opened>>
scriptVars == <<script, scriptOk>>
cmdVars == <<file, pc, snap, rolled, upFirst>>
vars == <<cpVars, scriptVars, cmdVars>>

Steps == {"aside", "sleep", "stop", "move", "restore", "back", "start", "over"}
Ended == {"idle", "done", "failed"}
Calls == {"save", "fetch", "rm", "write", "preflight", "push", "apply", "rollback", "verify"}

TypeOK ==
  /\ live \in BOOLEAN /\ kubelet \in BOOLEAN
  /\ dir \in Dirs \cup {None, Partial}
  /\ kept \subseteq Dirs \cup {Partial}
  /\ open \in Dirs \cup {None}
  /\ tmp \in Snap \cup {None, Partial}
  /\ script \in Steps /\ scriptOk \in BOOLEAN
  /\ made \in 0 .. MaxDirs
  /\ file \in [Snap -> Snap \cup {None, Partial}]
  /\ pc \in Ended \cup Calls /\ snap \in Snap
  /\ opened \subseteq Dirs /\ rolled \in BOOLEAN /\ upFirst \in BOOLEAN

Init ==
  /\ live = TRUE /\ kubelet = TRUE
  /\ dir = FirstDir /\ kept = {} /\ open = FirstDir
  /\ tmp = None /\ script = "over" /\ scriptOk = TRUE /\ made = 0
  /\ file = [s \in Snap |-> None]
  /\ pc = "idle" /\ snap \in Snap
  /\ opened = {FirstDir} /\ rolled = FALSE /\ upFirst = TRUE

Goto(l) == pc' = l /\ UNCHANGED <<file, snap, rolled, upFirst>>
Fatal == "call" \in Faults /\ Goto("failed")

\* hbird dies; a script it started goes on.
Crash ==
  /\ "crash" \in Faults /\ pc \notin Ended \cup {"write"}
  /\ Goto("failed")
  /\ UNCHANGED <<cpVars, scriptVars>>

--------------------------------------------------------------------------------
(* run_backup.                                                             *)

StartBackup ==
  /\ pc \in Ended /\ script = "over"
  /\ snap' \in Snap
  /\ pc' = "save" /\ rolled' = FALSE
  /\ UNCHANGED <<cpVars, scriptVars, file, upFirst>>

\* crictl ps names a container, and the name is one: parse_etcd_container_id,
\* validate_container_id.
EtcdContainer == open # None

\* crictl ps, etcdctl snapshot save and status: without an etcd container it fails.
BackupSave ==
  /\ pc = "save"
  /\ \/ EtcdContainer /\ Goto("fetch")
     \/ ~EtcdContainer /\ Goto("failed")
     \/ Fatal
  /\ UNCHANGED <<cpVars, scriptVars>>

\* cat of the snapshot: a connection lost on the way is an error.
BackupFetch ==
  /\ pc = "fetch"
  /\ Goto("rm") \/ Fatal
  /\ UNCHANGED <<cpVars, scriptVars>>

\* rm -f of the scratch file in /var/lib/etcd: its failure fails the backup.
BackupRm ==
  /\ pc = "rm"
  /\ Goto("write") \/ Fatal
  /\ UNCHANGED <<cpVars, scriptVars>>

\* std::fs::write: a process that dies in it leaves a part of the file.
BackupWrite ==
  /\ pc = "write"
  /\ \/ file' = [file EXCEPT ![snap] = snap] /\ pc' = "done"
     \/ /\ "crash" \in Faults
        /\ file' = [file EXCEPT ![snap] = Partial] /\ pc' = "failed"
  /\ UNCHANGED <<cpVars, scriptVars, snap, rolled, upFirst>>

--------------------------------------------------------------------------------
(* run_restore.                                                            *)

\* The file exists, and the operator confirmed.
StartRestore ==
  /\ pc \in Ended /\ script = "over"
  /\ \E s \in Snap : file[s] # None /\ snap' = s
  /\ pc' = "preflight" /\ rolled' = FALSE /\ upFirst' = kubelet
  /\ UNCHANGED <<cpVars, scriptVars, file>>

\* restore_preflight_with_exec: manifests.disabled must not exist.
PreflightOk == live

Preflight ==
  /\ pc = "preflight"
  /\ \/ PreflightOk /\ Goto("push")
     \/ ~PreflightOk /\ Goto("failed")
     \/ Fatal
  /\ UNCHANGED <<cpVars, scriptVars>>

\* push_snapshot_with_exec; detect_etcd_image_with_exec follows and changes nothing.
Push ==
  /\ pc = "push"
  /\ \/ tmp' = file[snap] /\ Goto("apply") /\ script' = "aside" /\ scriptOk' = TRUE
     \/ /\ "call" \in Faults /\ tmp' \in {Partial, file[snap]}
        /\ Goto("failed") /\ UNCHANGED scriptVars
  /\ UNCHANGED <<live, kubelet, dir, kept, open, made, opened>>

\* restore_apply_with_exec: the script's exit, or an ssh that lost the connection.
Apply ==
  /\ pc = "apply"
  /\ \/ script = "over" /\ scriptOk /\ Goto("verify")
     \/ script = "over" /\ ~scriptOk /\ Goto("rollback")
     \/ "lost" \in Faults /\ Goto("rollback")
  /\ UNCHANGED <<cpVars, scriptVars>>

\* Mutant of RESTORE_ROLLBACK_SCRIPT: kubelet is not started.
RollbackManifests(failing) == live' = (live \/ "mv" \notin failing) /\ UNCHANGED kubelet

\* RESTORE_ROLLBACK_SCRIPT: the manifests back, if they are aside, and kubelet.  Its exit
\* status is 0 whichever of the two commands fails.
RollbackScript(failing) ==
  /\ live' = (live \/ "mv" \notin failing)
  /\ kubelet' = (kubelet \/ "start" \notin failing)

Rollback ==
  /\ pc = "rollback" /\ pc' = "failed"
  /\ \/ \E failing \in SUBSET {"mv", "start"} :
          /\ failing # {} => "step" \in Faults
          /\ RollbackScript(failing)
          /\ rolled' = (script = "over" /\ failing = {})
     \/ "call" \in Faults /\ UNCHANGED <<live, kubelet, rolled>>
  /\ UNCHANGED <<dir, kept, open, tmp, made, opened, scriptVars, file, snap, upFirst>>

\* kubectl get nodes after the warm-up.
Verify ==
  /\ pc = "verify"
  /\ \/ open # None /\ Goto("done")
     \/ open = None /\ Goto("failed")
     \/ Fatal
  /\ UNCHANGED <<cpVars, scriptVars>>

--------------------------------------------------------------------------------
(* restore_script, command by command, under set -e.                       *)

StepTo(l) == script' = l /\ UNCHANGED scriptOk
StepFails == script' = "over" /\ scriptOk' = FALSE
StepFault == "step" \in Faults /\ StepFails

\* mv manifests manifests.disabled.
Aside ==
  /\ script = "aside"
  /\ \/ live /\ live' = FALSE /\ StepTo("sleep")
     \/ ~live /\ StepFails /\ UNCHANGED live
     \/ StepFault /\ UNCHANGED live
  /\ UNCHANGED <<kubelet, dir, kept, open, tmp, made, opened, cmdVars>>

\* Mutant of restore_script: no sleep, so etcd may still be up when its directory moves.
NoSleep == TRUE

\* sleep 10: by then the kubelet has stopped the pods whose manifests are aside.
Slept == PromptStop => open = None \/ live \/ ~kubelet

Sleep ==
  /\ script = "sleep" /\ Slept
  /\ StepTo("stop")
  /\ UNCHANGED <<cpVars, cmdVars>>

\* systemctl stop kubelet || true: the containers it started go on, and so does the
\* script when the stop fails.
StopKubelet ==
  /\ script = "stop"
  /\ kubelet' = FALSE \/ ("step" \in Faults /\ UNCHANGED kubelet)
  /\ StepTo("move")
  /\ UNCHANGED <<live, dir, kept, open, tmp, made, opened, cmdVars>>

\* Mutant of the mv of the data directory: it is removed instead.
KeepNothing == kept

\* mv /var/lib/etcd /var/lib/etcd.before-restore.<ts>.
KeepDir == kept \cup {dir}

\* Mutant of the mv of the data directory: its failure is ignored.
MoveAnyway == TRUE

\* Under set -e the script goes on when there was a directory to move.
MoveOk == dir # None

MoveData ==
  /\ script = "move"
  /\ \/ MoveOk /\ kept' = KeepDir /\ dir' = None /\ StepTo("restore")
     \/ ~MoveOk /\ StepFails /\ UNCHANGED <<kept, dir>>
     \/ StepFault /\ UNCHANGED <<kept, dir>>
  /\ UNCHANGED <<live, kubelet, open, tmp, made, opened, cmdVars>>

\* etcdctl snapshot restore: refuses an existing directory and a damaged snapshot.
RestoreData ==
  /\ script = "restore"
  /\ \/ /\ dir = None /\ tmp \in Snap /\ made < MaxDirs
        /\ dir' = [id |-> made + 1, from |-> tmp] /\ made' = made + 1
        /\ StepTo("back")
     \/ (dir # None \/ tmp \notin Snap) /\ StepFails /\ UNCHANGED <<dir, made>>
     \/ StepFault /\ dir' \in {dir} \cup (IF dir = None THEN {Partial} ELSE {})
        /\ UNCHANGED made
  /\ UNCHANGED <<live, kubelet, kept, open, tmp, opened, cmdVars>>

\* mv manifests.disabled manifests.
Back ==
  /\ script = "back"
  /\ \/ ~live /\ live' = TRUE /\ StepTo("start")
     \/ live /\ StepFails /\ UNCHANGED live
     \/ StepFault /\ UNCHANGED live
  /\ UNCHANGED <<kubelet, dir, kept, open, tmp, made, opened, cmdVars>>

\* systemctl start kubelet, and rm -f of the snapshot.
StartKubelet ==
  /\ script = "start"
  /\ \/ kubelet' = TRUE /\ tmp' = None /\ StepTo("over")
     \/ StepFault /\ UNCHANGED <<kubelet, tmp>>
  /\ UNCHANGED <<live, dir, kept, open, made, opened, cmdVars>>

Script ==
  \/ Aside \/ Sleep \/ StopKubelet \/ MoveData \/ RestoreData \/ Back \/ StartKubelet

--------------------------------------------------------------------------------
(* The kubelet and its static pods, and the operator's repair by hand.     *)

PodsStop ==
  /\ kubelet /\ ~live /\ open # None
  /\ open' = None
  /\ UNCHANGED <<live, kubelet, dir, kept, tmp, made, opened, scriptVars, cmdVars>>

\* The etcd pod's hostPath is DirectoryOrCreate: without a directory it gets an empty
\* one, and etcd starts a new cluster in it.
PodsStart ==
  /\ kubelet /\ live /\ open = None
  /\ \/ /\ dir \in Dirs
        /\ open' = dir /\ opened' = opened \cup {dir}
        /\ UNCHANGED <<dir, made>>
     \/ /\ dir = None /\ made < MaxDirs
        /\ dir' = [id |-> made + 1, from |-> Empty] /\ made' = made + 1
        /\ open' = dir' /\ opened' = opened \cup {dir'}
  /\ UNCHANGED <<live, kubelet, kept, tmp, scriptVars, cmdVars>>

\* What the error messages tell the operator to do.
RepairByHand ==
  /\ pc \in Ended /\ script = "over" /\ ~(live /\ kubelet)
  /\ live' = TRUE /\ kubelet' = TRUE
  /\ UNCHANGED <<dir, kept, open, tmp, made, opened, scriptVars, cmdVars>>

Backup == StartBackup \/ BackupSave \/ BackupFetch \/ BackupRm \/ BackupWrite
RestoreCalls == Preflight \/ Push \/ Apply \/ Rollback \/ Verify
Next ==
  \/ Backup \/ StartRestore \/ RestoreCalls \/ Crash
  \/ Script \/ PodsStop \/ PodsStart \/ RepairByHand

\* The script and the kubelet are processes that run on; hbird waits for its calls.
Fairness ==
  WF_vars(Script) /\ WF_vars(PodsStop) /\ WF_vars(PodsStart) /\ WF_vars(RestoreCalls)

Spec == Init /\ [][Next]_vars /\ Fairness

--------------------------------------------------------------------------------
(* Properties.                                                             *)

\* No data directory an etcd ever ran on is lost, wherever backups, restores and
\* rollbacks are cut off: it is in place or kept ("The previous data dir was kept").
NothingLost == \A d \in opened : d = dir \/ d \in kept

\* A restore that began with kubelet running and succeeds has etcd running on the
\* snapshot the operator named, whatever earlier restores, rollbacks and repairs left.
RestoreServesSnapshot ==
  [][pc = "verify" /\ pc' = "done" /\ upFirst => open.from = snap /\ open = dir]_vars

\* The control plane comes back after a restore that failed and was rolled back when its
\* script was over, by a rollback whose two commands worked (the rollback does not tell),
\* unless the script left half a data directory or the operator starts another command.
ControlPlaneReturns ==
  (pc = "failed" /\ rolled) ~> (open # None \/ dir = Partial \/ made = MaxDirs \/ pc \notin Ended)
================================================================================
