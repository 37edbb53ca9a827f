--------------------------- MODULE EtcdRestoreProofs ---------------------------
(***************************************************************************)
(* Backup and restore of etcd, for any snapshots, any number of data       *)
(* directories and any faults: no data directory is lost, and when the     *)
(* static pods stop within the script's sleep a restore that succeeds      *)
(* serves the snapshot it was given.                                       *)
(***************************************************************************)
EXTENDS EtcdRestore, TLAPS

\* A snapshot file that can be read holds the snapshot it is named after.
FilesTrue == \A s \in Snap : file[s] \in {s, None, Partial}

\* A script that runs was started by the restore that waits for it, or lost it.
ScriptHasCaller == script # "over" => pc \in {"apply", "rollback", "failed"}

\* Until the script starts, nothing touches the manifests and kubelet a restore found.
BeforeScript ==
  /\ pc \in {"preflight", "push"} => kubelet = upFirst
  /\ pc = "push" => live

\* What the script has found and left at each of its steps, while hbird waits for it.
AtStep ==
  /\ tmp \in Snap => tmp = snap \/ script = "over"
  /\ script \in {"aside", "sleep", "stop"} => kubelet = upFirst
  /\ script = "aside" => live
  /\ script \in {"sleep", "stop", "move", "restore", "back"} => ~live
  /\ script \in {"stop", "move", "restore", "back"} /\ upFirst => open = None
  /\ script = "restore" => dir = None
  /\ script = "back" => dir \in Dirs /\ dir.from = snap

\* The data directory is the snapshot's, and no etcd runs on another one.
Served ==
  /\ live
  /\ dir \in Dirs /\ dir.from = snap
  /\ upFirst => open \in {None, dir}

\* The script's progress while the restore that started it waits, and after it.
DuringScript ==
  /\ pc = "apply" => AtStep
  /\ pc = "apply" /\ (script = "start" \/ (script = "over" /\ scriptOk)) => Served
  /\ pc = "verify" => Served

IndInv ==
  /\ TypeOK /\ NothingLost /\ FilesTrue
  /\ ScriptHasCaller /\ BeforeScript /\ DuringScript

--------------------------------------------------------------------------------
(* Types.                                                                  *)

\* The actions Next is made of.
LEMMA NextCases ==
  ASSUME [Next]_vars
  PROVE \/ StartBackup \/ BackupSave \/ BackupFetch \/ BackupRm \/ BackupWrite
        \/ StartRestore \/ Preflight \/ Push \/ Apply \/ Rollback \/ Verify \/ Crash
        \/ Aside \/ Sleep \/ StopKubelet \/ MoveData \/ RestoreData \/ Back
        \/ StartKubelet \/ PodsStop \/ PodsStart \/ RepairByHand
        \/ UNCHANGED vars
  BY DEF Next, Backup, RestoreCalls, Script

\* A directory made within the bound is a directory.
LEMMA NewDir ==
  ASSUME made \in 0 .. MaxDirs, made < MaxDirs, NEW o \in Snap \cup {Own, Empty}
  PROVE made + 1 \in 0 .. MaxDirs /\ [id |-> made + 1, from |-> o] \in Dirs
<1>1. made + 1 \in 0 .. MaxDirs
  BY MaxDirsAssumption
<1> QED
  BY <1>1 DEF Dirs

\* Every step keeps the types: the bound on directories is the one Dirs has.
LEMMA TypeStep ==
  ASSUME TypeOK, [Next]_vars
  PROVE TypeOK'
<1> USE DEF TypeOK
<1>1. ASSUME StartBackup PROVE TypeOK'
  BY <1>1 DEF StartBackup, cpVars, scriptVars, Ended, Calls
<1>2. ASSUME BackupSave PROVE TypeOK'
  BY <1>2 DEF BackupSave, Goto, Fatal, cpVars, scriptVars, Ended, Calls
<1>3. ASSUME BackupFetch PROVE TypeOK'
  BY <1>3 DEF BackupFetch, Goto, Fatal, cpVars, scriptVars, Ended, Calls
<1>4. ASSUME BackupRm PROVE TypeOK'
  BY <1>4 DEF BackupRm, Goto, Fatal, cpVars, scriptVars, Ended, Calls
<1>5. ASSUME BackupWrite PROVE TypeOK'
  BY <1>5 DEF BackupWrite, cpVars, scriptVars, Ended, Calls
<1>6. ASSUME StartRestore PROVE TypeOK'
  BY <1>6 DEF StartRestore, cpVars, scriptVars, Ended, Calls
<1>7. ASSUME Preflight PROVE TypeOK'
  BY <1>7 DEF Preflight, PreflightOk, Goto, Fatal, cpVars, scriptVars, Ended, Calls
<1>8. ASSUME Push PROVE TypeOK'
  <2>1. file[snap] \in Snap \cup {None, Partial}
    OBVIOUS
  <2>2. tmp' \in Snap \cup {None, Partial}
    BY <1>8, <2>1 DEF Push
  <2>3. script' \in Steps /\ scriptOk' \in BOOLEAN
    BY <1>8 DEF Push, scriptVars, Steps
  <2>4. pc' \in Ended \cup Calls
    BY <1>8 DEF Push, Goto, Ended, Calls
  <2>5. UNCHANGED <<live, kubelet, dir, kept, open, made, opened, file, snap, rolled, upFirst>>
    BY <1>8 DEF Push, Goto
  <2> QED
    BY <2>2, <2>3, <2>4, <2>5
<1>9. ASSUME Apply PROVE TypeOK'
  BY <1>9 DEF Apply, Goto, cpVars, scriptVars, Ended, Calls
<1>10. ASSUME Rollback PROVE TypeOK'
  BY <1>10 DEF Rollback, RollbackScript, scriptVars, Ended, Calls
<1>11. ASSUME Verify PROVE TypeOK'
  BY <1>11 DEF Verify, Goto, Fatal, cpVars, scriptVars, Ended, Calls
<1>12. ASSUME Crash PROVE TypeOK'
  BY <1>12 DEF Crash, Goto, cpVars, scriptVars, Ended, Calls
<1>13. ASSUME Aside PROVE TypeOK'
  BY <1>13 DEF Aside, StepTo, StepFails, StepFault, cmdVars, Steps
<1>14. ASSUME Sleep PROVE TypeOK'
  BY <1>14 DEF Sleep, Slept, StepTo, cpVars, cmdVars, Steps
<1>15. ASSUME StopKubelet PROVE TypeOK'
  BY <1>15 DEF StopKubelet, StepTo, cmdVars, Steps
<1>16. ASSUME MoveData PROVE TypeOK'
  BY <1>16 DEF MoveData, MoveOk, KeepDir, StepTo, StepFails, StepFault, cmdVars, Steps
<1>17. ASSUME RestoreData PROVE TypeOK'
  BY <1>17, NewDir DEF RestoreData, StepTo, StepFails, StepFault, cmdVars, Steps
<1>18. ASSUME Back PROVE TypeOK'
  BY <1>18 DEF Back, StepTo, StepFails, StepFault, cmdVars, Steps
<1>19. ASSUME StartKubelet PROVE TypeOK'
  BY <1>19 DEF StartKubelet, StepTo, StepFails, StepFault, cmdVars, Steps
<1>20. ASSUME PodsStop PROVE TypeOK'
  BY <1>20 DEF PodsStop, scriptVars, cmdVars
<1>21. ASSUME PodsStart PROVE TypeOK'
  BY <1>21, NewDir DEF PodsStart, scriptVars, cmdVars
<1>22. ASSUME RepairByHand PROVE TypeOK'
  BY <1>22 DEF RepairByHand, scriptVars, cmdVars
<1>23. ASSUME UNCHANGED vars PROVE TypeOK'
  BY <1>23 DEF vars, cpVars, scriptVars, cmdVars
<1> QED
  BY NextCases, <1>1, <1>2, <1>3, <1>4, <1>5, <1>6, <1>7, <1>8, <1>9, <1>10, <1>11, <1>12,
    <1>13, <1>14, <1>15, <1>16, <1>17, <1>18, <1>19, <1>20, <1>21, <1>22, <1>23

\* The types hold from the start.
LEMMA TypeInit == Init => TypeOK
<1>1. FirstDir \in Dirs
  BY MaxDirsAssumption DEF Dirs, FirstDir
<1> SUFFICES ASSUME Init PROVE TypeOK
  OBVIOUS
<1>2. live \in BOOLEAN /\ kubelet \in BOOLEAN /\ scriptOk \in BOOLEAN
  BY DEF Init
<1>3. rolled \in BOOLEAN /\ upFirst \in BOOLEAN
  BY DEF Init
<1>4. script \in Steps /\ pc \in Ended \cup Calls /\ made \in 0 .. MaxDirs
  BY MaxDirsAssumption DEF Init, Steps, Ended, Calls
<1>5. dir \in Dirs /\ open \in Dirs /\ opened \subseteq Dirs /\ kept \subseteq Dirs
  BY <1>1 DEF Init
<1>6. file \in [Snap -> Snap \cup {None, Partial}] /\ snap \in Snap /\ tmp = None
  BY DEF Init
<1> QED
  BY <1>2, <1>3, <1>4, <1>5, <1>6 DEF TypeOK

\* Every state of the control plane and of the command has its type.
THEOREM TypeCorrect == Spec => []TypeOK
  BY TypeInit, TypeStep, PTL DEF Spec

--------------------------------------------------------------------------------
(* No data directory is lost.                                              *)

\* A data directory leaves its place only for the kept ones, and one is made only where
\* there is none.
LEMMA NothingLostStep ==
  ASSUME TypeOK, NothingLost, [Next]_vars
  PROVE NothingLost'
<1> USE DEF NothingLost
<1>1. ASSUME UNCHANGED <<opened, dir, kept>> PROVE NothingLost'
  BY <1>1
<1>2. ASSUME MoveData PROVE NothingLost'
  BY <1>2 DEF MoveData, MoveOk, KeepDir
<1>3. ASSUME RestoreData PROVE NothingLost'
  BY <1>3, DirsAssumption DEF RestoreData, TypeOK
<1>4. ASSUME PodsStart PROVE NothingLost'
  BY <1>4, DirsAssumption DEF PodsStart, TypeOK
<1> QED
  BY NextCases, <1>1, <1>2, <1>3, <1>4 DEF StartBackup, BackupSave, BackupFetch, BackupRm,
    BackupWrite, StartRestore, Preflight, Push, Apply, Rollback, Verify, Crash, Aside, Sleep,
    StopKubelet, Back, StartKubelet, PodsStop, RepairByHand, vars, cpVars

\* Wherever backups, restores and rollbacks are cut off, every data directory an etcd
\* ran on is in place or kept.
THEOREM NoDirectoryLost == Spec => []NothingLost
<1>1. Init => NothingLost
  BY DEF Init, NothingLost
<1> QED
  BY <1>1, TypeCorrect, NothingLostStep, PTL DEF Spec

--------------------------------------------------------------------------------
(* A restore that succeeds serves its snapshot.                            *)

\* Files are written whole, or are seen to be cut off.
LEMMA FilesTrueStep ==
  ASSUME TypeOK, FilesTrue, [Next]_vars
  PROVE FilesTrue'
<1>1. ASSUME BackupWrite PROVE FilesTrue'
  BY <1>1 DEF BackupWrite, FilesTrue, TypeOK
<1>2. ASSUME UNCHANGED file PROVE FilesTrue'
  BY <1>2 DEF FilesTrue
<1> QED
  BY NextCases, <1>1, <1>2 DEF StartBackup, BackupSave, BackupFetch, BackupRm,
    StartRestore, Preflight, Push, Apply, Rollback, Verify, Crash, Aside, Sleep, StopKubelet,
    MoveData, RestoreData, Back, StartKubelet, PodsStop, PodsStart, RepairByHand, Goto,
    Fatal, vars, cmdVars

\* One restore at a time: commands start when no script runs, and between the start of
\* a restore and its script nothing else moves the manifests or kubelet.
LEMMA CallerStep ==
  ASSUME IndInv, [Next]_vars
  PROVE ScriptHasCaller' /\ BeforeScript'
<1> USE DEF IndInv, ScriptHasCaller, BeforeScript
<1>1. ASSUME StartBackup PROVE ScriptHasCaller' /\ BeforeScript'
  BY <1>1 DEF StartBackup, cpVars, scriptVars, Ended
<1>2. ASSUME BackupSave PROVE ScriptHasCaller' /\ BeforeScript'
  BY <1>2 DEF BackupSave, Goto, Fatal, cpVars, scriptVars
<1>3. ASSUME BackupFetch PROVE ScriptHasCaller' /\ BeforeScript'
  BY <1>3 DEF BackupFetch, Goto, Fatal, cpVars, scriptVars
<1>4. ASSUME BackupRm PROVE ScriptHasCaller' /\ BeforeScript'
  BY <1>4 DEF BackupRm, Goto, Fatal, cpVars, scriptVars
<1>5. ASSUME BackupWrite PROVE ScriptHasCaller' /\ BeforeScript'
  BY <1>5 DEF BackupWrite, cpVars, scriptVars
<1>6. ASSUME StartRestore PROVE ScriptHasCaller' /\ BeforeScript'
  BY <1>6 DEF StartRestore, cpVars, scriptVars, Ended
<1>7. ASSUME Preflight PROVE ScriptHasCaller' /\ BeforeScript'
  BY <1>7 DEF Preflight, PreflightOk, Goto, Fatal, cpVars, scriptVars
<1>8. ASSUME Push PROVE ScriptHasCaller' /\ BeforeScript'
  BY <1>8 DEF Push, Goto, scriptVars
<1>9. ASSUME Apply PROVE ScriptHasCaller' /\ BeforeScript'
  BY <1>9 DEF Apply, Goto, cpVars, scriptVars
<1>10. ASSUME Rollback PROVE ScriptHasCaller' /\ BeforeScript'
  BY <1>10 DEF Rollback, RollbackScript, scriptVars
<1>11. ASSUME Verify PROVE ScriptHasCaller' /\ BeforeScript'
  BY <1>11 DEF Verify, Goto, Fatal, cpVars, scriptVars
<1>12. ASSUME Crash PROVE ScriptHasCaller' /\ BeforeScript'
  BY <1>12 DEF Crash, Goto, cpVars, scriptVars, Ended
<1>13. ASSUME Aside PROVE ScriptHasCaller' /\ BeforeScript'
  BY <1>13 DEF Aside, StepTo, StepFails, StepFault, cmdVars
<1>14. ASSUME Sleep PROVE ScriptHasCaller' /\ BeforeScript'
  BY <1>14 DEF Sleep, Slept, StepTo, cpVars, cmdVars
<1>15. ASSUME StopKubelet PROVE ScriptHasCaller' /\ BeforeScript'
  BY <1>15 DEF StopKubelet, StepTo, cmdVars
<1>16. ASSUME MoveData PROVE ScriptHasCaller' /\ BeforeScript'
  BY <1>16 DEF MoveData, MoveOk, KeepDir, StepTo, StepFails, StepFault, cmdVars
<1>17. ASSUME RestoreData PROVE ScriptHasCaller' /\ BeforeScript'
  BY <1>17 DEF RestoreData, StepTo, StepFails, StepFault, cmdVars
<1>18. ASSUME Back PROVE ScriptHasCaller' /\ BeforeScript'
  BY <1>18 DEF Back, StepTo, StepFails, StepFault, cmdVars
<1>19. ASSUME StartKubelet PROVE ScriptHasCaller' /\ BeforeScript'
  BY <1>19 DEF StartKubelet, StepTo, StepFails, StepFault, cmdVars
<1>20. ASSUME PodsStop PROVE ScriptHasCaller' /\ BeforeScript'
  BY <1>20 DEF PodsStop, scriptVars, cmdVars
<1>21. ASSUME PodsStart PROVE ScriptHasCaller' /\ BeforeScript'
  BY <1>21 DEF PodsStart, scriptVars, cmdVars
<1>22. ASSUME RepairByHand PROVE ScriptHasCaller' /\ BeforeScript'
  BY <1>22 DEF RepairByHand, scriptVars, cmdVars, Ended
<1>23. ASSUME UNCHANGED vars PROVE ScriptHasCaller' /\ BeforeScript'
  BY <1>23 DEF vars, cpVars, scriptVars, cmdVars
<1> QED
  BY NextCases, <1>1, <1>2, <1>3, <1>4, <1>5, <1>6, <1>7, <1>8, <1>9, <1>10, <1>11, <1>12,
    <1>13, <1>14, <1>15, <1>16, <1>17, <1>18, <1>19, <1>20, <1>21, <1>22, <1>23

\* Each step of the script finds what the one before it left, also when the kubelet was
\* not stopped: its pods cannot start while the manifests are aside.
LEMMA DuringStep ==
  ASSUME IndInv, PromptStop, [Next]_vars
  PROVE DuringScript'
<1> USE DEF IndInv, ScriptHasCaller, BeforeScript, DuringScript, AtStep, Served
<1>1. ASSUME StartBackup PROVE DuringScript'
  BY <1>1 DEF StartBackup, cpVars, scriptVars, Ended
<1>2. ASSUME BackupSave PROVE DuringScript'
  BY <1>2 DEF BackupSave, Goto, Fatal, cpVars, scriptVars
<1>3. ASSUME BackupFetch PROVE DuringScript'
  BY <1>3 DEF BackupFetch, Goto, Fatal, cpVars, scriptVars
<1>4. ASSUME BackupRm PROVE DuringScript'
  BY <1>4 DEF BackupRm, Goto, Fatal, cpVars, scriptVars
<1>5. ASSUME BackupWrite PROVE DuringScript'
  BY <1>5 DEF BackupWrite, cpVars, scriptVars
<1>6. ASSUME StartRestore PROVE DuringScript'
  BY <1>6 DEF StartRestore, cpVars, scriptVars, Ended
<1>7. ASSUME Preflight PROVE DuringScript'
  BY <1>7 DEF Preflight, PreflightOk, Goto, Fatal, cpVars, scriptVars
<1>8. ASSUME Push PROVE DuringScript'
  BY <1>8, NamesAssumption, DirsAssumption, MaxDirsAssumption DEF Push, Goto, scriptVars,
    FilesTrue, TypeOK, Dirs
<1>9. ASSUME Apply PROVE DuringScript'
  BY <1>9 DEF Apply, Goto, cpVars, scriptVars
<1>10. ASSUME Rollback PROVE DuringScript'
  BY <1>10 DEF Rollback, RollbackScript, scriptVars
<1>11. ASSUME Verify PROVE DuringScript'
  BY <1>11 DEF Verify, Goto, Fatal, cpVars, scriptVars
<1>12. ASSUME Crash PROVE DuringScript'
  BY <1>12 DEF Crash, Goto, cpVars, scriptVars, Ended
<1>13. ASSUME Aside PROVE DuringScript'
  BY <1>13 DEF Aside, StepTo, StepFails, StepFault, cmdVars
<1>14. ASSUME Sleep PROVE DuringScript'
  BY <1>14 DEF Sleep, Slept, StepTo, cpVars, cmdVars, TypeOK
<1>15. ASSUME StopKubelet PROVE DuringScript'
  BY <1>15 DEF StopKubelet, StepTo, cmdVars
<1>16. ASSUME MoveData PROVE DuringScript'
  BY <1>16 DEF MoveData, MoveOk, KeepDir, StepTo, StepFails, StepFault, cmdVars
<1>17. ASSUME RestoreData PROVE DuringScript'
  BY <1>17, NamesAssumption, DirsAssumption, MaxDirsAssumption DEF RestoreData, StepTo,
    StepFails, StepFault, cmdVars, FilesTrue, TypeOK, Dirs
<1>18. ASSUME Back PROVE DuringScript'
  BY <1>18 DEF Back, StepTo, StepFails, StepFault, cmdVars
<1>19. ASSUME StartKubelet PROVE DuringScript'
  BY <1>19 DEF StartKubelet, StepTo, StepFails, StepFault, cmdVars
<1>20. ASSUME PodsStop PROVE DuringScript'
  BY <1>20 DEF PodsStop, scriptVars, cmdVars
<1>21. ASSUME PodsStart PROVE DuringScript'
  BY <1>21, DirsAssumption DEF PodsStart, scriptVars, cmdVars
<1>22. ASSUME RepairByHand PROVE DuringScript'
  BY <1>22 DEF RepairByHand, scriptVars, cmdVars, Ended
<1>23. ASSUME UNCHANGED vars PROVE DuringScript'
  BY <1>23 DEF vars, cpVars, scriptVars, cmdVars
<1> QED
  BY NextCases, <1>1, <1>2, <1>3, <1>4, <1>5, <1>6, <1>7, <1>8, <1>9, <1>10, <1>11, <1>12,
    <1>13, <1>14, <1>15, <1>16, <1>17, <1>18, <1>19, <1>20, <1>21, <1>22, <1>23

\* The invariant holds at first and is kept by every step.
LEMMA IndInit == Init => IndInv
  BY TypeInit DEF Init, IndInv, NothingLost, FilesTrue, ScriptHasCaller, BeforeScript,
    DuringScript

LEMMA IndStep ==
  ASSUME IndInv, PromptStop, [Next]_vars
  PROVE IndInv'
  BY TypeStep, NothingLostStep, FilesTrueStep, CallerStep, DuringStep DEF IndInv

\* When the static pods stop within the script's sleep, a restore that began with kubelet
\* running and succeeds has etcd running on the snapshot the operator named, whatever
\* earlier restores, rollbacks, repairs and crashes left behind.
THEOREM RestoreServes ==
  ASSUME PromptStop
  PROVE Spec => RestoreServesSnapshot
<1>1. Spec => []IndInv
  BY IndInit, IndStep, PTL DEF Spec
<1>2. ASSUME IndInv, [Next]_vars
      PROVE [pc = "verify" /\ pc' = "done" /\ upFirst => open.from = snap /\ open = dir]_vars
  <2>1. SUFFICES ASSUME pc = "verify", pc' = "done", upFirst
                 PROVE open.from = snap /\ open = dir
    OBVIOUS
  <2>2. open # None
    BY <1>2, <2>1, NextCases DEF StartBackup, BackupSave, BackupFetch, BackupRm,
      BackupWrite, StartRestore, Preflight, Push, Apply, Rollback, Verify, Crash, Aside, Sleep,
      StopKubelet, MoveData, RestoreData, Back, StartKubelet, PodsStop, PodsStart,
      RepairByHand, Goto, Fatal, vars, cmdVars
  <2> QED
    BY <1>2, <2>1, <2>2 DEF IndInv, DuringScript, Served
<1> QED
  BY <1>1, <1>2, PTL DEF Spec, RestoreServesSnapshot

================================================================================
