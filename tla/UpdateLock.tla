------------------------------ MODULE UpdateLock ------------------------------
(***************************************************************************)
(* The per-user lock of `hbird update-cluster` (acquire_lock, LockGuard    *)
(* and install_signal_handler in update_cluster.rs).  The lock is held not *)
(* by the process but by a helper it spawns into a process group of its    *)
(* own, `flock -n PATH -c <shell loop>`: the shell inherits the locked     *)
(* file description and keeps the lock for as long as it lives.            *)
(*                                                                         *)
(* Each element of Invocation is one launch of the command on the host.    *)
(***************************************************************************)
EXTENDS FiniteSets

CONSTANTS
  Invocation,
  Faults,       \* "signal": SIGINT or SIGTERM; "crash": SIGKILL or OOM;
                \* "spawn": the probe cannot be forked
  PromptFlock   \* a spawned flock -n has tried the lock within the 2 s settle window

ASSUME FaultsAssumption == Faults \subseteq {"signal", "crash", "spawn"}
ASSUME PromptFlockAssumption == PromptFlock \in BOOLEAN

VARIABLES
  pc,       \* where the main thread of each invocation is
  child,    \* its flock helper
  probe     \* its second, short-lived flock

vars == <<pc, child, probe>>

\* "spawned": before the probe; "probing": waiting for it; "settle": the settle
\* loop; "stash": lock taken, handler not installed; "running": the rolling
\* update; "signalled": the same, the handler thread being at work.
\* Ended: "done"; "busy": another run is in progress; "bailed": failed to acquire;
\* "killed": by the handler; "crashed": by a signal nobody handled.
Live == {"spawned", "probing", "settle", "stash", "running", "signalled"}
Ended == {"done", "busy", "bailed", "killed", "crashed"}

\* "starting": not at the flock(2) call yet; "refused": exited 1; "dying": told to
\* terminate, the shell still has the file open.
ChildStates == {"none", "starting", "locked", "refused", "dying", "gone"}
ProbeStates == {"none", "holds", "free", "contended", "error"}

TypeOK ==
  /\ pc \in [Invocation -> {"idle"} \cup Live \cup Ended]
  /\ child \in [Invocation -> ChildStates]
  /\ probe \in [Invocation -> ProbeStates]

\* The file description of r's helper, or of r's probe, has the lock.
ChildHolds(r) == child[r] \in {"locked", "dying"}
LockFree == \A r \in Invocation : ~ChildHolds(r) /\ probe[r] # "holds"

Init ==
  /\ pc = [r \in Invocation |-> "idle"]
  /\ child = [r \in Invocation |-> "none"]
  /\ probe = [r \in Invocation |-> "none"]

--------------------------------------------------------------------------------
(* acquire_lock.                                                           *)

SpawnChild(r) ==
  /\ pc[r] = "idle"
  /\ child' = [child EXCEPT ![r] = "starting"]
  /\ pc' = [pc EXCEPT ![r] = "spawned"]
  /\ UNCHANGED probe

\* The helper's flock -n: never blocks.
ChildTries(r) ==
  /\ child[r] = "starting"
  /\ child' = [child EXCEPT ![r] = IF LockFree THEN "locked" ELSE "refused"]
  /\ UNCHANGED <<pc, probe>>

\* `flock -n -E 1 PATH -c true`: takes the lock for a moment, or exits 1.
ProbeTries(r) ==
  /\ pc[r] = "spawned"
  /\ \/ /\ LockFree
        /\ probe' = [probe EXCEPT ![r] = "holds"]
        /\ pc' = [pc EXCEPT ![r] = "probing"]
     \/ /\ ~LockFree
        /\ probe' = [probe EXCEPT ![r] = "contended"]
        /\ pc' = [pc EXCEPT ![r] = "settle"]
     \/ /\ "spawn" \in Faults
        /\ probe' = [probe EXCEPT ![r] = "error"]
        /\ pc' = [pc EXCEPT ![r] = "settle"]
  /\ UNCHANGED child

\* The probe exits by itself, whether or not anyone still waits for it.
ProbeExits(r) ==
  /\ probe[r] = "holds"
  /\ probe' = [probe EXCEPT ![r] = "free"]
  /\ pc' = [pc EXCEPT ![r] = IF @ = "probing" THEN "settle" ELSE @]
  /\ UNCHANGED child

\* The settle loop ends when the helper has exited or after 2 s.
Settled(r) == pc[r] = "settle" /\ (PromptFlock => child[r] # "starting")

ReportBusy(r) ==
  /\ Settled(r)
  /\ child[r] = "refused"
  /\ pc' = [pc EXCEPT ![r] = "busy"]
  /\ UNCHANGED <<child, probe>>

\* Mutant of TakenByChild: any probe that ran is taken as a confirmation.
TakenByProbe(r) == probe[r] # "error"

\* The helper is alive and the probe saw contention.
TakenByChild(r) == child[r] # "refused" /\ probe[r] = "contended"

TakeLock(r) ==
  /\ Settled(r)
  /\ TakenByChild(r)
  /\ pc' = [pc EXCEPT ![r] = "stash"]
  /\ UNCHANGED <<child, probe>>

\* The probe got the lock, or did not run: kill the helper and give up.
\* Child::kill reaches flock only; a shell it has already started keeps the lock.
Bail(r) ==
  /\ Settled(r)
  /\ child[r] # "refused" /\ probe[r] # "contended"
  /\ child' = [child EXCEPT ![r] = IF @ = "starting" THEN "gone" ELSE @]
  /\ pc' = [pc EXCEPT ![r] = "bailed"]
  /\ UNCHANGED probe

\* FLOCK_CHILD_PID is stored and install_signal_handler has registered.
InstallHandler(r) ==
  /\ pc[r] = "stash"
  /\ pc' = [pc EXCEPT ![r] = "running"]
  /\ UNCHANGED <<child, probe>>

--------------------------------------------------------------------------------
(* Release.                                                                *)

\* Mutant of GroupKilled: only flock is killed, not its shell.
FlockKilled(r) == [child EXCEPT ![r] = IF @ = "starting" THEN "gone" ELSE @]

\* `kill -TERM -pgid`: the shell's trap ends it, a moment later.
GroupKilled(r) == [child EXCEPT ![r] = CASE @ = "locked" -> "dying"
                                         [] @ = "starting" -> "gone"
                                         [] OTHER -> @]

\* run() returns, with or without an error, and LockGuard is dropped.
DropGuard(r) ==
  /\ pc[r] \in {"running", "signalled"}
  /\ child' = GroupKilled(r)
  /\ pc' = [pc EXCEPT ![r] = "done"]
  /\ UNCHANGED probe

\* The kernel drops the lock with the last descriptor.
ChildExits(r) ==
  /\ child[r] = "dying"
  /\ child' = [child EXCEPT ![r] = "gone"]
  /\ UNCHANGED <<pc, probe>>

\* The handler thread kills the group while the main thread runs on ...
HandlerKills(r) ==
  /\ "signal" \in Faults
  /\ pc[r] = "running"
  /\ child' = GroupKilled(r)
  /\ pc' = [pc EXCEPT ![r] = "signalled"]
  /\ UNCHANGED probe

\* ... and then ends the process with emulate_default_handler.
HandlerDies(r) ==
  /\ pc[r] = "signalled"
  /\ pc' = [pc EXCEPT ![r] = "killed"]
  /\ UNCHANGED <<child, probe>>

\* A signal before the handler is registered, or one that has none.  The helper is
\* in another process group and goes on.
Die(r) ==
  /\ \/ "signal" \in Faults /\ pc[r] \in {"spawned", "probing", "settle", "stash"}
     \/ "crash" \in Faults /\ pc[r] \in Live
  /\ pc' = [pc EXCEPT ![r] = "crashed"]
  /\ UNCHANGED <<child, probe>>

--------------------------------------------------------------------------------
\* What goes on by itself once an invocation is launched.
Progress(r) ==
  \/ ChildTries(r) \/ ProbeTries(r) \/ ProbeExits(r)
  \/ ReportBusy(r) \/ TakeLock(r) \/ Bail(r) \/ InstallHandler(r)
  \/ DropGuard(r) \/ ChildExits(r) \/ HandlerDies(r)

Next == \E r \in Invocation : SpawnChild(r) \/ Progress(r) \/ HandlerKills(r) \/ Die(r)

Spec == Init /\ [][Next]_vars

\* Processes are scheduled and a rolling update ends (RunTerminates of
\* RollingUpdate); launches and signals owe nothing.
FairSpec == Spec /\ \A r \in Invocation : WF_vars(Progress(r))

--------------------------------------------------------------------------------
(* Properties.                                                             *)

\* The invocations that may reboot nodes.  One whose handler thread has given the
\* lock up is about to die and is not counted.
InSection(r) == pc[r] \in {"stash", "running"}

\* acquire_lock: no two rolling updates at once ("the exact failure this lock
\* exists to prevent"), although contention only shows as the exit of a helper.
MutualExclusion ==
  \A r, q \in Invocation : InSection(r) /\ InSection(q) => r = q

\* The lock outlives the section: while a rolling update runs, its own helper has
\* the lock, whatever the probes and the other invocations do.
LockHeldWhileRunning == \A r \in Invocation : InSection(r) => child[r] = "locked"

\* LockGuard::drop and the signal handler kill the whole group: an invocation that
\* ended on one of these paths, or that only found the lock taken, leaves no helper
\* behind that has the lock or could still take it.
EndedReleases ==
  \A r \in Invocation :
    pc[r] \in {"signalled", "done", "busy", "killed"} => child[r] \notin {"starting", "locked"}

\* The inductive form of the above, for a helper that is prompt: while acquire_lock
\* is at work its helper has not been told to stop, no two helpers have the lock at
\* once (flock(2)), and so the helper found alive after the settle window has it.
IndInv ==
  /\ TypeOK
  /\ \A r \in Invocation : pc[r] \in {"spawned", "probing", "settle"}
                              => child[r] \in {"starting", "locked", "refused"}
  /\ \A r, q \in Invocation : ChildHolds(r) /\ ChildHolds(q) => r = q
  /\ LockHeldWhileRunning
  /\ EndedReleases

\* The lock of an invocation that neither crashed nor bailed is free again in the end.
LockReleased ==
  \A r \in Invocation :
    child[r] = "locked" ~> ~ChildHolds(r) \/ pc[r] \in {"crashed", "bailed"}

\* The comment in the probe's rc 0 branch: "the lock never got held", so a failed
\* acquisition leaves the lock as it was.
BailLeavesLockFree == \A r \in Invocation : pc[r] = "bailed" => child[r] # "locked"

\* The lock implements the abstract section.
Section == INSTANCE ExclusiveSection WITH section <- {r \in Invocation : InSection(r)}
ImplementsSection == Section!Spec
================================================================================
