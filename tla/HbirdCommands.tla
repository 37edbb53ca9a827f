---------------------------- MODULE HbirdCommands ----------------------------
(***************************************************************************)
(* The hbird binary (main.rs) dispatches one subcommand per process.  This  *)
(* module puts the commands next to each other that share no state: the     *)
(* checks of a cluster, the switch of its images, the export of its         *)
(* kubeconfig, the network plan of a deploy, the reading of the             *)
(* configuration, the Cilium preflight, and the ssh call they are made of.  *)
(* Which of them moves is fixed at the start.                               *)
(***************************************************************************)
EXTENDS ClusterChecks, SwitchToGhcr, KubeconfigExport, SshCommand, NetworkPlan, ConfigFile,
        CiliumPreflight

VARIABLE cmd   \* the command at hand

vars == <<cmd, checksVars, switchVars, exportVars, sshVars, netVars, fileVars, preVars>>

Command == {"checks", "switch", "export", "ssh", "network", "config", "preflight"}

\* What a component looks like while another one is at hand.
ChecksIdle == real = [psa |-> "enforce", holds |-> Facts] /\ ChecksInit
SwitchIdle ==
  /\ booted = [v \in Vm |-> Built(FlavorForVm(v))] /\ staged = [v \in Vm |-> NoImage]
  /\ SwitchInit
ExportIdle == output = NoFile /\ ExportInit
SshIdle ==
  /\ opts = [budget |-> FALSE, stdin |-> 0, identity |-> TRUE, jump |-> FALSE] /\ toSay = 0
  /\ SshInit
PreflightIdle ==
  /\ given = [cilium |-> [from |-> "unreadable", text |-> NoText],
              k8s |-> [from |-> "unreadable", text |-> NoText], strict |-> FALSE, dry |-> FALSE]
  /\ PreflightInit

Init ==
  /\ cmd \in Command
  /\ IF cmd = "checks" THEN ChecksInit ELSE ChecksIdle
  /\ IF cmd = "switch" THEN SwitchInit ELSE SwitchIdle
  /\ IF cmd = "export" THEN ExportInit ELSE ExportIdle
  /\ IF cmd = "ssh" THEN SshInit ELSE SshIdle
  /\ IF cmd = "preflight" THEN PreflightInit ELSE PreflightIdle
  /\ NetInit /\ FileInit

\* The dispatch of main.rs.
Dispatch(c) == cmd = c /\ UNCHANGED cmd

ChecksMove ==
  /\ Dispatch("checks") /\ ChecksNext
  /\ UNCHANGED <<switchVars, exportVars, sshVars, netVars, fileVars, preVars>>
SwitchMove ==
  /\ Dispatch("switch") /\ SwitchNext
  /\ UNCHANGED <<checksVars, exportVars, sshVars, netVars, fileVars, preVars>>
ExportMove ==
  /\ Dispatch("export") /\ ExportNext
  /\ UNCHANGED <<checksVars, switchVars, sshVars, netVars, fileVars, preVars>>
NetworkMove ==
  /\ Dispatch("network") /\ NetNext
  /\ UNCHANGED <<checksVars, switchVars, exportVars, sshVars, fileVars, preVars>>
ConfigMove ==
  /\ Dispatch("config") /\ FileNext
  /\ UNCHANGED <<checksVars, switchVars, exportVars, sshVars, netVars, preVars>>
PreflightMove ==
  /\ Dispatch("preflight") /\ PreflightNext
  /\ UNCHANGED <<checksVars, switchVars, exportVars, sshVars, netVars, fileVars>>
SshOnly ==
  /\ Dispatch("ssh")
  /\ UNCHANGED <<checksVars, switchVars, exportVars, netVars, fileVars, preVars>>
SshMove == SshOnly /\ SshNext

Next ==
  \/ ChecksMove \/ SwitchMove \/ ExportMove \/ NetworkMove \/ ConfigMove \/ PreflightMove
  \/ SshMove

\* The fairness of SshCommand, for the process that makes the call.
Fairness ==
  /\ WF_vars(SshOnly /\ ClientStep) /\ WF_vars(SshOnly /\ Tick)
  /\ WF_vars(SshOnly /\ ChildStep) /\ WF_vars(SshOnly /\ HelperExits)

Spec == Init /\ [][Next]_vars /\ Fairness

\* Every variable has its type.
TypeOK ==
  /\ ChecksTypeOK /\ SwitchTypeOK /\ ExportTypeOK /\ SshTypeOK
  /\ NetTypeOK /\ FileTypeOK /\ PreflightTypeOK

\* An ssh call returns, with the exceptions CallReturns names: hbird-ssh's promise to
\* every command.
SshCallReturns == cmd = "ssh" => CallReturns
==============================================================================
