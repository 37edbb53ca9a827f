-------------------------- MODULE RollingUpdateProofs --------------------------
(***************************************************************************)
(* The rolling upgrade, for any number of workers, any mix of nodes with   *)
(* and without `bootc upgrade --apply`, any command lines, any number of   *)
(* runs and any set of faults.                                             *)
(***************************************************************************)
EXTENDS RollingUpdate, TLAPS

AttemptPcs == Pcs \ {"idle", "next", "done", "hung"}

\* The node in flight is a node, and there is none between two nodes.
CurOK ==
  /\ pc \in AttemptPcs => cur \in Nodes
  /\ pc \in {"idle", "next", "done"} => cur = NoNode

\* TypeOK is inductive together with CurOK.
TypeInv == TypeOK /\ CurOK

\* CP is a node, a worker is a node, NoNode is neither.
LEMMA NodeFacts ==
  /\ Nodes \subseteq Nat
  /\ CP \in Nodes
  /\ NoNode \notin Nodes
  /\ \A a \in Args : Targets(a) \subseteq Nodes
<1>1. Nodes \subseteq Nat /\ CP \in Nodes /\ NoNode \notin Nodes
  BY NumWorkersAssumption DEF Nodes, Workers, CP, NoNode
<1>2. ASSUME NEW a \in Args PROVE Targets(a) \subseteq Nodes
  <2>1. a.node \in Nodes \cup {NoNode}
    BY DEF Args
  <2> QED BY <2>1 DEF Targets, WorkersToRun, Nodes
<1> QED BY <1>1, <1>2

\* The steps of the system, one disjunct per action.
LEMMA NextCases ==
  ASSUME Next
  PROVE  \/ \E a \in Launches : Launch(a)
         \/ \E n \in Nodes : StartNode(n)
         \/ Finish \/ TimerStop \/ Drain \/ CaptureBootId \/ UpgradeProbe \/ ApplyStart
         \/ ApplyReturns \/ FallbackStage \/ FallbackReboot \/ PostDigest
         \/ AlreadyCurrent \/ WaitSshDrop \/ WaitSshBack \/ WaitApiserverBack
         \/ WaitBootIdChanged \/ WaitNodeReady \/ WaitDaemonSetsReady \/ Uncordon
         \/ TimerStart \/ Fail \/ KubectlHangs \/ Signal \/ ApiserverStarts
         \/ \E n \in Nodes : \/ RemoteUpgradeDone(n) \/ GoDown(n) \/ BootUp(n)
                             \/ KubeletPosts(n) \/ NodeMonitor(n) \/ TimerStages(n)
BY DEF Next, Updater, NodeStep

\* Which steps write the nodes.
LEMMA NodesWriters ==
  ASSUME [Next]_vars
  PROVE  \/ UNCHANGED nodeVars
         \/ TimerStop \/ ApplyStart \/ ApplyReturns \/ FallbackStage \/ FallbackReboot
         \/ TimerStart \/ Fail
         \/ \E n \in Nodes : \/ RemoteUpgradeDone(n) \/ GoDown(n) \/ BootUp(n)
                             \/ TimerStages(n)
BY NextCases
   DEF vars, Launch, StartNode, Finish, Drain, CaptureBootId, UpgradeProbe, PostDigest,
       AlreadyCurrent, WaitSshDrop, WaitSshBack, WaitApiserverBack, WaitBootIdChanged,
       WaitNodeReady, WaitDaemonSetsReady, Uncordon, KubectlHangs, Signal,
       ApiserverStarts, KubeletPosts, NodeMonitor

\* Which steps write the node objects.
LEMMA ApiWriters ==
  ASSUME [Next]_vars
  PROVE  \/ UNCHANGED apiVars
         \/ Drain \/ AlreadyCurrent \/ Uncordon \/ ApiserverStarts
         \/ \E n \in Nodes : GoDown(n) \/ KubeletPosts(n) \/ NodeMonitor(n)
BY NextCases
   DEF vars, Launch, StartNode, Finish, TimerStop, CaptureBootId, UpgradeProbe,
       ApplyStart, ApplyReturns, FallbackStage, FallbackReboot, PostDigest, WaitSshDrop,
       WaitSshBack, WaitApiserverBack, WaitBootIdChanged, WaitNodeReady,
       WaitDaemonSetsReady, TimerStart, Fail, KubectlHangs, Signal, RemoteUpgradeDone,
       BootUp, TimerStages

\* Which steps write the record of the run.
LEMMA RunWriters ==
  ASSUME [Next]_vars
  PROVE  \/ UNCHANGED runVars
         \/ \E a \in Launches : Launch(a)
         \/ \E n \in Nodes : StartNode(n)
         \/ Finish \/ TimerStart \/ Fail \/ Signal
BY NextCases
   DEF vars, TimerStop, Drain, CaptureBootId, UpgradeProbe, ApplyStart, ApplyReturns,
       FallbackStage, FallbackReboot, PostDigest, AlreadyCurrent, WaitSshDrop,
       WaitSshBack, WaitApiserverBack, WaitBootIdChanged, WaitNodeReady,
       WaitDaemonSetsReady, Uncordon, KubectlHangs, ApiserverStarts, RemoteUpgradeDone,
       GoDown, BootUp, KubeletPosts, NodeMonitor, TimerStages

\* Which steps write the record of the attempt.
LEMMA AttemptWriters ==
  ASSUME [Next]_vars
  PROVE  \/ UNCHANGED attemptVars
         \/ \E n \in Nodes : StartNode(n)
         \/ Drain \/ CaptureBootId \/ UpgradeProbe \/ AlreadyCurrent \/ Uncordon
BY NextCases
   DEF vars, Launch, Finish, TimerStop, ApplyStart, ApplyReturns, FallbackStage,
       FallbackReboot, PostDigest, WaitSshDrop, WaitSshBack, WaitApiserverBack,
       WaitBootIdChanged, WaitNodeReady, WaitDaemonSetsReady, TimerStart, Fail,
       KubectlHangs, Signal, ApiserverStarts, RemoteUpgradeDone, GoDown, BootUp,
       KubeletPosts, NodeMonitor, TimerStages

\* Which steps write the history variables.
LEMMA HistoryWriters ==
  ASSUME [Next]_vars
  PROVE  \/ UNCHANGED historyVars
         \/ \E n \in Nodes : StartNode(n)
         \/ ApplyStart \/ FallbackStage \/ FallbackReboot \/ AlreadyCurrent
         \/ WaitBootIdChanged \/ Fail \/ Signal
BY NextCases
   DEF vars, Launch, Finish, TimerStop, Drain, CaptureBootId, UpgradeProbe, ApplyReturns,
       PostDigest, WaitSshDrop, WaitSshBack, WaitApiserverBack, WaitNodeReady,
       WaitDaemonSetsReady, Uncordon, TimerStart, KubectlHangs, ApiserverStarts,
       RemoteUpgradeDone, GoDown, BootUp, KubeletPosts, NodeMonitor, TimerStages

\* pc stays a label and agrees with cur.
LEMMA PcStep ==
  ASSUME TypeInv, [Next]_vars
  PROVE  pc' \in Pcs /\ CurOK'
<1> USE DEF Goto, NextPc
<1>0. pc \in Pcs /\ CurOK
  BY DEF TypeInv, TypeOK
<1>1. CASE UNCHANGED <<pc, cur>>
  BY <1>0, <1>1 DEF CurOK
<1>2. CASE \E a \in Launches : Launch(a)
  BY <1>0, <1>2 DEF CurOK, Launch, AttemptPcs, Pcs
<1>3. CASE \E n \in Nodes : StartNode(n)
  BY <1>3 DEF CurOK, StartNode, AttemptPcs, Pcs
<1>4. CASE Finish
  BY <1>0, <1>4 DEF CurOK, Finish, AttemptPcs, Pcs
<1>5. CASE TimerStart \/ Fail \/ Signal
  BY <1>5 DEF CurOK, TimerStart, Fail, Signal, AttemptPcs, Pcs
<1>6. ASSUME pc \in AttemptPcs, pc' \in AttemptPcs \cup {"hung"}, cur' = cur
      PROVE  pc' \in Pcs /\ CurOK'
  BY <1>0, <1>6 DEF CurOK, AttemptPcs, Pcs
<1>7. CASE TimerStop \/ Drain \/ CaptureBootId \/ UpgradeProbe \/ ApplyStart \/ ApplyReturns
  <2>1. pc \in AttemptPcs /\ pc' \in AttemptPcs /\ cur' = cur
    BY <1>7 DEF TimerStop, Drain, CaptureBootId, UpgradeProbe, ApplyStart, ApplyReturns,
                AttemptPcs, Pcs, runVars
  <2> QED BY <1>6, <2>1
<1>8. CASE FallbackStage \/ FallbackReboot \/ PostDigest \/ AlreadyCurrent \/ KubectlHangs
  <2>1. pc \in AttemptPcs /\ pc' \in AttemptPcs \cup {"hung"} /\ cur' = cur
    BY <1>8 DEF FallbackStage, FallbackReboot, PostDigest, AlreadyCurrent, KubectlHangs,
                AttemptPcs, Pcs, runVars
  <2> QED BY <1>6, <2>1
<1>9. CASE \/ WaitSshDrop \/ WaitSshBack \/ WaitApiserverBack \/ WaitBootIdChanged
           \/ WaitNodeReady \/ WaitDaemonSetsReady \/ Uncordon
  <2>1. pc \in AttemptPcs /\ pc' \in AttemptPcs /\ cur' = cur
    BY <1>9 DEF WaitSshDrop, WaitSshBack, WaitApiserverBack, WaitBootIdChanged,
                WaitNodeReady, WaitDaemonSetsReady, Uncordon, AttemptPcs, Pcs, runVars
  <2> QED BY <1>6, <2>1
<1>10. CASE \/ ApiserverStarts
            \/ \E n \in Nodes : \/ RemoteUpgradeDone(n) \/ GoDown(n) \/ BootUp(n)
                                \/ KubeletPosts(n) \/ NodeMonitor(n) \/ TimerStages(n)
            \/ UNCHANGED vars
  <2>1. UNCHANGED <<pc, cur>>
    BY <1>10 DEF ApiserverStarts, RemoteUpgradeDone, GoDown, BootUp, KubeletPosts,
                 NodeMonitor, TimerStages, vars, runVars
  <2> QED BY <1>1, <2>1
<1> QED BY NextCases, <1>2, <1>3, <1>4, <1>5, <1>7, <1>8, <1>9, <1>10

\* While a node is processed, cur is that node.
LEMMA InFlight ==
  ASSUME TypeInv
  PROVE  pc \notin {"idle", "next", "done", "hung"} => cur \in Nodes
BY DEF TypeInv, TypeOK, CurOK, AttemptPcs

\* The nodes keep their types.
LEMMA NodesStep ==
  ASSUME TypeInv, [Next]_vars
  PROVE  NodesOK'
<1>0. NodesOK
  BY DEF TypeInv, TypeOK
<1> USE <1>0, InFlight DEF NodesOK
<1>1. CASE UNCHANGED nodeVars
  BY <1>1 DEF nodeVars
<1>2. CASE TimerStop
  BY <1>2 DEF TimerStop
<1>3. CASE ApplyStart
  BY <1>3 DEF ApplyStart
<1>4. CASE ApplyReturns
  BY <1>4 DEF ApplyReturns
<1>5. CASE FallbackStage
  BY <1>5 DEF FallbackStage, StageEffect
<1>6. CASE FallbackReboot
  BY <1>6 DEF FallbackReboot
<1>7. CASE TimerStart
  BY <1>7 DEF TimerStart
<1>8. CASE Fail
  BY <1>8 DEF Fail
<1>9. CASE \E n \in Nodes : RemoteUpgradeDone(n)
  BY <1>9 DEF RemoteUpgradeDone
<1>10. CASE \E n \in Nodes : GoDown(n)
  BY <1>10 DEF GoDown
<1>11. CASE \E n \in Nodes : BootUp(n)
  BY <1>11 DEF BootUp
<1>12. CASE \E n \in Nodes : TimerStages(n)
  BY <1>12 DEF TimerStages
<1> QED BY NodesWriters, <1>1, <1>2, <1>3, <1>4, <1>5, <1>6, <1>7, <1>8, <1>9, <1>10,
           <1>11, <1>12

\* The node objects keep their types.
LEMMA ApiStep ==
  ASSUME TypeInv, [Next]_vars
  PROVE  ApiOK'
<1>0. ApiOK /\ NodesOK
  BY DEF TypeInv, TypeOK
<1> USE <1>0, InFlight DEF ApiOK
<1>1. CASE UNCHANGED apiVars
  BY <1>1 DEF apiVars
<1>2. CASE Drain
  BY <1>2 DEF Drain
<1>3. CASE AlreadyCurrent
  BY <1>3 DEF AlreadyCurrent
<1>4. CASE Uncordon
  BY <1>4 DEF Uncordon
<1>5. CASE ApiserverStarts
  BY <1>5 DEF ApiserverStarts
<1>6. CASE \E n \in Nodes : GoDown(n)
  BY <1>6 DEF GoDown
<1>7. CASE \E n \in Nodes : KubeletPosts(n)
  BY <1>7 DEF KubeletPosts, NodesOK
<1>8. CASE \E n \in Nodes : NodeMonitor(n)
  BY <1>8 DEF NodeMonitor
<1> QED BY ApiWriters, <1>1, <1>2, <1>3, <1>4, <1>5, <1>6, <1>7, <1>8

\* The record of the run keeps its type.
LEMMA RunStep ==
  ASSUME TypeInv, [Next]_vars
  PROVE  RunOK'
<1>0. RunOK
  BY DEF TypeInv, TypeOK
<1> USE <1>0, InFlight DEF RunOK
<1>1. CASE UNCHANGED runVars
  BY <1>1 DEF runVars
<1>2. CASE \E a \in Launches : Launch(a)
  BY <1>2, LaunchesAssumption, NodeFacts DEF Launch
<1>3. CASE \E n \in Nodes : StartNode(n)
  BY <1>3 DEF StartNode
<1>4. CASE Finish
  BY <1>4 DEF Finish
<1>5. CASE TimerStart
  BY <1>5 DEF TimerStart
<1>6. CASE Fail
  BY <1>6 DEF Fail
<1>7. CASE Signal
  BY <1>7 DEF Signal
<1> QED BY RunWriters, <1>1, <1>2, <1>3, <1>4, <1>5, <1>6, <1>7

\* The record of the attempt keeps its type.
LEMMA AttemptStep ==
  ASSUME TypeInv, [Next]_vars
  PROVE  AttemptOK'
<1>0. AttemptOK /\ ApiOK /\ NodesOK
  BY DEF TypeInv, TypeOK
<1> USE <1>0, InFlight DEF AttemptOK
<1>1. CASE UNCHANGED attemptVars
  BY <1>1 DEF attemptVars
<1>2. CASE \E n \in Nodes : StartNode(n)
  BY <1>2 DEF StartNode
<1>3. CASE Drain
  BY <1>3 DEF Drain
<1>4. CASE CaptureBootId
  BY <1>4 DEF CaptureBootId, ApiOK
<1>5. CASE UpgradeProbe
  BY <1>5 DEF UpgradeProbe, DigestRead, NodesOK
<1>6. CASE AlreadyCurrent
  BY <1>6 DEF AlreadyCurrent
<1>7. CASE Uncordon
  BY <1>7 DEF Uncordon
<1> QED BY AttemptWriters, <1>1, <1>2, <1>3, <1>4, <1>5, <1>6, <1>7

\* The history variables keep their types.
LEMMA HistoryStep ==
  ASSUME TypeInv, [Next]_vars
  PROVE  HistoryOK'
<1>0. HistoryOK /\ NodesOK /\ cur \in Nodes \cup {NoNode}
  BY DEF TypeInv, TypeOK, RunOK
<1> USE <1>0, InFlight DEF HistoryOK
<1>1. CASE UNCHANGED historyVars
  BY <1>1 DEF historyVars
<1>2. CASE \E n \in Nodes : StartNode(n)
  BY <1>2 DEF StartNode
<1>3. CASE ApplyStart \/ FallbackStage \/ FallbackReboot
  BY <1>3 DEF ApplyStart, FallbackStage, FallbackReboot, NodesOK
<1>4. CASE AlreadyCurrent \/ WaitBootIdChanged
  BY <1>4 DEF AlreadyCurrent, WaitBootIdChanged
<1>5. CASE Fail
  BY <1>5 DEF Fail
<1>6. CASE Signal
  BY <1>6 DEF Signal
<1> QED BY HistoryWriters, <1>1, <1>2, <1>3, <1>4, <1>5, <1>6

\* Every step keeps every variable in its type.
LEMMA TypeStep ==
  ASSUME TypeInv, [Next]_vars
  PROVE  TypeInv'
BY PcStep, NodesStep, ApiStep, RunStep, AttemptStep, HistoryStep DEF TypeInv, TypeOK

\* Init establishes the types.
LEMMA TypeInit == Init => TypeInv
<1> SUFFICES ASSUME Init PROVE TypeInv
  OBVIOUS
<1>1. Defaults \in Args
  BY DEF Defaults, Args
<1> QED BY <1>1, NodeFacts DEF Init, TypeInv, TypeOK, NodesOK, ApiOK, RunOK, AttemptOK, HistoryOK,
        CurOK, Pcs, AttemptPcs, NoBoot

\* Every variable of the roll keeps its type, and so does the walk: it never leaves
\* the plan's nodes.
THEOREM TypeCorrect == Spec => []TypeOK
<1>1. Init => TypeInv
  BY TypeInit
<1>2. TypeInv /\ [Next]_vars => TypeInv'
  BY TypeStep
<1>3. TypeInv => TypeOK
  BY DEF TypeInv
<1> QED BY <1>1, <1>2, <1>3, PTL DEF Spec

--------------------------------------------------------------------------------
(* The gate.                                                               *)

\* What the nodes and the node objects satisfy whatever the process does: the
\* apiserver lags behind, a node is down only for a reboot it was told to do, and
\* every reboot that was asked for is one into the new image.
NodeInv ==
  \A n \in Nodes :
    /\ seenBoot[n] <= boot[n]
    /\ boot[n] > 0 => image[n] = "new"
    /\ ~up[n] => pending[n] = "reboot"
    /\ pending[n] = "reboot" => staged[n] \/ image[n] = "new"

\* The baseline is no later than what the apiserver shows, and `systemctl reboot`
\* is only sent after `bootc upgrade` has succeeded.
BaselineInv ==
  /\ pc \in AttemptPcs => pre <= seenBoot[cur]
  /\ pc = "rebooting" => staged[cur] \/ image[cur] = "new"

GateInv == TypeInv /\ NodeInv /\ BaselineInv /\ GatedMeansRebooted

\* Boots only go forward, for the node and for its node object, and what is staged
\* stays so until it is booted.
LEMMA Monotone ==
  ASSUME TypeInv, NodeInv, [Next]_vars, NEW n \in Nodes
  PROVE  /\ seenBoot[n] <= seenBoot'[n]
         /\ boot[n] <= boot'[n]
         /\ image[n] = "new" => image'[n] = "new"
         /\ staged[n] \/ image[n] = "new" => staged'[n] \/ image'[n] = "new"
<1>0. NodesOK /\ ApiOK
  BY DEF TypeInv, TypeOK
<1>1. seenBoot[n] <= seenBoot'[n]
  <2>1. CASE \E m \in Nodes : KubeletPosts(m)
    BY <1>0, <2>1 DEF KubeletPosts, NodeInv, NodesOK, ApiOK
  <2>2. CASE UNCHANGED seenBoot
    BY <1>0, <2>2 DEF ApiOK
  <2> QED BY ApiWriters, <2>1, <2>2 DEF apiVars, Drain, AlreadyCurrent, Uncordon,
                                       ApiserverStarts, GoDown, NodeMonitor
<1>2. /\ boot[n] <= boot'[n]
      /\ image[n] = "new" => image'[n] = "new"
      /\ staged[n] \/ image[n] = "new" => staged'[n] \/ image'[n] = "new"
  <2>1. CASE UNCHANGED <<boot, image, staged>>
    BY <1>0, <2>1 DEF NodesOK
  <2>2. CASE FallbackStage
    BY <1>0, <2>2, InFlight DEF FallbackStage, StageEffect, NodesOK
  <2>3. CASE \E m \in Nodes : RemoteUpgradeDone(m)
    BY <1>0, <2>3 DEF RemoteUpgradeDone, NodesOK
  <2>4. CASE \E m \in Nodes : BootUp(m)
    BY <1>0, <2>4 DEF BootUp, NodesOK
  <2>5. CASE \E m \in Nodes : TimerStages(m)
    BY <1>0, <2>5 DEF TimerStages, NodesOK
  <2> QED BY NodesWriters, <2>1, <2>2, <2>3, <2>4, <2>5
          DEF nodeVars, TimerStop, ApplyStart, ApplyReturns, FallbackReboot, TimerStart,
              Fail, GoDown
<1> QED BY <1>1, <1>2

\* An empty baseline is smaller than every boot ID.
LEMMA NoBootFacts == NoBoot \in Int /\ NoBoot \notin Nat /\ \A b \in Nat : NoBoot <= b
BY DEF NoBoot

\* The baseline and the boot IDs of a node are integers.
LEMMA BootsAreIntegers ==
  ASSUME TypeOK, NEW n \in Nodes
  PROVE  pre \in Int /\ boot[n] \in Nat /\ seenBoot[n] \in Nat
<1>1. pre \in Nat \cup {NoBoot}
  BY DEF TypeOK, AttemptOK
<1>2. boot \in [Nodes -> Nat] /\ seenBoot \in [Nodes -> Nat]
  BY DEF TypeOK, NodesOK, ApiOK
<1> QED BY <1>1, <1>2, NoBootFacts

\* An attempt begins in StartNode; its baseline is written there and in
\* CaptureBootId only.
LEMMA AttemptFrame ==
  ASSUME [Next]_vars, pc' \in AttemptPcs
  PROVE  \/ \E n \in Nodes : StartNode(n)
         \/ CaptureBootId
         \/ pc \in AttemptPcs /\ UNCHANGED <<cur, args, pre>>
<1> USE DEF Goto, AttemptPcs, Pcs
<1>1. CASE \/ TimerStop \/ Drain \/ UpgradeProbe \/ ApplyStart \/ ApplyReturns
           \/ FallbackStage \/ FallbackReboot \/ PostDigest \/ AlreadyCurrent
  BY <1>1 DEF TimerStop, Drain, UpgradeProbe, ApplyStart, ApplyReturns, FallbackStage,
              FallbackReboot, PostDigest, AlreadyCurrent, runVars, attemptVars
<1>2. CASE \/ WaitSshDrop \/ WaitSshBack \/ WaitApiserverBack \/ WaitBootIdChanged
           \/ WaitNodeReady \/ WaitDaemonSetsReady \/ Uncordon
  BY <1>2 DEF WaitSshDrop, WaitSshBack, WaitApiserverBack, WaitBootIdChanged,
              WaitNodeReady, WaitDaemonSetsReady, Uncordon, runVars, attemptVars
<1>3. CASE \/ \E a \in Launches : Launch(a)
           \/ Finish \/ TimerStart \/ Fail \/ KubectlHangs \/ Signal
  BY <1>3 DEF Launch, Finish, TimerStart, Fail, KubectlHangs, Signal
<1>4. CASE \/ ApiserverStarts \/ UNCHANGED vars
           \/ \E n \in Nodes : \/ RemoteUpgradeDone(n) \/ GoDown(n) \/ BootUp(n)
                               \/ KubeletPosts(n) \/ NodeMonitor(n) \/ TimerStages(n)
  BY <1>4 DEF ApiserverStarts, vars, RemoteUpgradeDone, GoDown, BootUp, KubeletPosts,
              NodeMonitor, TimerStages, runVars, attemptVars
<1> QED BY NextCases, <1>1, <1>2, <1>3, <1>4

\* `systemctl reboot` is reached from a successful `bootc upgrade` only, and the
\* gates after the bootID gate from that gate only.
LEMMA ControlFlow ==
  ASSUME [Next]_vars
  PROVE  /\ pc' = "rebooting" => \/ pc = "rebooting" /\ cur' = cur
                                 \/ FallbackStage
         /\ pc' \in {"ready", "daemonsets", "uncordon"}
              => \/ /\ pc \in {"ready", "daemonsets", "uncordon"}
                    /\ UNCHANGED <<cur, args, pre, blind>>
                 \/ WaitBootIdChanged
<1> USE DEF Goto, NextPc
<1>1. CASE \/ TimerStop \/ Drain \/ CaptureBootId \/ UpgradeProbe \/ ApplyStart
           \/ ApplyReturns \/ FallbackStage \/ FallbackReboot \/ PostDigest
           \/ AlreadyCurrent
  BY <1>1 DEF TimerStop, Drain, CaptureBootId, UpgradeProbe, ApplyStart, ApplyReturns,
              FallbackStage, FallbackReboot, PostDigest, AlreadyCurrent
<1>2. CASE \/ WaitSshDrop \/ WaitSshBack \/ WaitApiserverBack \/ WaitBootIdChanged
           \/ WaitNodeReady \/ WaitDaemonSetsReady \/ Uncordon
  BY <1>2 DEF WaitSshDrop, WaitSshBack, WaitApiserverBack, WaitBootIdChanged,
              WaitNodeReady, WaitDaemonSetsReady, Uncordon, runVars, attemptVars,
              historyVars
<1>3. CASE \/ \E a \in Launches : Launch(a)
           \/ \E n \in Nodes : StartNode(n)
           \/ Finish \/ TimerStart \/ Fail \/ KubectlHangs \/ Signal
  BY <1>3 DEF Launch, StartNode, Finish, TimerStart, Fail, KubectlHangs, Signal
<1>4. CASE \/ ApiserverStarts \/ UNCHANGED vars
           \/ \E n \in Nodes : \/ RemoteUpgradeDone(n) \/ GoDown(n) \/ BootUp(n)
                               \/ KubeletPosts(n) \/ NodeMonitor(n) \/ TimerStages(n)
  BY <1>4 DEF ApiserverStarts, vars, RemoteUpgradeDone, GoDown, BootUp, KubeletPosts,
              NodeMonitor, TimerStages, runVars, attemptVars, historyVars
<1> QED BY NextCases, <1>1, <1>2, <1>3, <1>4

\* Every step preserves NodeInv; FallbackReboot needs BaselineInv for it.
LEMMA NodeInvStep ==
  ASSUME GateInv, [Next]_vars
  PROVE  NodeInv'
<1>0. NodesOK /\ ApiOK /\ TypeInv /\ NodeInv /\ BaselineInv
  BY DEF GateInv, TypeInv, TypeOK
<1> USE <1>0 DEF NodeInv
<1>1. CASE UNCHANGED <<nodeVars, seenBoot>>
  BY <1>1 DEF nodeVars
<1>2. CASE \E n \in Nodes : KubeletPosts(n)
  BY <1>2 DEF KubeletPosts, nodeVars, NodesOK, ApiOK
<1>3. CASE TimerStop \/ TimerStart \/ Fail
  BY <1>3 DEF TimerStop, TimerStart, Fail, apiVars
<1>4. CASE ApplyStart
  BY <1>4, InFlight DEF ApplyStart, SshWorks, SshFails, NodesOK, apiVars
<1>5. CASE ApplyReturns
  BY <1>5, InFlight DEF ApplyReturns, NodesOK, apiVars
<1>6. CASE FallbackStage
  BY <1>6, InFlight DEF FallbackStage, StageEffect, NodesOK, apiVars
<1>7. CASE FallbackReboot
  BY <1>7, InFlight DEF FallbackReboot, BaselineInv, SshWorks, SshFails, NodesOK, apiVars
<1>8. CASE \E n \in Nodes : RemoteUpgradeDone(n)
  BY <1>8 DEF RemoteUpgradeDone, NodesOK, apiVars
<1>9. CASE \E n \in Nodes : GoDown(n)
  BY <1>9 DEF GoDown, NodesOK
<1>10. CASE \E n \in Nodes : BootUp(n)
  BY <1>10 DEF BootUp, NodesOK, ApiOK, apiVars
<1>11. CASE \E n \in Nodes : TimerStages(n)
  BY <1>11 DEF TimerStages, NodesOK, apiVars
<1>12. CASE Drain \/ AlreadyCurrent \/ Uncordon \/ ApiserverStarts
             \/ \E n \in Nodes : NodeMonitor(n)
  BY <1>1, <1>12 DEF Drain, AlreadyCurrent, Uncordon, ApiserverStarts, NodeMonitor
<1>13. CASE UNCHANGED nodeVars /\ UNCHANGED apiVars
  BY <1>1, <1>13 DEF apiVars
<1> QED BY NodesWriters, ApiWriters, <1>2, <1>3, <1>4, <1>5, <1>6, <1>7, <1>8, <1>9,
           <1>10, <1>11, <1>12, <1>13

\* Every step preserves BaselineInv.
LEMMA BaselineStep ==
  ASSUME GateInv, [Next]_vars
  PROVE  BaselineInv'
<1>0. TypeInv /\ NodeInv /\ BaselineInv /\ NodesOK /\ ApiOK /\ TypeInv' /\ ApiOK'
  BY TypeStep DEF GateInv, TypeInv, TypeOK
<1>1. ASSUME pc' \in AttemptPcs PROVE pre' <= seenBoot'[cur']
  <2>1. CASE \E n \in Nodes : StartNode(n)
    <3>1. PICK n \in Nodes : pre' = NoBoot /\ cur' = n /\ seenBoot' = seenBoot
      BY <2>1 DEF StartNode, apiVars
    <3>2. seenBoot[n] \in Nat
      BY <1>0, BootsAreIntegers DEF TypeInv
    <3> QED BY <3>1, <3>2, NoBootFacts
  <2>2. CASE CaptureBootId
    <3>1. /\ cur \in Nodes
          /\ cur' = cur /\ seenBoot' = seenBoot
          /\ pre' = seenBoot[cur] \/ pre' = NoBoot
      BY <1>0, <2>2, InFlight DEF CaptureBootId, apiVars, runVars
    <3>2. seenBoot[cur] \in Nat
      BY <1>0, <3>1, BootsAreIntegers DEF TypeInv
    <3> QED BY <3>1, <3>2, NoBootFacts
  <2>3. CASE pc \in AttemptPcs /\ UNCHANGED <<cur, args, pre>>
    <3>1. cur \in Nodes /\ pre <= seenBoot[cur]
      BY <1>0, <2>3 DEF TypeInv, CurOK, BaselineInv
    <3>2. seenBoot[cur] <= seenBoot'[cur]
      BY <1>0, <3>1, Monotone
    <3>3. pre \in Int /\ seenBoot[cur] \in Int
      BY <1>0, <3>1, BootsAreIntegers DEF TypeInv
    <3>4. seenBoot'[cur] \in Int
      BY <1>0, <3>1 DEF ApiOK
    <3> QED BY <2>3, <3>1, <3>2, <3>3, <3>4
  <2> QED BY <1>1, AttemptFrame, <2>1, <2>2, <2>3
<1>2. ASSUME pc' = "rebooting" PROVE staged'[cur'] \/ image'[cur'] = "new"
  <2>1. CASE pc = "rebooting" /\ cur' = cur
    <3>1. cur \in Nodes /\ (staged[cur] \/ image[cur] = "new")
      BY <1>0, <2>1, InFlight DEF BaselineInv
    <3> QED BY <1>0, <2>1, <3>1, Monotone
  <2>2. CASE FallbackStage
    <3>1. cur \in Nodes /\ cur' = cur /\ up[cur] /\ staged' = StageEffect /\ image' = image
      BY <1>0, <1>2, <2>2, InFlight DEF FallbackStage, Goto, SshWorks, runVars
    <3> QED BY <1>0, <3>1 DEF StageEffect, NodesOK
  <2> QED BY <1>2, ControlFlow, <2>1, <2>2
<1> QED BY <1>1, <1>2 DEF BaselineInv

\* Every step preserves GatedMeansRebooted; it is established by the gate itself, where
\* a bootID that differs from the baseline is a later one.
LEMMA GateStep ==
  ASSUME GateInv, [Next]_vars
  PROVE  GatedMeansRebooted'
<1>0. TypeInv /\ NodeInv /\ BaselineInv /\ NodesOK /\ ApiOK /\ AttemptOK /\ NodesOK'
  BY TypeStep DEF GateInv, TypeInv, TypeOK
<1> SUFFICES ASSUME pc' \in {"ready", "daemonsets", "uncordon"}, ~GateOff'
             PROVE  boot'[cur'] > pre' /\ image'[cur'] = "new"
  BY DEF GatedMeansRebooted
<1>1. CASE /\ pc \in {"ready", "daemonsets", "uncordon"}
           /\ UNCHANGED <<cur, args, pre, blind>>
  <2>1. cur \in Nodes /\ boot[cur] > pre /\ image[cur] = "new"
    BY <1>0, <1>1, InFlight DEF GateInv, GatedMeansRebooted, GateOff
  <2>2. boot[cur] <= boot'[cur] /\ image'[cur] = "new"
    BY <1>0, <2>1, Monotone
  <2>3. pre \in Int /\ boot[cur] \in Int
    BY <1>0, <2>1, BootsAreIntegers DEF TypeInv
  <2>4. boot'[cur] \in Int
    BY <1>0, <2>1 DEF NodesOK
  <2> QED BY <1>1, <2>1, <2>2, <2>3, <2>4
<1>2. CASE WaitBootIdChanged
  <2>1. cur \in Nodes /\ UNCHANGED <<cur, args, pre, boot, image>>
    BY <1>0, <1>2, InFlight DEF WaitBootIdChanged, runVars, attemptVars, nodeVars
  <2>2. ~GateOff
    BY <2>1 DEF GateOff
  <2>3. pre <= seenBoot[cur] /\ seenBoot[cur] # pre
    BY <1>0, <1>2, <2>2 DEF WaitBootIdChanged, BootIdChanged, Goto, BaselineInv,
                            AttemptPcs, Pcs
  <2>4. pre \in Nat /\ seenBoot[cur] \in Nat /\ boot[cur] \in Nat
    BY <1>0, <2>1, <2>2 DEF AttemptOK, ApiOK, NodesOK, GateOff
  <2>5. seenBoot[cur] <= boot[cur] /\ (boot[cur] > 0 => image[cur] = "new")
    BY <1>0, <2>1 DEF NodeInv
  <2> QED BY <2>1, <2>3, <2>4, <2>5
<1> QED BY ControlFlow, <1>1, <1>2

\* Init establishes GateInv.
LEMMA GateInvInit == Init => GateInv
<1> SUFFICES ASSUME Init PROVE GateInv
  OBVIOUS
<1>1. TypeInv
  BY TypeInit
<1>2. NodeInv
  <2> SUFFICES ASSUME NEW n \in Nodes
               PROVE  /\ seenBoot[n] = 0 /\ boot[n] = 0
                      /\ up[n] /\ pending[n] = "none"
    BY DEF NodeInv
  <2> QED BY DEF Init
<1>3. BaselineInv /\ GatedMeansRebooted
  BY DEF Init, BaselineInv, GatedMeansRebooted, AttemptPcs
<1> QED BY <1>1, <1>2, <1>3 DEF GateInv

\* Every step preserves GateInv.
LEMMA GateInvStep ==
  ASSUME GateInv, [Next]_vars
  PROVE  GateInv'
<1>1. TypeInv'
  BY TypeStep DEF GateInv
<1> QED BY <1>1, NodeInvStep, BaselineStep, GateStep DEF GateInv

\* wait_node_bootid_changed does what it is for: whatever fails, a node that went
\* through the gate runs the new image in a later boot than the baseline.
THEOREM GateCorrect == Spec => []GatedMeansRebooted
<1>1. Init => GateInv
  BY GateInvInit
<1>2. GateInv /\ [Next]_vars => GateInv'
  BY GateInvStep
<1>3. GateInv => GatedMeansRebooted
  BY DEF GateInv
<1> QED BY <1>1, <1>2, <1>3, PTL DEF Spec

--------------------------------------------------------------------------------
(* No silent disruption.                                                   *)

\* The two ways to the new image.  A node with --apply never reboots once it runs
\* the new image, and rc 0 means it does; a node without never has a bootc at work
\* on its own.
ApplyInv ==
  /\ \A n \in HasApply : image[n] = "new" => pending[n] = "none"
  /\ \A n \in Nodes \ HasApply : pending[n] # "upgrade"
  /\ pc \in {"staging", "rebooting"} => cur \notin HasApply
  /\ pc \in {"apply", "applying"} => cur \in HasApply
  /\ pc \in {"post_digest", "current"} /\ cur \in HasApply => image[cur] = "new"

\* Once the reboot is asked for, a later boot is the one that was asked for.
AskedPcs == {"post_digest", "current", "ssh_drop", "ssh_back", "apiserver", "bootid"}
AskedInv ==
  pc \in AskedPcs /\ cur \notin HasApply /\ boot[cur] > boot0
    => up[cur] /\ pending[cur] = "none"

\* Past the gate the node in flight is up and stays up.
PassedInv ==
  pc \in {"ready", "daemonsets", "uncordon", "timer_start"} /\ cur \notin blind
    => up[cur] /\ pending[cur] = "none"

\* Only the node in flight, or one whose attempt failed, is cordoned; the control
\* plane never is.
CordonInv ==
  /\ ~cordoned[CP]
  /\ pc = "drain" => cur # CP
  /\ \A n \in Nodes \ {cur} : cordoned[n] => n \in left
  /\ pc \in AttemptPcs /\ args.skipDrain => (cordoned[cur] => cur \in left)
  /\ pc = "timer_start" => (cordoned[cur] => cur \in left)

\* Only the node in flight, or one that is accounted for, is down or about to be.
QuietInv ==
  \A n \in Nodes \ {cur} : n \notin left \cup blind => up[n] /\ pending[n] = "none"

DisruptionInv ==
  GateInv /\ ApplyInv /\ AskedInv /\ PassedInv /\ CordonInv /\ QuietInv

\* A node that is up with nothing pending stays so, unless the process is at work
\* on it.
LEMMA QuietStable ==
  ASSUME TypeInv, [Next]_vars, NEW n \in Nodes,
         up[n], pending[n] = "none",
         n # cur \/ pc \notin {"apply", "applying", "rebooting"}
  PROVE  up'[n] /\ pending'[n] = "none"
<1>0. NodesOK
  BY DEF TypeInv, TypeOK
<1>1. CASE UNCHANGED <<up, pending>>
  BY <1>1
<1>2. CASE ApplyStart
  BY <1>0, <1>2, InFlight DEF ApplyStart, NodesOK
<1>3. CASE ApplyReturns
  BY <1>0, <1>3, InFlight DEF ApplyReturns, NodesOK
<1>4. CASE FallbackReboot
  BY <1>0, <1>4, InFlight DEF FallbackReboot, NodesOK
<1>5. CASE \E m \in Nodes : RemoteUpgradeDone(m)
  BY <1>0, <1>5 DEF RemoteUpgradeDone, NodesOK
<1>6. CASE \E m \in Nodes : GoDown(m)
  BY <1>0, <1>6 DEF GoDown, NodesOK
<1>7. CASE \E m \in Nodes : BootUp(m)
  BY <1>0, <1>7 DEF BootUp, NodesOK
<1> QED BY NodesWriters, <1>1, <1>2, <1>3, <1>4, <1>5, <1>6, <1>7
        DEF nodeVars, TimerStop, FallbackStage, TimerStart, Fail, TimerStages

\* Only these steps take up or leave a node.
LEMMA MoveOn ==
  ASSUME [Next]_vars
  PROVE  \/ \E n \in Nodes : StartNode(n)
         \/ TimerStart \/ Fail \/ Signal
         \/ cur' = cur /\ left' = left /\ blind \subseteq blind'
<1>1. CASE UNCHANGED runVars
  BY <1>1, HistoryWriters
     DEF runVars, historyVars, ApplyStart, FallbackStage, FallbackReboot, AlreadyCurrent,
         WaitBootIdChanged
<1>2. CASE \E a \in Launches : Launch(a)
  BY <1>2 DEF Launch, historyVars
<1>3. CASE Finish
  BY <1>3 DEF Finish, historyVars
<1> QED BY RunWriters, <1>1, <1>2, <1>3

\* Every step preserves QuietInv; the node left by TimerStart is quiet by PassedInv.
LEMMA QuietStep ==
  ASSUME DisruptionInv, [Next]_vars
  PROVE  QuietInv'
<1>0. TypeInv /\ QuietInv /\ PassedInv /\ NodesOK
  BY DEF DisruptionInv, GateInv, TypeInv, TypeOK
<1> SUFFICES ASSUME NEW n \in Nodes, n # cur', n \notin left', n \notin blind'
             PROVE  up'[n] /\ pending'[n] = "none"
  BY DEF QuietInv
<1>1. CASE \E m \in Nodes : StartNode(m)
  <2>1. /\ n \notin left /\ n \notin blind
        /\ cur = NoNode
        /\ UNCHANGED <<up, pending>>
    BY <1>0, <1>1 DEF StartNode, TypeInv, CurOK, nodeVars
  <2> QED BY <1>0, <2>1, NodeFacts DEF QuietInv
<1>2. CASE TimerStart
  <2>1. /\ pc = "timer_start"
        /\ n \notin left /\ n \notin blind
        /\ UNCHANGED <<up, pending>>
    BY <1>2 DEF TimerStart, historyVars
  <2> QED BY <1>0, <2>1 DEF QuietInv, PassedInv
<1>3. CASE Fail \/ Signal
  <2>1. n # cur /\ n \notin left /\ n \notin blind /\ UNCHANGED <<up, pending>>
    BY <1>3, NodeFacts DEF Fail, Signal, nodeVars
  <2> QED BY <1>0, <2>1 DEF QuietInv
<1>4. CASE cur' = cur /\ left' = left /\ blind \subseteq blind'
  <2>1. n # cur /\ up[n] /\ pending[n] = "none"
    BY <1>0, <1>4 DEF QuietInv
  <2> QED BY <1>0, <2>1, QuietStable
<1> QED BY MoveOn, <1>1, <1>2, <1>3, <1>4

\* Every step preserves CordonInv.
LEMMA CordonStep ==
  ASSUME DisruptionInv, [Next]_vars
  PROVE  CordonInv'
<1>0. TypeInv /\ CordonInv /\ ApiOK /\ TypeInv'
  BY TypeStep DEF DisruptionInv, GateInv, TypeInv, TypeOK
<1>1. CASE \E n \in Nodes : StartNode(n)
  <2>1. PICK n \in Nodes : StartNode(n)
    BY <1>1
  <2>2. /\ cur = NoNode /\ cur' = n /\ cordoned' = cordoned /\ args' = args
        /\ pc' = "timer_stop"
        /\ left \ {n} \subseteq left'
        /\ args.skipDrain => left' = left
    BY <1>0, <2>1 DEF StartNode, TypeInv, CurOK, apiVars
  <2>3. \A m \in Nodes : cordoned[m] => m \in left
    BY <1>0, <2>2, NodeFacts DEF CordonInv
  <2> QED BY <1>0, <2>2, <2>3 DEF CordonInv
<1>2. CASE TimerStart
  <2>1. pc = "timer_start" /\ cur' = NoNode /\ pc' = "next" /\ UNCHANGED <<cordoned, left>>
    BY <1>2 DEF TimerStart, Goto, apiVars, historyVars
  <2>2. pc' \notin AttemptPcs
    BY <2>1 DEF AttemptPcs
  <2> QED BY <1>0, <2>1, <2>2 DEF CordonInv
<1>3. CASE Fail \/ Signal
  <2>1. /\ cur' = NoNode /\ pc' \in {"next", "done"} /\ cordoned' = cordoned
        /\ left \subseteq left' /\ (cur \in Nodes => cur \in left')
    BY <1>3, NodeFacts DEF Fail, Signal, Goto, apiVars
  <2>2. pc' \notin AttemptPcs
    BY <2>1 DEF AttemptPcs
  <2> QED BY <1>0, <2>1, <2>2 DEF CordonInv
<1>4. CASE Drain
  <2>1. /\ pc = "drain" /\ cur \in Nodes /\ cur # CP
        /\ cur' = cur /\ left' = left /\ args' = args /\ pc' \in {"capture", "fail"}
        /\ \A m \in Nodes \ {cur} : cordoned'[m] = cordoned[m]
        /\ args.skipDrain => cordoned' = cordoned
    BY <1>0, <1>4, InFlight DEF Drain, Goto, runVars, historyVars, CordonInv, ApiOK
  <2>2. pc \in AttemptPcs
    BY <2>1 DEF AttemptPcs, Pcs
  <2> QED BY <1>0, <2>1, <2>2, NodeFacts DEF CordonInv
<1>5. CASE AlreadyCurrent
  <2>1. /\ pc = "current" /\ cur \in Nodes
        /\ cur' = cur /\ left' = left /\ args' = args /\ pc' \in {"timer_start", "fail"}
        /\ \A m \in Nodes \ {cur} : cordoned'[m] = cordoned[m]
        /\ cordoned'[cur] => cordoned[cur]
        /\ pc' = "timer_start" => cur = CP \/ args.skipDrain \/ ~cordoned'[cur]
    BY <1>0, <1>5, InFlight DEF AlreadyCurrent, UncordonsCurrent, Goto, runVars, ApiOK
  <2>2. pc \in AttemptPcs
    BY <2>1 DEF AttemptPcs, Pcs
  <2> QED BY <1>0, <2>1, <2>2, NodeFacts DEF CordonInv
<1>6. CASE Uncordon
  <2>1. /\ pc = "uncordon" /\ cur \in Nodes
        /\ cur' = cur /\ left' = left /\ args' = args /\ pc' \in {"timer_start", "fail"}
        /\ \A m \in Nodes \ {cur} : cordoned'[m] = cordoned[m]
        /\ cordoned'[cur] => cordoned[cur]
        /\ pc' = "timer_start" => ~cordoned'[cur]
    BY <1>0, <1>6, InFlight DEF Uncordon, Goto, runVars, historyVars, ApiOK
  <2>2. pc \in AttemptPcs
    BY <2>1 DEF AttemptPcs, Pcs
  <2> QED BY <1>0, <2>1, <2>2, NodeFacts DEF CordonInv
<1>7. CASE /\ cordoned' = cordoned /\ cur' = cur /\ left' = left
           /\ pc' \in AttemptPcs => pc \in AttemptPcs /\ args' = args
           /\ pc' = "timer_start" => pc = "timer_start" \/ cur = CP
           /\ pc' = "drain" => pc = "drain" \/ cur # CP
  BY <1>0, <1>7 DEF CordonInv
<1>8. CASE \/ TimerStop \/ CaptureBootId \/ UpgradeProbe \/ ApplyStart \/ ApplyReturns
           \/ FallbackStage \/ FallbackReboot \/ PostDigest
  BY <1>7, <1>8
     DEF TimerStop, CaptureBootId, UpgradeProbe, ApplyStart, ApplyReturns, FallbackStage,
         FallbackReboot, PostDigest, Goto, NextPc, AttemptPcs, Pcs, apiVars, runVars,
         historyVars
<1>9. CASE \/ WaitSshDrop \/ WaitSshBack \/ WaitApiserverBack \/ WaitBootIdChanged
           \/ WaitNodeReady \/ WaitDaemonSetsReady
  BY <1>7, <1>9
     DEF WaitSshDrop, WaitSshBack, WaitApiserverBack, WaitBootIdChanged, WaitNodeReady,
         WaitDaemonSetsReady, Goto, NextPc, AttemptPcs, Pcs, apiVars, runVars, historyVars
<1>10. CASE \/ \E a \in Launches : Launch(a)
            \/ Finish \/ KubectlHangs \/ ApiserverStarts \/ UNCHANGED vars
  BY <1>7, <1>10
     DEF Launch, Finish, KubectlHangs, ApiserverStarts, vars, AttemptPcs, Pcs, apiVars,
         runVars, historyVars
<1>11. CASE \E n \in Nodes : \/ RemoteUpgradeDone(n) \/ GoDown(n) \/ BootUp(n)
                             \/ KubeletPosts(n) \/ NodeMonitor(n) \/ TimerStages(n)
  BY <1>7, <1>11
     DEF RemoteUpgradeDone, GoDown, BootUp, KubeletPosts, NodeMonitor, TimerStages,
         apiVars, runVars, historyVars
<1> QED BY NextCases, <1>1, <1>2, <1>3, <1>4, <1>5, <1>6, <1>8, <1>9, <1>10, <1>11

\* What is pending on a node is written by these steps only.
LEMMA PendingWriters ==
  ASSUME [Next]_vars
  PROVE  \/ UNCHANGED <<up, boot, image, pending>>
         \/ ApplyStart \/ ApplyReturns \/ FallbackReboot
         \/ \E n \in Nodes : RemoteUpgradeDone(n) \/ GoDown(n) \/ BootUp(n)
BY NodesWriters DEF nodeVars, TimerStop, FallbackStage, TimerStart, Fail, TimerStages

\* The part of ApplyInv about the nodes.
LEMMA ApplyPendingStep ==
  ASSUME DisruptionInv, [Next]_vars
  PROVE  /\ \A n \in HasApply : image'[n] = "new" => pending'[n] = "none"
         /\ \A n \in Nodes \ HasApply : pending'[n] # "upgrade"
<1>0. TypeInv /\ NodesOK /\ ApplyInv
  BY DEF DisruptionInv, GateInv, TypeInv, TypeOK
<1> USE <1>0, HasApplyAssumption DEF ApplyInv, NodesOK
<1>1. CASE UNCHANGED <<up, boot, image, pending>>
  BY <1>1
<1>2. CASE ApplyStart
  BY <1>2, InFlight DEF ApplyStart
<1>3. CASE ApplyReturns
  BY <1>3, InFlight DEF ApplyReturns
<1>4. CASE FallbackReboot
  BY <1>4, InFlight DEF FallbackReboot
<1>5. CASE \E n \in Nodes : RemoteUpgradeDone(n)
  BY <1>5 DEF RemoteUpgradeDone
<1>6. CASE \E n \in Nodes : GoDown(n)
  BY <1>6 DEF GoDown
<1>7. CASE \E n \in Nodes : BootUp(n)
  BY <1>7 DEF BootUp
<1> QED BY PendingWriters, <1>1, <1>2, <1>3, <1>4, <1>5, <1>6, <1>7

\* How the labels of the two ways, the asked ones and the passed ones are reached.
LEMMA WaysFlow ==
  ASSUME [Next]_vars
  PROVE  /\ pc' \in {"staging", "rebooting"}
              => cur' = cur /\ \/ pc \in {"staging", "rebooting"}
                               \/ UpgradeProbe /\ cur \notin HasApply
         /\ pc' \in {"apply", "applying"}
              => cur' = cur /\ \/ pc \in {"apply", "applying"}
                               \/ UpgradeProbe /\ cur \in HasApply
         /\ pc' \in {"post_digest", "current"}
              => cur' = cur /\ \/ pc \in {"post_digest", "current"}
                               \/ ApplyStart /\ image[cur] = "new" /\ image' = image
                               \/ FallbackReboot
         /\ pc' \in AskedPcs
              => cur' = cur /\ \/ pc \in AskedPcs /\ boot0' = boot0
                               \/ FallbackStage \/ FallbackReboot
                               \/ pc \in {"apply", "applying"}
         /\ pc' \in {"ready", "daemonsets", "uncordon", "timer_start"}
              => cur' = cur /\ \/ /\ pc \in {"ready", "daemonsets", "uncordon", "timer_start"}
                                  /\ blind' = blind
                               \/ AlreadyCurrent \/ WaitBootIdChanged
<1> USE DEF Goto, NextPc, AskedPcs
<1>1. CASE \/ TimerStop \/ Drain \/ CaptureBootId \/ UpgradeProbe \/ AlreadyCurrent
  BY <1>1 DEF TimerStop, Drain, CaptureBootId, UpgradeProbe, AlreadyCurrent, runVars
<1>2. CASE \/ ApplyStart \/ ApplyReturns \/ FallbackStage \/ FallbackReboot \/ PostDigest
  BY <1>2 DEF ApplyStart, ApplyReturns, FallbackStage, FallbackReboot, PostDigest, runVars,
              historyVars
<1>3. CASE \/ WaitSshDrop \/ WaitSshBack \/ WaitApiserverBack \/ WaitBootIdChanged
           \/ WaitNodeReady \/ WaitDaemonSetsReady \/ Uncordon
  BY <1>3 DEF WaitSshDrop, WaitSshBack, WaitApiserverBack, WaitBootIdChanged,
              WaitNodeReady, WaitDaemonSetsReady, Uncordon, runVars, historyVars
<1>4. CASE \/ \E a \in Launches : Launch(a)
           \/ \E n \in Nodes : StartNode(n)
           \/ Finish \/ TimerStart \/ Fail \/ KubectlHangs \/ Signal
  BY <1>4 DEF Launch, StartNode, Finish, TimerStart, Fail, KubectlHangs, Signal
<1>5. CASE \/ ApiserverStarts \/ UNCHANGED vars
           \/ \E n \in Nodes : \/ RemoteUpgradeDone(n) \/ GoDown(n) \/ BootUp(n)
                               \/ KubeletPosts(n) \/ NodeMonitor(n) \/ TimerStages(n)
  BY <1>5 DEF ApiserverStarts, vars, RemoteUpgradeDone, GoDown, BootUp, KubeletPosts,
              NodeMonitor, TimerStages, runVars, historyVars
<1> QED BY NextCases, <1>1, <1>2, <1>3, <1>4, <1>5

\* Every step preserves ApplyInv.
LEMMA ApplyInvStep ==
  ASSUME DisruptionInv, [Next]_vars
  PROVE  ApplyInv'
<1>0. TypeInv /\ NodeInv /\ ApplyInv
  BY DEF DisruptionInv, GateInv
<1>1. pc' \in {"staging", "rebooting"} => cur' \notin HasApply
  BY <1>0, WaysFlow DEF ApplyInv
<1>2. pc' \in {"apply", "applying"} => cur' \in HasApply
  BY <1>0, WaysFlow DEF ApplyInv
<1>3. pc' \in {"post_digest", "current"} /\ cur' \in HasApply => image'[cur'] = "new"
  <2> SUFFICES ASSUME pc' \in {"post_digest", "current"}, cur' \in HasApply
               PROVE  image'[cur'] = "new"
    OBVIOUS
  <2>1. CASE pc \in {"post_digest", "current"} /\ cur' = cur
    BY <1>0, <2>1, Monotone, HasApplyAssumption DEF ApplyInv
  <2>2. CASE ApplyStart /\ image[cur] = "new" /\ image' = image /\ cur' = cur
    BY <2>2
  <2>3. CASE FallbackReboot /\ cur' = cur
    BY <1>0, <2>3 DEF FallbackReboot, ApplyInv
  <2> QED BY WaysFlow, <2>1, <2>2, <2>3
<1> QED BY <1>1, <1>2, <1>3, ApplyPendingStep DEF ApplyInv

\* Every step preserves AskedInv.
LEMMA AskedStep ==
  ASSUME DisruptionInv, [Next]_vars
  PROVE  AskedInv'
<1>0. TypeInv /\ NodesOK /\ NodeInv /\ ApplyInv /\ AskedInv /\ NodesOK'
  BY TypeStep DEF DisruptionInv, GateInv, TypeInv, TypeOK
<1> SUFFICES ASSUME pc' \in AskedPcs, cur' \notin HasApply, boot'[cur'] > boot0'
             PROVE  up'[cur'] /\ pending'[cur'] = "none"
  BY DEF AskedInv
<1>1. CASE pc \in AskedPcs /\ cur' = cur /\ boot0' = boot0
  <2>1. cur \in Nodes
    BY <1>0, <1>1, InFlight DEF AskedPcs
  <2>2. CASE boot[cur] > boot0
    <3>1. up[cur] /\ pending[cur] = "none"
      BY <1>0, <1>1, <2>2 DEF AskedInv
    <3> QED BY <1>0, <1>1, <2>1, <3>1, QuietStable DEF AskedPcs
  <2>3. CASE ~(boot[cur] > boot0)
    <3>1. boot' # boot
      BY <1>1, <2>3
    <3>2. PICK m \in Nodes : BootUp(m)
      BY <3>1, NodesWriters
         DEF nodeVars, TimerStop, ApplyStart, ApplyReturns, FallbackStage, FallbackReboot,
             TimerStart, Fail, RemoteUpgradeDone, GoDown, TimerStages
    <3>3. m = cur
      BY <1>0, <1>1, <2>1, <2>3, <3>2 DEF BootUp, NodesOK
    <3> QED BY <1>0, <1>1, <3>2, <3>3 DEF BootUp, NodesOK
  <2> QED BY <2>2, <2>3
<1>2. CASE (FallbackStage \/ FallbackReboot) /\ cur' = cur
  <2>1. cur \in Nodes /\ boot0' = boot[cur] /\ boot' = boot
    BY <1>0, <1>2, InFlight DEF FallbackStage, FallbackReboot
  <2>2. boot[cur] \in Nat
    BY <1>0, <2>1 DEF NodesOK
  <2> QED BY <1>2, <2>1, <2>2
<1>3. CASE pc \in {"apply", "applying"} /\ cur' = cur
  BY <1>0, <1>3 DEF ApplyInv
<1> QED BY WaysFlow, <1>1, <1>2, <1>3

\* Every step preserves PassedInv; the gate establishes it, by AskedInv without --apply
\* and by ApplyInv with it.
LEMMA PassedStep ==
  ASSUME DisruptionInv, [Next]_vars
  PROVE  PassedInv'
<1>0. /\ TypeInv /\ NodesOK /\ NodeInv /\ ApplyInv /\ AskedInv /\ PassedInv
      /\ GatedMeansRebooted'
  BY GateStep DEF DisruptionInv, GateInv, TypeInv, TypeOK
<1> SUFFICES ASSUME pc' \in {"ready", "daemonsets", "uncordon", "timer_start"},
                    cur' \notin blind'
             PROVE  up'[cur'] /\ pending'[cur'] = "none"
  BY DEF PassedInv
<1>1. CASE /\ pc \in {"ready", "daemonsets", "uncordon", "timer_start"}
           /\ cur' = cur /\ blind' = blind
  <2>1. cur \in Nodes /\ up[cur] /\ pending[cur] = "none"
    BY <1>0, <1>1, InFlight DEF PassedInv
  <2> QED BY <1>0, <1>1, <2>1, QuietStable
\* A node with --apply that runs the new image is quiet.
<1>2. ASSUME cur \in HasApply, image[cur] = "new"
      PROVE  up[cur] /\ pending[cur] = "none"
  BY <1>0, <1>2, HasApplyAssumption DEF ApplyInv, NodeInv
<1>3. CASE AlreadyCurrent /\ cur' = cur
  <2>1. pc = "current" /\ cur \in HasApply /\ UNCHANGED <<up, pending>>
    BY <1>3 DEF AlreadyCurrent, nodeVars
  <2>2. image[cur] = "new"
    BY <1>0, <2>1 DEF ApplyInv
  <2> QED BY <1>2, <1>3, <2>1, <2>2
<1>4. CASE WaitBootIdChanged /\ cur' = cur
  <2>1. /\ cur \in Nodes /\ pc = "bootid" /\ pc' = "ready"
        /\ UNCHANGED <<up, pending, image, boot, pre, args>>
        /\ ~GateOff /\ ~StaleBaseline
    BY <1>0, <1>4, InFlight DEF WaitBootIdChanged, Goto, nodeVars, attemptVars, runVars
  <2>2. boot[cur] > pre /\ image[cur] = "new"
    BY <1>0, <1>4, <2>1 DEF GatedMeansRebooted, GateOff
  <2>3. CASE cur \in HasApply
    BY <1>2, <1>4, <2>1, <2>2, <2>3
  <2>4. CASE cur \notin HasApply
    BY <1>0, <1>4, <2>1, <2>2, <2>4 DEF StaleBaseline, AskedInv, AskedPcs
  <2> QED BY <2>3, <2>4
<1> QED BY WaysFlow, <1>1, <1>3, <1>4

\* Init establishes DisruptionInv.
LEMMA DisruptionInit == Init => DisruptionInv
<1> SUFFICES ASSUME Init PROVE DisruptionInv
  OBVIOUS
<1>1. GateInv
  BY GateInvInit
<1>2. \A n \in Nodes : up[n] /\ pending[n] = "none" /\ ~cordoned[n]
  BY DEF Init
<1>3. pc = "idle"
  BY DEF Init
<1>4. ApplyInv
  BY <1>2, <1>3, HasApplyAssumption DEF ApplyInv
<1>5. AskedInv /\ PassedInv /\ QuietInv
  BY <1>2, <1>3 DEF AskedInv, AskedPcs, PassedInv, QuietInv
<1>6. CordonInv
  BY <1>2, <1>3, NodeFacts DEF CordonInv, AttemptPcs
<1> QED BY <1>1, <1>4, <1>5, <1>6 DEF DisruptionInv

\* Every step preserves DisruptionInv.
LEMMA DisruptionStep ==
  ASSUME DisruptionInv, [Next]_vars
  PROVE  DisruptionInv'
<1>1. GateInv'
  BY GateInvStep DEF DisruptionInv
<1> QED BY <1>1, ApplyInvStep, AskedStep, PassedStep, CordonStep, QuietStep
        DEF DisruptionInv

\* The roll never leaves a node cordoned, down or about to reboot behind it without
\* the attempt having failed or gone through blind, whatever fails.
THEOREM NoSilentDisruptionHolds == Spec => []NoSilentDisruption
<1>1. Init => DisruptionInv
  BY DisruptionInit
<1>2. DisruptionInv /\ [Next]_vars => DisruptionInv'
  BY DisruptionStep
<1>3. DisruptionInv => NoSilentDisruption
  BY DEF DisruptionInv, CordonInv, QuietInv, NoSilentDisruption, Disrupted
<1> QED BY <1>1, <1>2, <1>3, PTL DEF Spec

--------------------------------------------------------------------------------
(* The summary.                                                            *)

\* Every node of the plan is in exactly one place: still to do, in flight,
\* succeeded or failed.
PlanInv ==
  /\ succeeded \cap failed = {}
  /\ (todo \cup {cur}) \cap (succeeded \cup failed) = {}
  /\ pc \in AttemptPcs => cur \notin todo
  /\ pc \in AttemptPcs => succeeded \cup failed \cup todo \cup {cur} = Targets(args)
  /\ pc = "next" => succeeded \cup failed \cup todo = Targets(args)
  /\ pc = "done" /\ verdict \in {"ok", "partial"} => succeeded \cup failed = Targets(args)

\* The plan's bookkeeping survives every step of every run.
LEMMA PlanStep ==
  ASSUME DisruptionInv, PlanInv, [Next]_vars
  PROVE  PlanInv'
<1>0. TypeInv /\ TypeInv' /\ RunOK
  BY TypeStep DEF DisruptionInv, GateInv, TypeInv, TypeOK
<1>1. CASE UNCHANGED <<args, todo, cur, succeeded, failed, verdict>> /\ pc' = pc
  BY <1>1 DEF PlanInv, Targets, WorkersToRun
<1>2. CASE UNCHANGED runVars /\ pc \in AttemptPcs /\ pc' \in AttemptPcs \cup {"hung"}
  BY <1>2 DEF PlanInv, runVars, AttemptPcs, Targets, WorkersToRun
<1>3. CASE \E a \in Launches : Launch(a)
  <2>1. PICK a \in Launches : Launch(a)
    BY <1>3
  <2>2. cur = NoNode /\ cur' = NoNode
    BY <1>0, <2>1 DEF Launch, TypeInv, CurOK
  <2>3. /\ succeeded' = {} /\ failed' = {} /\ pc' = "next"
        /\ todo' = Targets(a) /\ args' = a
    BY <2>1 DEF Launch
  <2>4. Targets(args)' = Targets(a)
    BY <2>3 DEF Targets, WorkersToRun
  <2> QED BY <2>2, <2>3, <2>4 DEF PlanInv, AttemptPcs
<1>4. CASE \E n \in Nodes : StartNode(n)
  <2>1. PICK n \in Nodes : StartNode(n)
    BY <1>4
  <2>2. /\ pc = "next" /\ n \in todo /\ cur' = n /\ todo' = todo \ {n} /\ pc' = "timer_stop"
        /\ UNCHANGED <<args, succeeded, failed>>
    BY <2>1 DEF StartNode
  <2>3. Targets(args)' = Targets(args)
    BY <2>2 DEF Targets, WorkersToRun
  <2> QED BY <2>2, <2>3 DEF PlanInv
<1>5. CASE Finish
  <2>1. /\ pc = "next" /\ todo = {} /\ pc' = "done"
        /\ UNCHANGED <<args, todo, cur, succeeded, failed>>
    BY <1>5 DEF Finish, WalkIsOver
  <2>2. Targets(args)' = Targets(args)
    BY <2>1 DEF Targets, WorkersToRun
  <2> QED BY <2>1, <2>2 DEF PlanInv, AttemptPcs
<1>6. CASE TimerStart
  <2>1. /\ pc = "timer_start" /\ cur' = NoNode /\ pc' = "next"
        /\ succeeded' = succeeded \cup {cur} /\ UNCHANGED <<args, todo, failed>>
    BY <1>6 DEF TimerStart, Goto
  <2>2. pc \in AttemptPcs /\ Targets(args)' = Targets(args)
    BY <2>1 DEF AttemptPcs, Pcs, Targets, WorkersToRun
  <2>3. NoNode \notin todo \cup succeeded \cup failed \cup {cur}
    BY <1>0, <2>1, NodeFacts, InFlight DEF RunOK
  <2> QED BY <2>1, <2>2, <2>3 DEF PlanInv, AttemptPcs
<1>7. CASE Fail
  <2>1. /\ pc = "fail" /\ cur' = NoNode /\ UNCHANGED <<args, todo, succeeded>>
        /\ \/ pc' = "next" /\ failed' = failed \cup {cur}
           \/ pc' = "done" /\ verdict' = "error" /\ failed' = failed
    BY <1>7 DEF Fail, Goto
  <2>2. pc \in AttemptPcs /\ Targets(args)' = Targets(args)
    BY <2>1 DEF AttemptPcs, Pcs, Targets, WorkersToRun
  <2>3. NoNode \notin todo \cup succeeded \cup failed \cup {cur}
    BY <1>0, <2>1, NodeFacts, InFlight DEF RunOK
  <2> QED BY <2>1, <2>2, <2>3 DEF PlanInv, AttemptPcs
<1>8. CASE Signal
  <2>1. /\ cur' = NoNode /\ pc' = "done" /\ verdict' = "killed"
        /\ UNCHANGED <<todo, succeeded, failed>>
    BY <1>8 DEF Signal, Goto
  <2>2. NoNode \notin todo \cup succeeded \cup failed
    BY <1>0, NodeFacts DEF RunOK
  <2> QED BY <2>1, <2>2 DEF PlanInv, AttemptPcs
<1>9. CASE \/ TimerStop \/ Drain \/ CaptureBootId \/ UpgradeProbe \/ ApplyStart
           \/ ApplyReturns
  BY <1>2, <1>9 DEF TimerStop, Drain, CaptureBootId, UpgradeProbe, ApplyStart,
                    ApplyReturns, Goto, NextPc, AttemptPcs, Pcs
<1>10. CASE \/ FallbackStage \/ FallbackReboot \/ PostDigest \/ AlreadyCurrent
            \/ KubectlHangs
  BY <1>2, <1>10 DEF FallbackStage, FallbackReboot, PostDigest, AlreadyCurrent,
                     KubectlHangs, Goto, AttemptPcs, Pcs
<1>11. CASE \/ WaitSshDrop \/ WaitSshBack \/ WaitApiserverBack \/ WaitBootIdChanged
            \/ WaitNodeReady \/ WaitDaemonSetsReady \/ Uncordon
  BY <1>2, <1>11 DEF WaitSshDrop, WaitSshBack, WaitApiserverBack, WaitBootIdChanged,
                     WaitNodeReady, WaitDaemonSetsReady, Uncordon, Goto, NextPc,
                     AttemptPcs, Pcs
<1>12. CASE \/ ApiserverStarts \/ UNCHANGED vars
            \/ \E n \in Nodes : \/ RemoteUpgradeDone(n) \/ GoDown(n) \/ BootUp(n)
                                \/ KubeletPosts(n) \/ NodeMonitor(n) \/ TimerStages(n)
  BY <1>1, <1>12 DEF ApiserverStarts, vars, RemoteUpgradeDone, GoDown, BootUp,
                     KubeletPosts, NodeMonitor, TimerStages, runVars
<1> QED BY NextCases, <1>3, <1>4, <1>5, <1>6, <1>7, <1>8, <1>9, <1>10, <1>11, <1>12

\* The summary of a run that reaches its end names every node of the plan once, and
\* hides no cordoned one.
THEOREM SummaryCorrect == Spec => []SummaryIsComplete
<1>1. Init => DisruptionInv /\ PlanInv
  <2>1. Init => PlanInv
    BY DEF Init, PlanInv, AttemptPcs
  <2> QED BY <2>1, DisruptionInit
<1>2. DisruptionInv /\ PlanInv /\ [Next]_vars => (DisruptionInv /\ PlanInv)'
  BY DisruptionStep, PlanStep
<1>3. DisruptionInv /\ PlanInv => SummaryIsComplete
  <2> SUFFICES ASSUME DisruptionInv, PlanInv, pc = "done", verdict \in {"ok", "partial"}
               PROVE  /\ succeeded \cup failed = Targets(args)
                      /\ succeeded \cap failed = {}
                      /\ \A n \in Targets(args) : cordoned[n] => n \in failed \cup left
    BY DEF SummaryIsComplete
  <2>1. cur = NoNode /\ args \in Args
    BY DEF DisruptionInv, GateInv, TypeInv, TypeOK, RunOK, CurOK
  <2>2. \A n \in Targets(args) : n \in Nodes \ {cur}
    BY <2>1, NodeFacts
  <2> QED BY <2>2 DEF DisruptionInv, CordonInv, PlanInv
<1> QED BY <1>1, <1>2, <1>3, PTL DEF Spec

--------------------------------------------------------------------------------
(* The recovery hint.                                                      *)

\* In the first run a cordoned node that is not in flight has had its hint, and the
\* walk will not come back to it; the one in flight was drained by this attempt, so
\* that InFlight::drop will print its hint.
HintInv ==
  /\ runs = 0 => pc = "idle" /\ \A n \in Nodes : ~cordoned[n]
  /\ pc \in {"timer_stop", "drain"} => ~uncordoned
  /\ runs <= 1 =>
       /\ \A n \in Nodes \ {cur} : cordoned[n] => n \in hinted /\ n \notin todo
       /\ pc \in AttemptPcs =>
            (cordoned[cur] => /\ drained /\ ~uncordoned /\ ~args.skipDrain
                              /\ pc \notin {"timer_stop", "drain", "timer_start"})

\* Every step preserves HintInv when a drain that cordons also succeeds and no signal
\* ends the process.
LEMMA HintStep ==
  ASSUME "signal" \notin Faults, "drain" \notin Faults,
         DisruptionInv, PlanInv, HintInv, [Next]_vars
  PROVE  HintInv'
<1>0. /\ TypeInv /\ ApiOK /\ RunOK /\ AttemptOK /\ TypeInv' /\ RunOK' /\ AttemptOK'
      /\ ~cordoned[CP]
  BY TypeStep DEF DisruptionInv, GateInv, CordonInv, TypeInv, TypeOK
<1>1. CASE \E a \in Launches : Launch(a)
  <2>1. /\ cordoned' = cordoned /\ cur' = cur /\ runs' = runs + 1 /\ pc' = "next"
    BY <1>1 DEF Launch, apiVars
  <2>2. pc' \notin AttemptPcs /\ runs' # 0
    BY <1>0, <2>1 DEF AttemptPcs, RunOK
  <2>3. runs' <= 1 => runs = 0
    BY <1>0, <2>1 DEF RunOK
  <2> QED BY <2>1, <2>2, <2>3 DEF HintInv
<1>2. CASE \E n \in Nodes : StartNode(n)
  <2>1. PICK n \in Nodes : StartNode(n)
    BY <1>2
  <2>2. /\ pc = "next" /\ cur = NoNode /\ cur' = n /\ n \in todo /\ pc' = "timer_stop"
        /\ cordoned' = cordoned /\ runs' = runs
        /\ todo' = todo \ {n} /\ hinted' = hinted \ {n} /\ ~uncordoned'
    BY <1>0, <2>1 DEF StartNode, TypeInv, CurOK, apiVars
  <2>3. runs <= 1 => ~cordoned[n]
    BY <2>2, NodeFacts DEF HintInv
  <2> QED BY <2>2, <2>3, NodeFacts DEF HintInv
<1>3. CASE TimerStart
  <2>1. /\ pc = "timer_start" /\ cur' = NoNode /\ pc' = "next"
        /\ UNCHANGED <<cordoned, hinted, todo, runs>>
    BY <1>3 DEF TimerStart, Goto, apiVars, historyVars
  <2>2. pc \in AttemptPcs /\ pc' \notin AttemptPcs
    BY <2>1 DEF AttemptPcs, Pcs
  <2> QED BY <2>1, <2>2 DEF HintInv
<1>4. CASE Fail
  <2>1. /\ pc = "fail" /\ cur' = NoNode /\ pc' \in {"next", "done"}
        /\ hinted' = IF drained /\ ~uncordoned THEN hinted \cup {cur} ELSE hinted
        /\ UNCHANGED <<cordoned, todo, runs>>
    BY <1>4 DEF Fail, PrintsHint, Goto, apiVars
  <2>2. pc \in AttemptPcs /\ pc' \notin AttemptPcs
    BY <2>1 DEF AttemptPcs, Pcs
  <2>3. cur \notin todo
    BY <2>2 DEF PlanInv
  <2> QED BY <2>1, <2>2, <2>3 DEF HintInv
<1>5. CASE Drain
  <2>1. /\ pc = "drain" /\ cur \in Nodes /\ cur' = cur /\ pc' \in {"capture", "fail"}
        /\ UNCHANGED <<hinted, todo, runs, args, uncordoned>>
        /\ \A m \in Nodes \ {cur} : cordoned'[m] = cordoned[m]
        /\ \/ cordoned' = cordoned
           \/ drained' /\ ~args.skipDrain /\ pc' = "capture"
    BY <1>0, <1>5, InFlight DEF Drain, Goto, runVars, historyVars, ApiOK
  <2>2. pc \in AttemptPcs /\ pc' \notin {"timer_stop", "drain", "timer_start"}
    BY <2>1 DEF AttemptPcs, Pcs
  <2>3. runs # 0
    BY <2>1 DEF HintInv
  <2>4. ~uncordoned
    BY <2>1 DEF HintInv
  <2> QED BY <2>1, <2>2, <2>3, <2>4 DEF HintInv
<1>6. CASE AlreadyCurrent
  <2>1. /\ pc = "current" /\ cur \in Nodes /\ cur' = cur /\ pc' \in {"timer_start", "fail"}
        /\ UNCHANGED <<hinted, todo, runs, args, drained>>
        /\ \A m \in Nodes \ {cur} : cordoned'[m] = cordoned[m]
        /\ \/ cordoned' = cordoned /\ uncordoned' = uncordoned
           \/ ~cordoned'[cur]
        /\ pc' = "timer_start" => cur = CP \/ args.skipDrain \/ ~cordoned'[cur]
    BY <1>0, <1>6, InFlight DEF AlreadyCurrent, UncordonsCurrent, Goto, runVars, ApiOK
  <2>2. pc \in AttemptPcs /\ pc' \notin {"timer_stop", "drain", "idle"}
    BY <2>1 DEF AttemptPcs, Pcs
  <2>3. runs # 0
    BY <2>1 DEF HintInv
  <2> QED BY <1>0, <2>1, <2>2, <2>3 DEF HintInv
<1>7. CASE Uncordon
  <2>1. /\ pc = "uncordon" /\ cur \in Nodes /\ cur' = cur /\ pc' \in {"timer_start", "fail"}
        /\ UNCHANGED <<hinted, todo, runs, args, drained>>
        /\ \A m \in Nodes \ {cur} : cordoned'[m] = cordoned[m]
        /\ \/ cordoned' = cordoned /\ uncordoned' = uncordoned /\ pc' = "fail"
           \/ ~cordoned'[cur]
    BY <1>0, <1>7, InFlight DEF Uncordon, Goto, runVars, historyVars, ApiOK
  <2>2. pc \in AttemptPcs /\ pc' \notin {"timer_stop", "drain", "idle"}
    BY <2>1 DEF AttemptPcs, Pcs
  <2>3. runs # 0
    BY <2>1 DEF HintInv
  <2> QED BY <1>0, <2>1, <2>2, <2>3 DEF HintInv
<1>8. CASE /\ UNCHANGED <<cordoned, cur, hinted, todo, runs, drained, uncordoned>>
           /\ pc = "idle" => pc' = "idle"
           /\ pc' \in AttemptPcs => pc \in AttemptPcs /\ args' = args
           /\ pc' \in {"timer_stop", "drain"} => pc \in {"timer_stop", "drain"}
           /\ pc' = "timer_start" => pc = "timer_start" \/ cur = CP
  BY <1>0, <1>8 DEF HintInv
<1>9. CASE \/ TimerStop \/ CaptureBootId \/ UpgradeProbe \/ ApplyStart \/ ApplyReturns
           \/ FallbackStage \/ FallbackReboot \/ PostDigest
  BY <1>8, <1>9
     DEF TimerStop, CaptureBootId, UpgradeProbe, ApplyStart, ApplyReturns, FallbackStage,
         FallbackReboot, PostDigest, Goto, NextPc, AttemptPcs, Pcs, apiVars, runVars,
         attemptVars, historyVars
<1>10. CASE \/ WaitSshDrop \/ WaitSshBack \/ WaitApiserverBack \/ WaitBootIdChanged
            \/ WaitNodeReady \/ WaitDaemonSetsReady
  BY <1>8, <1>10
     DEF WaitSshDrop, WaitSshBack, WaitApiserverBack, WaitBootIdChanged, WaitNodeReady,
         WaitDaemonSetsReady, Goto, NextPc, AttemptPcs, Pcs, apiVars, runVars,
         attemptVars, historyVars
<1>11. CASE Finish \/ KubectlHangs \/ ApiserverStarts \/ UNCHANGED vars
  BY <1>8, <1>11
     DEF Finish, KubectlHangs, ApiserverStarts, vars, AttemptPcs, Pcs, apiVars, runVars,
         attemptVars, historyVars
<1>12. CASE \E n \in Nodes : \/ RemoteUpgradeDone(n) \/ GoDown(n) \/ BootUp(n)
                             \/ KubeletPosts(n) \/ NodeMonitor(n) \/ TimerStages(n)
  BY <1>8, <1>12
     DEF RemoteUpgradeDone, GoDown, BootUp, KubeletPosts, NodeMonitor, TimerStages,
         apiVars, runVars, attemptVars, historyVars
<1>13. ~Signal
  BY DEF Signal
<1> QED BY NextCases, <1>1, <1>2, <1>3, <1>4, <1>5, <1>6, <1>7, <1>9, <1>10, <1>11, <1>12,
           <1>13

\* When the first run on a cluster with no cordoned node ends other than by a signal,
\* every worker it left cordoned has had its `kubectl uncordon` hint printed, whatever
\* command line was typed and whatever else failed.  The hypotheses are the two known
\* holes: a signal runs no destructor, and a drain that fails after its cordon is not
\* marked drained.
THEOREM HintsArePrinted ==
  ASSUME "signal" \notin Faults, "drain" \notin Faults
  PROVE  Spec => [](runs <= 1 => HintForEveryCordonedNode)
<1>1. Init => DisruptionInv /\ PlanInv /\ HintInv
  <2>1. Init => PlanInv
    BY DEF Init, PlanInv, AttemptPcs
  <2>2. Init => HintInv
    BY DEF Init, HintInv, AttemptPcs
  <2> QED BY <2>1, <2>2, DisruptionInit
<1>2. DisruptionInv /\ PlanInv /\ HintInv /\ [Next]_vars
        => (DisruptionInv /\ PlanInv /\ HintInv)'
  BY DisruptionStep, PlanStep, HintStep
<1>3. DisruptionInv /\ PlanInv /\ HintInv => (runs <= 1 => HintForEveryCordonedNode)
  <2> SUFFICES ASSUME DisruptionInv, HintInv, runs <= 1, pc = "done", NEW n \in Workers,
                      cordoned[n]
               PROVE  n \in hinted
    BY DEF HintForEveryCordonedNode
  <2>1. cur = NoNode /\ n \in Nodes
    BY DEF DisruptionInv, GateInv, TypeInv, CurOK, Nodes
  <2> QED BY <2>1, NodeFacts DEF HintInv
<1> QED BY <1>1, <1>2, <1>3, PTL DEF Spec
================================================================================
