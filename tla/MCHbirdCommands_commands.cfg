\* Every command but the ones with a run of their own; a command that is over stays over.
SPECIFICATION Spec
CONSTANTS
  Target = {"master", "node"}
  MaxRun = 2
  CheckFaults = {"err", "lost", "delete", "die"}
  ControlPlane = {cp}
  Worker = {w1}
  OtherVm = {x1}
  Tag = {v1, v2}
  MaxSwitch = 1
  SwitchFaults = {"net", "lost"}
  Context = {c1, c2}
  MaxExport = 2
  MaxForeign = 2
  ExportFaults = {"io", "die"}
  PipeSize = 1
  MaxChunks = 2
  MaxNetWorkers = 2
  MaxNic = 4
  AddrBits = 2
  MaxLeft = 1
  NetFaults = {"dump", "update"}
  MaxLines = 4
  MaxWords = 2
  CiliumMinors = {9, 14, 16, 18, 19}
  K8sMinors = {9, 18, 26, 30, 31, 34}
INVARIANTS TypeOK PassIsTrue NothingLeftBehind ReportIsFresh WalkCovers OutputIsUsable AnswerIsWhole
INVARIANTS PlanIsSound SameNodes PreflightIsRight
PROPERTIES OldFileKept SshCallReturns
CHECK_DEADLOCK FALSE
