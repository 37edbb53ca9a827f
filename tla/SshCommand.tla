----------------------------- MODULE SshCommand -----------------------------
(***************************************************************************)
(* One remote command over hbird-ssh (Client::run, Client::run_with_stdin,  *)
(* wait_with_timeout in hbird-ssh/src/lib.rs): spawn ssh, write its stdin,  *)
(* then wait for it while its output is read, with or without a budget.     *)
(* stdin and output are pipes of bounded size; the child reads and writes   *)
(* in any order, may leave early, and may stop doing anything at all.  A    *)
(* helper process of ssh (ProxyJump) can hold the output pipe open after    *)
(* the child is gone.                                                       *)
(***************************************************************************)
EXTENDS Integers

CONSTANTS
  PipeSize,      \* bound: chunks a pipe holds
  MaxChunks      \* bound: chunks of stdin, and of output

ASSUME SshBoundsAssumption == PipeSize \in Nat \ {0} /\ MaxChunks \in Nat

VARIABLES
  opts,      \* the command: with a budget or not, stdin chunks, identity file there
  sshStep,   \* where run_inner_impl is
  answer,    \* what it returned
  left,      \* stdin chunks not written yet
  inPipe,    \* chunks in the stdin pipe
  eof,       \* the parent has closed the stdin pipe
  child,     \* "none", "running", "zombie", "reaped"
  stuck,     \* the child does nothing any more: the connection is dead
  status,    \* its exit status
  toSay,     \* chunks the child has still to write
  outPipe,   \* chunks in the output pipe
  got,       \* chunks read by the parent
  helper,    \* a helper process holds the output pipe open
  late       \* the budget is used up

sshVars ==
  <<opts, sshStep, answer, left, inPipe, eof, child, stuck, status, toSay, outPipe, got,
    helper, late>>
childVars == <<child, stuck, status, toSay, helper>>
pipeVars == <<left, inPipe, eof, outPipe, got>>

SshSteps == {"spawn", "write", "wait", "join", "timeout", "reap", "done"}
Answers == {"none", "ok", "nonzero", "timeout", "stdin", "spawn", "identity", "wait"}

SshTypeOK ==
  /\ opts \in [budget : BOOLEAN, stdin : 0 .. MaxChunks, identity : BOOLEAN, jump : BOOLEAN]
  /\ sshStep \in SshSteps /\ answer \in Answers
  /\ left \in 0 .. MaxChunks /\ inPipe \in 0 .. PipeSize /\ eof \in BOOLEAN
  /\ child \in {"none", "running", "zombie", "reaped"} /\ stuck \in BOOLEAN
  /\ status \in {"ok", "nonzero"} /\ toSay \in 0 .. MaxChunks
  /\ outPipe \in 0 .. PipeSize /\ got \in 0 .. MaxChunks
  /\ helper \in BOOLEAN /\ late \in BOOLEAN

SshInit ==
  /\ opts \in [budget : BOOLEAN, stdin : 0 .. MaxChunks, identity : BOOLEAN, jump : BOOLEAN]
  /\ sshStep = "spawn" /\ answer = "none"
  /\ left = opts.stdin /\ inPipe = 0 /\ eof = FALSE
  /\ child = "none" /\ stuck = FALSE /\ status = "ok"
  /\ toSay \in 0 .. MaxChunks /\ outPipe = 0 /\ got = 0
  /\ helper = FALSE /\ late = FALSE

Return(a) ==
  sshStep' = "done" /\ answer' = a /\ UNCHANGED <<opts, childVars, pipeVars, late>>

--------------------------------------------------------------------------------
(* run_inner_impl.                                                          *)

\* An identity file that is not there, or ssh that cannot be started.
SpawnFails ==
  /\ sshStep = "spawn"
  /\ Return(IF opts.identity THEN "spawn" ELSE "identity")

\* The child is started, stdin is a pipe or /dev/null.
Spawn ==
  /\ sshStep = "spawn" /\ opts.identity
  /\ child' = "running" /\ helper' = opts.jump
  /\ sshStep' = IF opts.stdin > 0 THEN "write" ELSE "wait"
  /\ eof' = (opts.stdin = 0)
  /\ UNCHANGED <<opts, answer, left, inPipe, stuck, status, toSay, outPipe, got, late>>

\* write_all, chunk by chunk: it blocks while the pipe is full.
WriteStdin ==
  /\ sshStep = "write" /\ left > 0 /\ inPipe < PipeSize /\ child = "running"
  /\ left' = left - 1 /\ inPipe' = inPipe + 1
  /\ UNCHANGED <<opts, sshStep, answer, eof, childVars, outPipe, got, late>>

\* The handle is dropped, the child sees the end of its input.
CloseStdin ==
  /\ sshStep = "write" /\ left = 0
  /\ eof' = TRUE /\ sshStep' = "wait"
  /\ UNCHANGED <<opts, answer, left, inPipe, childVars, outPipe, got, late>>

\* The child is gone: the write fails, and the child is waited for before the error.
StdinWriteFails ==
  /\ sshStep = "write" /\ left > 0 /\ child = "zombie"
  /\ eof' = TRUE /\ sshStep' = "reap"
  /\ UNCHANGED <<opts, answer, left, inPipe, childVars, outPipe, got, late>>

ReapAfterStdin ==
  /\ sshStep = "reap" /\ child = "zombie"
  /\ child' = "reaped" /\ sshStep' = "done" /\ answer' = "stdin"
  /\ UNCHANGED <<opts, stuck, status, toSay, helper, pipeVars, late>>

\* The output is read while the parent waits: by two threads under a budget, by
\* wait_with_output otherwise.
Drain ==
  /\ sshStep \in {"wait", "join", "timeout"} /\ outPipe > 0
  /\ outPipe' = outPipe - 1 /\ got' = got + 1
  /\ UNCHANGED <<opts, sshStep, answer, left, inPipe, eof, childVars, late>>

\* The readers end when the pipe is empty and nobody holds it open.
OutputEnded == outPipe = 0 /\ ~helper /\ child # "running"

\* try_wait, or the wait at the end of wait_with_output.
Wait ==
  /\ sshStep = "wait" /\ child = "zombie"
  /\ child' = "reaped" /\ sshStep' = "join"
  /\ UNCHANGED <<opts, answer, stuck, status, toSay, helper, pipeVars, late>>

\* Error::Wait: the operating system refuses the wait.  The child is neither killed nor
\* reaped, and under a budget its readers are not joined.
WaitFails == sshStep = "wait" /\ Return("wait")

\* Mutant of wait_with_timeout: the readers are not joined.
NotJoined == TRUE

\* The readers are joined before the output is taken.
Joined == OutputEnded

JoinReaders ==
  /\ sshStep = "join" /\ Joined
  /\ Return(status)

\* Mutant of wait_with_timeout: the child is left to itself.
LeftRunning == child

\* The child is killed and reaped.
KilledChild == "reaped"

\* The budget is used up: kill, wait, then join the readers.
Expire ==
  /\ sshStep = "wait" /\ opts.budget /\ late
  /\ child' = KilledChild /\ sshStep' = "timeout"
  /\ UNCHANGED <<opts, answer, stuck, status, toSay, helper, pipeVars, late>>

JoinAfterTimeout ==
  /\ sshStep = "timeout" /\ Joined
  /\ Return("timeout")

\* The clock of the budget starts with the wait.
Tick ==
  /\ sshStep = "wait" /\ opts.budget /\ ~late
  /\ late' = TRUE
  /\ UNCHANGED <<opts, sshStep, answer, childVars, pipeVars>>

--------------------------------------------------------------------------------
(* The child and its helper.                                                *)

ChildReads ==
  /\ child = "running" /\ ~stuck /\ inPipe > 0
  /\ inPipe' = inPipe - 1
  /\ UNCHANGED <<opts, sshStep, answer, left, eof, childVars, outPipe, got, late>>

\* A write blocks while the pipe is full.
ChildWrites ==
  /\ child = "running" /\ ~stuck /\ toSay > 0 /\ outPipe < PipeSize
  /\ toSay' = toSay - 1 /\ outPipe' = outPipe + 1
  /\ UNCHANGED <<opts, sshStep, answer, left, inPipe, eof, child, stuck, status, got, helper, late>>

\* It ends when it has said everything, having read its input or not.
ChildExits ==
  /\ child = "running" /\ ~stuck /\ toSay = 0
  /\ child' = "zombie" /\ status' \in {"ok", "nonzero"}
  /\ UNCHANGED <<opts, sshStep, answer, stuck, toSay, helper, pipeVars, late>>

\* The network goes away and ssh has no keepalive.
ChildStuck ==
  /\ child = "running" /\ ~stuck
  /\ stuck' = TRUE
  /\ UNCHANGED <<opts, sshStep, answer, child, status, toSay, helper, pipeVars, late>>

\* The helper sees its ssh gone.
HelperExits ==
  /\ helper /\ child \in {"zombie", "reaped"}
  /\ helper' = FALSE
  /\ UNCHANGED <<opts, sshStep, answer, child, stuck, status, toSay, pipeVars, late>>

ClientStep ==
  \/ SpawnFails \/ Spawn \/ WriteStdin \/ CloseStdin \/ StdinWriteFails \/ ReapAfterStdin
  \/ Drain \/ Wait \/ JoinReaders \/ Expire \/ JoinAfterTimeout
ChildStep == ChildReads \/ ChildWrites \/ ChildExits
SshNext == ClientStep \/ WaitFails \/ Tick \/ ChildStep \/ ChildStuck \/ HelperExits

\* hbird runs on, time passes, a child that is not stuck does what it can and a helper
\* without its ssh ends.
SshFairness ==
  /\ WF_sshVars(ClientStep) /\ WF_sshVars(Tick) /\ WF_sshVars(ChildStep)
  /\ WF_sshVars(HelperExits)
SshSpec == SshInit /\ [][SshNext]_sshVars /\ SshFairness

--------------------------------------------------------------------------------
(* Properties.                                                              *)

\* An answer other than an error before the wait is the child's whole output, everything it
\* wrote before it ended, and no child is left, running or a zombie, whatever the answer,
\* but for the wait the operating system itself refuses (Error::Wait).
AnswerIsWhole ==
  sshStep = "done" =>
    /\ child \in {"none", "reaped"} \/ answer = "wait"
    /\ answer \in {"ok", "nonzero"} => outPipe = 0 /\ toSay = 0 /\ answer = status

\* A command returns, but for two cases the budget does not reach: no budget was set and
\* the connection died, or the parent still writes stdin to a child that is stuck or that
\* waits for its own output to be read, which does not begin before stdin is written.
CallReturns ==
  <>(\/ sshStep = "done"
     \/ stuck /\ (~opts.budget \/ sshStep \in {"write", "reap"})
     \/ sshStep = "write" /\ outPipe = PipeSize /\ toSay > 0)
=============================================================================
