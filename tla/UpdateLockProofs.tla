--------------------------- MODULE UpdateLockProofs ---------------------------
(***************************************************************************)
(* The update-cluster lock, for any number of invocations: with a prompt   *)
(* flock(1) the inductive invariant IndInv holds, and with it mutual       *)
(* exclusion and the refinement of ExclusiveSection.                       *)
(***************************************************************************)
EXTENDS UpdateLock, TLAPS

\* The steps of the program, one level above the actions.
LEMMA NextCases ==
  ASSUME Next
  PROVE  \E r \in Invocation :
           \/ SpawnChild(r) \/ ChildTries(r) \/ ProbeTries(r) \/ ProbeExits(r)
           \/ ReportBusy(r) \/ TakeLock(r) \/ Bail(r) \/ InstallHandler(r)
           \/ DropGuard(r) \/ ChildExits(r) \/ HandlerKills(r) \/ HandlerDies(r)
           \/ Die(r)
BY DEF Next, Progress

\* Every action keeps the three variables in their types.
LEMMA TypeStep ==
  ASSUME TypeOK, Next
  PROVE  TypeOK'
<1>1. PICK r \in Invocation :
           \/ SpawnChild(r) \/ ChildTries(r) \/ ProbeTries(r) \/ ProbeExits(r)
           \/ ReportBusy(r) \/ TakeLock(r) \/ Bail(r) \/ InstallHandler(r)
           \/ DropGuard(r) \/ ChildExits(r) \/ HandlerKills(r) \/ HandlerDies(r)
           \/ Die(r)
  BY NextCases
<1> USE DEF TypeOK, Live, Ended, ChildStates, ProbeStates
<1>2. CASE SpawnChild(r)     BY <1>2 DEF SpawnChild
<1>3. CASE ChildTries(r)     BY <1>3 DEF ChildTries
<1>4. CASE ProbeTries(r)     BY <1>4 DEF ProbeTries
<1>5. CASE ProbeExits(r)     BY <1>5 DEF ProbeExits
<1>6. CASE ReportBusy(r)     BY <1>6 DEF ReportBusy
<1>7. CASE TakeLock(r)       BY <1>7 DEF TakeLock
<1>8. CASE Bail(r)           BY <1>8 DEF Bail
<1>9. CASE InstallHandler(r) BY <1>9 DEF InstallHandler
<1>10. CASE DropGuard(r)     BY <1>10 DEF DropGuard, GroupKilled
<1>11. CASE ChildExits(r)    BY <1>11 DEF ChildExits
<1>12. CASE HandlerKills(r)  BY <1>12 DEF HandlerKills, GroupKilled
<1>13. CASE HandlerDies(r)   BY <1>13 DEF HandlerDies
<1>14. CASE Die(r)           BY <1>14 DEF Die
<1> QED BY <1>1, <1>2, <1>3, <1>4, <1>5, <1>6, <1>7, <1>8, <1>9, <1>10, <1>11, <1>12,
           <1>13, <1>14

\* Init establishes the inductive invariant: nobody has a helper.
LEMMA InitInd == Init => IndInv
BY DEF Init, IndInv, TypeOK, Live, Ended, ChildStates, ProbeStates, ChildHolds,
       LockHeldWhileRunning, EndedReleases, InSection

\* Every step of a prompt system preserves it.  The step that matters is TakeLock:
\* a helper that is neither starting nor refused is the one that has the lock.
LEMMA StepInd ==
  ASSUME PromptFlock, IndInv, [Next]_vars
  PROVE  IndInv'
<1> USE DEF IndInv, LockHeldWhileRunning, EndedReleases, InSection, ChildHolds
<1>1. CASE UNCHANGED vars
  BY <1>1 DEF vars, TypeOK
<1>2. CASE Next
  <2>1. TypeOK'
    BY <1>2, TypeStep
  <2>2. PICK r \in Invocation :
             \/ SpawnChild(r) \/ ChildTries(r) \/ ProbeTries(r) \/ ProbeExits(r)
             \/ ReportBusy(r) \/ TakeLock(r) \/ Bail(r) \/ InstallHandler(r)
             \/ DropGuard(r) \/ ChildExits(r) \/ HandlerKills(r) \/ HandlerDies(r)
             \/ Die(r)
    BY <1>2, NextCases
  <2> USE <2>1 DEF TypeOK
  <2>3. CASE SpawnChild(r)     BY <2>3 DEF SpawnChild
  <2>4. CASE ChildTries(r)
    <3>1. CASE LockFree
      BY <2>4, <3>1 DEF ChildTries, LockFree
    <3>2. CASE ~LockFree
      BY <2>4, <3>2 DEF ChildTries
    <3> QED BY <3>1, <3>2
  <2>5. CASE ProbeTries(r)     BY <2>5 DEF ProbeTries
  <2>6. CASE ProbeExits(r)     BY <2>6 DEF ProbeExits
  <2>7. CASE ReportBusy(r)     BY <2>7 DEF ReportBusy, Settled
  <2>8. CASE TakeLock(r)       BY <2>8 DEF TakeLock, Settled, TakenByChild
  <2>9. CASE Bail(r)           BY <2>9 DEF Bail, Settled
  <2>10. CASE InstallHandler(r) BY <2>10 DEF InstallHandler
  <2>11. CASE DropGuard(r)     BY <2>11 DEF DropGuard, GroupKilled
  <2>12. CASE ChildExits(r)    BY <2>12 DEF ChildExits
  <2>13. CASE HandlerKills(r)  BY <2>13 DEF HandlerKills, GroupKilled
  <2>14. CASE HandlerDies(r)   BY <2>14 DEF HandlerDies
  <2>15. CASE Die(r)           BY <2>15 DEF Die, Live
  <2> QED BY <2>2, <2>3, <2>4, <2>5, <2>6, <2>7, <2>8, <2>9, <2>10, <2>11, <2>12,
             <2>13, <2>14, <2>15
<1> QED BY <1>1, <1>2

\* acquire_lock, LockGuard::drop and the signal handler keep the inductive invariant,
\* for every set of invocations.
THEOREM IndInvariant == PromptFlock => (Spec => []IndInv)
<1> SUFFICES ASSUME PromptFlock PROVE Spec => []IndInv
  OBVIOUS
<1>1. Init => IndInv
  BY InitInd
<1>2. IndInv /\ [Next]_vars => IndInv'
  BY StepInd
<1> QED BY <1>1, <1>2, PTL DEF Spec

\* Two rolling updates never run at once, for every set of invocations.
THEOREM Exclusive == PromptFlock => (Spec => []MutualExclusion)
<1> SUFFICES ASSUME PromptFlock PROVE Spec => []MutualExclusion
  OBVIOUS
<1>1. IndInv => MutualExclusion
  BY DEF IndInv, MutualExclusion, LockHeldWhileRunning, ChildHolds
<1> QED BY <1>1, IndInvariant, PTL

\* The lock implements the abstract section: only TakeLock enters it, and it finds
\* it empty; only the end of an invocation, or its signal, leaves it.
THEOREM Refinement == PromptFlock => (Spec => ImplementsSection)
<1> SUFFICES ASSUME PromptFlock PROVE Spec => Section!Spec
  BY DEF ImplementsSection
<1> DEFINE sec == {r \in Invocation : InSection(r)}
<1>1. Init => Section!Init
  BY DEF Init, Section!Init, InSection
<1>2. IndInv /\ IndInv' /\ [Next]_vars => [Section!Next]_sec
  <2> SUFFICES ASSUME IndInv, IndInv', [Next]_vars PROVE [Section!Next]_sec
    OBVIOUS
  <2>1. CASE UNCHANGED vars
    BY <2>1 DEF vars, InSection
  <2>2. CASE Next
    <3>1. PICK r \in Invocation :
               \/ SpawnChild(r) \/ ChildTries(r) \/ ProbeTries(r) \/ ProbeExits(r)
               \/ ReportBusy(r) \/ TakeLock(r) \/ Bail(r) \/ InstallHandler(r)
               \/ DropGuard(r) \/ ChildExits(r) \/ HandlerKills(r) \/ HandlerDies(r)
               \/ Die(r)
      BY <2>2, NextCases
    <3>2. pc \in [Invocation -> {"idle"} \cup Live \cup Ended]
      BY DEF IndInv, TypeOK
    \* Steps that leave the main thread on its side of the section.
    <3>3. CASE \/ SpawnChild(r) \/ ChildTries(r) \/ ProbeTries(r) \/ ProbeExits(r)
               \/ ReportBusy(r) \/ Bail(r) \/ InstallHandler(r) \/ ChildExits(r)
               \/ HandlerDies(r)
      <4>1. \A q \in Invocation : InSection(q)' <=> InSection(q)
        BY <3>2, <3>3 DEF InSection, SpawnChild, ChildTries, ProbeTries, ProbeExits,
                  ReportBusy, Bail, Settled, InstallHandler, ChildExits, HandlerDies
      <4> QED BY <4>1
    <3>4. CASE TakeLock(r)
      <4>1. InSection(r)' /\ ~InSection(r)
        BY <3>2, <3>4 DEF TakeLock, Settled, InSection
      <4>2. \A q \in Invocation : InSection(q)' => q = r
        BY <4>1 DEF IndInv, LockHeldWhileRunning, ChildHolds
      <4>3. \A q \in Invocation : ~InSection(q)
        BY <3>2, <3>4, <4>1, <4>2 DEF TakeLock, InSection
      <4>4. sec = {} /\ sec' = {r}
        BY <4>1, <4>2, <4>3
      <4>5. Section!Enter(r)
        BY <4>4 DEF Section!Enter
      <4> QED BY <4>5 DEF Section!Next
    <3>5. CASE DropGuard(r) \/ HandlerKills(r) \/ Die(r)
      <4>1. ~InSection(r)'
        BY <3>2, <3>5 DEF DropGuard, HandlerKills, Die, InSection
      <4>2. \A q \in Invocation \ {r} : InSection(q)' <=> InSection(q)
        BY <3>2, <3>5 DEF DropGuard, HandlerKills, Die, InSection
      <4>3. CASE InSection(r)
        <5>1. r \in sec /\ sec' = sec \ {r}
          BY <4>1, <4>2, <4>3
        <5>2. Section!Leave(r)
          BY <5>1 DEF Section!Leave
        <5> QED BY <5>2 DEF Section!Next
      <4>4. CASE ~InSection(r)
        BY <4>1, <4>2, <4>4
      <4> QED BY <4>3, <4>4
    <3> QED BY <3>1, <3>3, <3>4, <3>5
  <2> QED BY <2>1, <2>2
<1> QED BY <1>1, <1>2, IndInvariant, PTL DEF Spec, Section!Spec
================================================================================
