----------------------------- MODULE MCUpdateLock -----------------------------
(***************************************************************************)
(* Invocations for the runs of UpdateLock.                                 *)
(***************************************************************************)
EXTENDS UpdateLock

CONSTANTS r1, r2, r3

OneInvocation == {r1}
TwoInvocations == {r1, r2}
ThreeInvocations == {r1, r2, r3}
================================================================================
