--------------------------- MODULE ExclusiveSection ---------------------------
(***************************************************************************)
(* What the update-cluster lock promises: of all invocations on a host, at *)
(* most one at a time is in its rolling update.                            *)
(***************************************************************************)
CONSTANT Invocation
VARIABLE section      \* the invocations in their rolling update

Init == section = {}

Enter(r) == section = {} /\ section' = {r}
Leave(r) == r \in section /\ section' = section \ {r}

Next == \E r \in Invocation : Enter(r) \/ Leave(r)

Spec == Init /\ [][Next]_section
================================================================================
