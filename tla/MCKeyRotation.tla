---------------------------- MODULE MCKeyRotation ----------------------------
(***************************************************************************)
(* Rotations and rows for the runs of KeyRotation.                         *)
(***************************************************************************)
EXTENDS KeyRotation

CONSTANTS k0, k1, k2, k3, plain, none, secret, configmap

OneRotation == {k1}
ThreeRotations == {k1, k2, k3}
TwoRows == {secret, configmap}
==============================================================================
