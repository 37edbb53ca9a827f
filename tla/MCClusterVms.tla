---------------------------- MODULE MCClusterVms ----------------------------
(* One control plane, one worker of the config and one spawned worker.     *)
EXTENDS ClusterVms
=============================================================================
