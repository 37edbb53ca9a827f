---------------------------- MODULE MCEtcdRestore ----------------------------
(* Two snapshot files, any number of backups and restores.                  *)
EXTENDS EtcdRestore
==============================================================================
