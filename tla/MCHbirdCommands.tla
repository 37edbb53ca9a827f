--------------------------- MODULE MCHbirdCommands ---------------------------
(* The commands on a small instance: one VM of each kind, two tags.         *)
EXTENDS HbirdCommands
==============================================================================
