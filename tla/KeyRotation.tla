------------------------------ MODULE KeyRotation ------------------------------
(***************************************************************************)
(* `hbird etcd rotate-key` (run_rotate_key in etcd.rs): install a config   *)
(* with a new primary key beside the old ones, restart the apiserver,      *)
(* rewrite every Secret and ConfigMap, install a config with the new key   *)
(* alone, restart again and verify.  The apiserver encrypts what it writes *)
(* with the primary key of the config it read when it started, and reads   *)
(* what any key of that config decrypts.                                   *)
(*                                                                         *)
(* A rotation brings one fresh key, which has the rotation's name here.    *)
(***************************************************************************)
EXTENDS FiniteSets

CONSTANTS
  Rotation,      \* the runs of the command
  Row,           \* the Secrets and ConfigMaps
  BootstrapKey,  \* the key written by k8s-init.sh
  Plain,         \* a row the identity provider reads: written before encryption was on
  NoConfig,      \* the staging file does not exist
  PromptReload,  \* the apiserver restarts within APISERVER_WARMUP_SECS of the touch
  Exclusive      \* no two rotations, their remote commands included, overlap

Key == Rotation \cup {BootstrapKey}

\* The aesgcm keys: the first one encrypts, all of them decrypt.
Config == [primary: Key, keys: SUBSET Key]

ASSUME NamesAssumption ==
  BootstrapKey \notin Rotation /\ Plain \notin Key /\ NoConfig \notin Config
ASSUME PromptReloadAssumption == PromptReload \in BOOLEAN
ASSUME ExclusiveAssumption == Exclusive \in BOOLEAN

VARIABLES
  \* the control plane
  file,      \* /etc/kubernetes/encryption-config.yaml
  upload,    \* encryption-config.yaml.new
  touched,   \* the manifest was touched and the apiserver has not restarted since
  serving,   \* the apiserver answers
  loaded,    \* the config it runs with
  rows,      \* what each row is encrypted with
  \* the command
  pc,        \* the next call of each rotation
  stage,     \* the config it installs next or has installed last: 1 or 3
  before,    \* the config it fetched
  todo       \* rows its `kubectl replace` has not rewritten yet

cpVars == <<file, upload, touched, serving, loaded, rows>>
vars == <<cpVars, pc, stage, before, todo>>

Active == {"upload", "install", "touch", "health", "list", "replace", "verify"}
Ended == {"done", "aborted"}

TypeOK ==
  /\ file \in Config /\ loaded \in Config
  /\ upload \in Config \cup {NoConfig}
  /\ touched \in BOOLEAN /\ serving \in BOOLEAN
  /\ rows \in [Row -> Key \cup {Plain}]
  /\ pc \in [Rotation -> {"idle"} \cup Active \cup Ended]
  /\ stage \in [Rotation -> {1, 3}]
  /\ before \in [Rotation -> Config]
  /\ todo \in [Rotation -> SUBSET Row]

Bootstrap == [primary |-> BootstrapKey, keys |-> {BootstrapKey}]

Init ==
  /\ file = Bootstrap /\ loaded = Bootstrap
  /\ upload = NoConfig
  /\ touched = FALSE /\ serving = TRUE
  /\ rows \in [Row -> {BootstrapKey, Plain}]
  /\ pc = [r \in Rotation |-> "idle"]
  /\ stage = [r \in Rotation |-> 1]
  /\ before = [r \in Rotation |-> Bootstrap]
  /\ todo = [r \in Rotation |-> {}]

Decrypts(config, row) == rows[row] \in config.keys \cup {Plain}

--------------------------------------------------------------------------------
(* The configs.                                                            *)

\* Mutant of insert_primary_key: the new key replaces the old ones.
ReplacePrimaryKey(config, k) == [primary |-> k, keys |-> {k}]

\* insert_primary_key.
InsertPrimaryKey(config, k) == [primary |-> k, keys |-> config.keys \cup {k}]

\* Mutant of drop_non_primary_keys: the old keys stay.
KeepAllKeys(config) == config

\* drop_non_primary_keys.
DropNonPrimaryKeys(config) == [primary |-> config.primary, keys |-> {config.primary}]

Dual(r) == InsertPrimaryKey(before[r], r)
ToInstall(r) == IF stage[r] = 1 THEN Dual(r) ELSE DropNonPrimaryKeys(Dual(r))

--------------------------------------------------------------------------------
(* run_rotate_key, one action per remote effect.                           *)

Goto(r, label) == pc' = [pc EXCEPT ![r] = label]

\* Stage 0: rotate_fetch_config.
Fetch(r) ==
  /\ pc[r] = "idle"
  /\ Exclusive => \A q \in Rotation : pc[q] \notin Active
  /\ before' = [before EXCEPT ![r] = file]
  /\ Goto(r, "upload")
  /\ UNCHANGED <<cpVars, stage, todo>>

\* rotate_install_config: the upload, and the two commands of the script that
\* matter, in Stage 1 and again in Stage 3.
Upload(r) ==
  /\ pc[r] = "upload"
  /\ upload' = ToInstall(r)
  /\ Goto(r, "install")
  /\ UNCHANGED <<file, touched, serving, loaded, rows, stage, before, todo>>

Install(r) ==
  /\ pc[r] = "install"
  /\ upload # NoConfig
  /\ file' = upload
  /\ upload' = NoConfig
  /\ Goto(r, "touch")
  /\ UNCHANGED <<touched, serving, loaded, rows, stage, before, todo>>

Touch(r) ==
  /\ pc[r] = "touch"
  /\ touched' = TRUE
  /\ Goto(r, "health")
  /\ UNCHANGED <<file, upload, serving, loaded, rows, stage, before, todo>>

\* Mutant of Healthy: neither the warm-up nor the health check.
NoHealthCheck == TRUE

\* The 30 s sleep, then /healthz: an answer, whoever gives it.
Healthy == serving /\ (PromptReload => ~touched)

\* rotate_healthz.
Healthz(r) ==
  /\ pc[r] = "health"
  /\ Healthy
  /\ Goto(r, IF stage[r] = 1 THEN "list" ELSE "verify")
  /\ UNCHANGED <<cpVars, stage, before, todo>>

\* rotate_reencrypt: `kubectl get -A` fails on a row nobody can decrypt.
List(r) ==
  /\ pc[r] = "list"
  /\ serving
  /\ \A row \in Row : Decrypts(loaded, row)
  /\ todo' = [todo EXCEPT ![r] = Row]
  /\ Goto(r, "replace")
  /\ UNCHANGED <<cpVars, stage, before>>

ReplaceRow(r, row) ==
  /\ pc[r] = "replace"
  /\ serving
  /\ row \in todo[r]
  /\ rows' = [rows EXCEPT ![row] = loaded.primary]
  /\ todo' = [todo EXCEPT ![r] = @ \ {row}]
  /\ UNCHANGED <<file, upload, touched, serving, loaded, pc, stage, before>>

\* On to Stage 3.
Reencrypted(r) ==
  /\ pc[r] = "replace"
  /\ todo[r] = {}
  /\ stage' = [stage EXCEPT ![r] = 3]
  /\ Goto(r, "upload")
  /\ UNCHANGED <<cpVars, before, todo>>

\* Stage 4: a fresh Secret must carry the new key's name.
Verify(r) ==
  /\ pc[r] = "verify"
  /\ serving
  /\ loaded.primary = r
  /\ Goto(r, "done")
  /\ UNCHANGED <<cpVars, stage, before, todo>>

\* A declined prompt, a call that fails (before its effect, or after it when the
\* answer is lost), Ctrl-C: nothing is undone.
Abort(r) ==
  /\ pc[r] \in Active
  /\ Goto(r, "aborted")
  /\ UNCHANGED <<cpVars, stage, before, todo>>

--------------------------------------------------------------------------------
(* The apiserver and its clients.                                          *)

ApiserverStops ==
  /\ serving
  /\ serving' = FALSE
  /\ UNCHANGED <<file, upload, touched, loaded, rows, pc, stage, before, todo>>

ApiserverStarts ==
  /\ ~serving
  /\ serving' = TRUE
  /\ loaded' = file
  /\ touched' = FALSE
  /\ UNCHANGED <<file, upload, rows, pc, stage, before, todo>>

ClientWrites(row) ==
  /\ serving
  /\ rows' = [rows EXCEPT ![row] = loaded.primary]
  /\ UNCHANGED <<file, upload, touched, serving, loaded, pc, stage, before, todo>>

Step(r) ==
  \/ Fetch(r) \/ Upload(r) \/ Install(r) \/ Touch(r) \/ Healthz(r) \/ List(r)
  \/ (\E row \in Row : ReplaceRow(r, row))
  \/ Reencrypted(r) \/ Verify(r) \/ Abort(r)

Next ==
  \/ \E r \in Rotation : Step(r)
  \/ ApiserverStops \/ ApiserverStarts
  \/ \E row \in Row : ClientWrites(row)

Spec == Init /\ [][Next]_vars

--------------------------------------------------------------------------------
(* Properties.                                                             *)

\* "A wrong-order step doesn't make every existing Secret unreadable" and "a partial
\* run is recoverable" (docs/etcd-encryption.md): the running apiserver, and the one
\* that the next restart brings, decrypts every row, wherever rotations are cut off.
RowsReadable == \A row \in Row : Decrypts(loaded, row) /\ Decrypts(file, row)

\* drop_non_primary_keys, "the old key material is no longer in use": after a completed
\* rotation, until the next one installs its key, neither the config, the apiserver nor
\* any row knows another key.
OldKeyRetired ==
  \A r \in Rotation :
    pc[r] = "done" /\ file.primary = r
      => /\ file.keys = {r} /\ loaded = file
         /\ \A row \in Row : rows[row] = r

\* Where the new key has got to, stage by stage.
StageInv(r) ==
  /\ stage[r] = 1 /\ pc[r] \in {"upload", "install"} => before[r] = file
  /\ pc[r] = "install" => upload = ToInstall(r)
  /\ stage[r] = 1 /\ pc[r] \in Active \ {"upload", "install"} => file = Dual(r)
  /\ pc[r] \in {"list", "replace"} => loaded = file /\ stage[r] = 1
  /\ pc[r] = "health" /\ ~touched => loaded = file
  /\ pc[r] = "replace" => \A row \in Row \ todo[r] : rows[row] = r
  /\ stage[r] = 3 /\ pc[r] \in Active
       => file.primary = r /\ loaded.primary = r /\ \A row \in Row : rows[row] = r
  /\ stage[r] = 3 /\ pc[r] \in {"touch", "health", "verify"} => file.keys = {r}
  /\ pc[r] = "verify" => loaded = file /\ stage[r] = 3
  /\ pc[r] = "idle" => stage[r] = 1

OneActive == \A r, q \in Rotation : pc[r] \in Active /\ pc[q] \in Active => r = q

\* What the apiserver may still write, both configs decrypt.
PrimariesListed ==
  loaded.primary \in loaded.keys \cap file.keys /\ file.primary \in file.keys

\* The inductive form: at most one rotation at a time, its stage as above, and every
\* key that a row has or may still get is in both configs.
IndInv ==
  /\ TypeOK /\ OneActive /\ PrimariesListed
  /\ RowsReadable
  /\ \A r \in Rotation : StageInv(r)
  /\ OldKeyRetired
================================================================================
