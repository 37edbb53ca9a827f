-------------------------- MODULE KubeconfigExport --------------------------
(***************************************************************************)
(* `hbird export-argocd` and `hbird get-kubeconfig` (export_argocd.rs,      *)
(* get_kubeconfig.rs): fetch admin.conf from the control plane, rewrite its *)
(* names and server line by line, and install it at OUTPUT: a check first,  *)
(* a backup with --force, a temporary file and a rename.  Another program   *)
(* may write OUTPUT in between, and the command may be killed anywhere.     *)
(***************************************************************************)
EXTENDS Integers, Sequences

CONSTANTS
  Context,       \* --context names
  MaxExport,     \* bound: exports started
  MaxForeign,    \* bound: writes by other programs
  ExportFaults   \* "io": a file operation fails, "die": the command is killed

VARIABLES
  output,    \* OUTPUT: nothing, a file of somebody, a symlink or a dangling one
  backups,   \* the files OUTPUT.bak-<UTC>, each under a name of its own
  tmpFile,   \* the temporary file of this command
  exStep,    \* where the command is
  exArgs,    \* context, server and --force
  fetched,   \* what the control plane answered
  raced,     \* history: somebody wrote OUTPUT since the command last looked at it
  exports,   \* exports started
  foreigns   \* writes by other programs

exportVars == <<output, backups, tmpFile, exStep, exArgs, fetched, raced, exports, foreigns>>

ASSUME ExportBoundsAssumption == MaxExport \in Nat /\ MaxForeign \in Nat
ASSUME SomeContextAssumption == Context # {}

--------------------------------------------------------------------------------
(* The rewrite.  A line is its shape and its value: a dash or not, an indent  *)
(* or not, a key.                                                             *)

Line(dash, indent, key, value) ==
  [dash |-> dash, indent |-> indent, key |-> key, value |-> value]

\* The admin.conf kubeadm writes.
AdminConf ==
  << Line(FALSE, FALSE, "apiVersion", "v1"),
     Line(FALSE, FALSE, "clusters", ""),
     Line(TRUE, FALSE, "cluster", ""),
     Line(FALSE, TRUE, "server", "https://init"),
     Line(FALSE, TRUE, "name", "kubernetes"),
     Line(FALSE, FALSE, "contexts", ""),
     Line(TRUE, FALSE, "context", ""),
     Line(FALSE, TRUE, "cluster", "kubernetes"),
     Line(FALSE, TRUE, "user", "kubernetes-admin"),
     Line(FALSE, TRUE, "name", "kubernetes-admin@kubernetes"),
     Line(FALSE, FALSE, "current-context", "kubernetes-admin@kubernetes"),
     Line(FALSE, FALSE, "kind", "Config"),
     Line(FALSE, FALSE, "users", ""),
     Line(TRUE, FALSE, "name", "kubernetes-admin"),
     Line(FALSE, TRUE, "user", "") >>

\* What is not that document: nothing, its first line, or, read while kubeadm writes it,
\* everything before the users.
HalfConf == [i \in 1 .. 12 |-> AdminConf[i]]
Answered == {AdminConf, HalfConf, << >>, <<AdminConf[1]>>}

\* match_name_kv: a name that is indented or a list entry.
MatchNameKv(l, target) == l.key = "name" /\ (l.dash \/ l.indent) /\ l.value = target

\* strip_prefix_with_indent: the key at any indent, without a dash.
Keyed(l, key) == l.key = key /\ ~l.dash

KubeadmNames == {"kubernetes-admin@kubernetes", "kubernetes-admin", "kubernetes"}

\* Mutant of rewrite_line: the user's references are not renamed.
RewriteLineNoUser(l, server, ctx) ==
  CASE Keyed(l, "server") -> [l EXCEPT !.value = server]
    [] \/ \E n \in KubeadmNames : MatchNameKv(l, n)
       \/ Keyed(l, "current-context") /\ ~l.indent /\ l.value = "kubernetes-admin@kubernetes"
       \/ Keyed(l, "cluster") /\ l.value = "kubernetes" -> [l EXCEPT !.value = ctx]
    [] OTHER -> l

\* rewrite_line: the server, and the three names and the references to them, which all
\* become the context name.
RewriteLine(l, server, ctx) ==
  CASE Keyed(l, "server") -> [l EXCEPT !.value = server]
    [] \/ \E n \in KubeadmNames : MatchNameKv(l, n)
       \/ Keyed(l, "current-context") /\ ~l.indent /\ l.value = "kubernetes-admin@kubernetes"
       \/ Keyed(l, "user") /\ l.value = "kubernetes-admin"
       \/ Keyed(l, "cluster") /\ l.value = "kubernetes" -> [l EXCEPT !.value = ctx]
    [] OTHER -> l

\* rewrite_kubeconfig.
RewriteKubeconfig(doc, server, ctx) == [i \in DOMAIN doc |-> RewriteLine(doc[i], server, ctx)]

\* sanity_check_kubeconfig.
LooksLikeKubeconfig(doc) ==
  /\ \E i \in DOMAIN doc : doc[i].key = "apiVersion" /\ ~doc[i].dash /\ ~doc[i].indent
  /\ \E i \in DOMAIN doc : doc[i].key = "kind" /\ doc[i].value = "Config"

\* The section of line i is the last top-level key before it.
Section(doc, i) ==
  LET tops == {j \in 1 .. i : ~doc[j].dash /\ ~doc[j].indent}
  IN doc[CHOOSE j \in tops : \A k \in tops : k <= j].key
In(doc, section, key) ==
  {doc[i].value : i \in {j \in DOMAIN doc : doc[j].key = key /\ Section(doc, j) = section}}

\* What kubectl does with a kubeconfig: the current context, its cluster and its user are
\* found by name, and the cluster has the server.
Resolves(doc, server, ctx) ==
  /\ In(doc, "current-context", "current-context") = {ctx}
  /\ ctx \in In(doc, "contexts", "name")
  /\ In(doc, "contexts", "cluster") \subseteq In(doc, "clusters", "name")
  /\ In(doc, "contexts", "user") \subseteq In(doc, "users", "name")
  /\ In(doc, "clusters", "server") = {server}

--------------------------------------------------------------------------------
(* The command.                                                             *)

\* A file: who wrote it, its number, the document in it and the one that was made of.
NoFile == [kind |-> "none", by |-> "nobody", no |-> 0, doc |-> << >>, raw |-> << >>]
Partial == [kind |-> "file", by |-> "hbird", no |-> 0, doc |-> << >>, raw |-> << >>]
Foreign(kind, n) == [kind |-> kind, by |-> "other", no |-> n, doc |-> << >>, raw |-> << >>]
Exported(n, doc, raw) == [kind |-> "file", by |-> "hbird", no |-> n, doc |-> doc, raw |-> raw]
ForeignKinds == {"file", "symlink", "dangling"}

ServerOf(ctx) == <<"https", ctx>>
ExportArgs == [ctx : Context, force : BOOLEAN]
ExportOver == {"idle", "ok", "failed"}

ExportTypeOK ==
  /\ output.kind \in {"none"} \cup ForeignKinds /\ fetched \in Answered
  /\ \A b \in backups : b.kind # "none"
  /\ exStep \in ExportOver \cup {"check", "fetch", "backup", "tmp", "rename"}
  /\ exArgs \in ExportArgs /\ raced \in BOOLEAN
  /\ exports \in 0 .. MaxExport /\ foreigns \in 0 .. MaxForeign

ExportInit ==
  /\ output \in {NoFile} \cup {Foreign(k, 0) : k \in ForeignKinds} /\ backups = {}
  /\ tmpFile = NoFile /\ exStep = "idle" /\ fetched = << >> /\ raced = FALSE
  /\ exArgs = [ctx |-> CHOOSE c \in Context : TRUE, force |-> FALSE]
  /\ exports = 0 /\ foreigns = 0

ExGo(l) ==
  exStep' = l /\ UNCHANGED <<output, backups, tmpFile, exArgs, fetched, raced, exports, foreigns>>
ExIoFails == "io" \in ExportFaults /\ ExGo("failed")

\* ExportOptions::from_args and for_get_kubeconfig: the names and the address resolved.
StartExport ==
  /\ exStep \in ExportOver /\ exports < MaxExport
  /\ exports' = exports + 1 /\ exArgs' \in ExportArgs
  /\ exStep' = "check" /\ tmpFile' = NoFile /\ fetched' = << >> /\ raced' = FALSE
  /\ UNCHANGED <<output, backups, foreigns>>

\* pre_check_output: a symlink is refused, dangling or not, a file without --force too.
PreCheckOutput ==
  /\ exStep = "check"
  /\ ExGo(IF output.kind = "none" \/ (output.kind = "file" /\ exArgs.force)
          THEN "fetch" ELSE "failed")

\* fetch_admin_conf and sanity_check_kubeconfig: what the control plane answered.
FetchAdminConf ==
  /\ exStep = "fetch"
  /\ \/ /\ fetched' \in Answered
        /\ exStep' = IF LooksLikeKubeconfig(fetched') THEN "backup" ELSE "failed"
        /\ UNCHANGED <<output, backups, tmpFile, exArgs, raced, exports, foreigns>>
     \/ ExIoFails

\* Mutant of write_atomic_0600: no backup.
NeverBackedUp == FALSE

\* write_atomic_0600 backs up what --force is about to overwrite; path.exists() follows a
\* symlink, so a dangling one does not exist.
BackedUp == exArgs.force /\ output.kind \in {"file", "symlink"}

BackupOutput ==
  /\ exStep = "backup"
  /\ \/ /\ backups' = IF BackedUp THEN backups \cup {output} ELSE backups
        /\ raced' = (raced /\ ~exArgs.force)
        /\ exStep' = "tmp"
        /\ UNCHANGED <<output, tmpFile, exArgs, fetched, exports, foreigns>>
     \/ ExIoFails

\* The temporary file is written and synced.
WriteTmp ==
  /\ exStep = "tmp"
  /\ \/ /\ tmpFile' =
             Exported(exports, RewriteKubeconfig(fetched, ServerOf(exArgs.ctx), exArgs.ctx),
                      fetched)
        /\ exStep' = "rename"
        /\ UNCHANGED <<output, backups, exArgs, fetched, raced, exports, foreigns>>
     \/ /\ "io" \in ExportFaults
        /\ tmpFile' = Partial /\ exStep' = "failed"
        /\ UNCHANGED <<output, backups, exArgs, fetched, raced, exports, foreigns>>

\* The rename replaces whatever is at OUTPUT by then.
Rename ==
  /\ exStep = "rename"
  /\ \/ /\ output' = tmpFile /\ tmpFile' = NoFile /\ exStep' = "ok"
        /\ UNCHANGED <<backups, exArgs, fetched, raced, exports, foreigns>>
     \/ ExIoFails

\* The command is killed; a copy under way leaves a piece of a backup.
ExportKilled ==
  /\ "die" \in ExportFaults /\ exStep \notin ExportOver
  /\ exStep' = "failed"
  /\ backups' \in IF exStep = "backup" /\ BackedUp
                  THEN {backups, backups \cup {Partial}} ELSE {backups}
  /\ tmpFile' \in IF exStep = "tmp" THEN {NoFile, Partial} ELSE {tmpFile}
  /\ UNCHANGED <<output, exArgs, fetched, raced, exports, foreigns>>

\* Another program writes, links or removes OUTPUT.
ForeignWrite ==
  /\ foreigns < MaxForeign /\ foreigns' = foreigns + 1
  /\ output' \in {NoFile} \cup {Foreign(k, foreigns') : k \in ForeignKinds}
  /\ raced' = TRUE
  /\ UNCHANGED <<backups, tmpFile, exStep, exArgs, fetched, exports>>

ExportNext ==
  \/ StartExport \/ PreCheckOutput \/ FetchAdminConf \/ BackupOutput \/ WriteTmp \/ Rename
  \/ ExportKilled \/ ForeignWrite
ExportSpec == ExportInit /\ [][ExportNext]_exportVars

--------------------------------------------------------------------------------
(* Properties.                                                              *)

\* Wherever exports are killed and files fail, what hbird put at OUTPUT is the rewrite of a
\* document that looks like a kubeconfig, line for line, never a piece of it; and when the
\* control plane answered with its whole admin.conf, kubectl can use it: every name it
\* refers to is in it after the rewrite, and the server is the one asked for.
OutputIsUsable ==
  output.by = "hbird" =>
    /\ LooksLikeKubeconfig(output.doc) /\ DOMAIN output.doc = DOMAIN output.raw
    /\ output.raw = AdminConf =>
         \E ctx \in Context : Resolves(output.doc, ServerOf(ctx), ctx)

\* No file is overwritten without a backup of it, nor a symlink that leads to one, unless
\* another program wrote it after the command last looked: without --force that is the
\* check before the fetch.
OldFileKept ==
  [][exStep = "rename" /\ exStep' = "ok" =>
       output.kind \in {"none", "dangling"} \/ output \in backups \/ raced]_exportVars
=============================================================================
