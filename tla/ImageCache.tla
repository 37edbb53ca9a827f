------------------------------ MODULE ImageCache ------------------------------
(***************************************************************************)
(* The image half of `hbird deploy-cluster`: pull or make the two images   *)
(* (plan_image_acquisition), compare the pulled ones with the checkout     *)
(* (cache.rs), and build or reuse one disk template per flavor             *)
(* (build_one_qcow2).  The podman store, the templates, their .build-ref   *)
(* sidecars and the directory bib writes to are shared by every deploy     *)
(* that uses the pool; no lock is taken.                                   *)
(*                                                                         *)
(* A build id sees a part of an image only: the commit in the label of a   *)
(* published one, the hash of the Containerfile of one made here.  The     *)
(* rest (base image, copied files, the config bib is given) is not in it,  *)
(* so two images may have one id.  A published image without a label is    *)
(* one whose inspection fails.                                             *)
(***************************************************************************)
EXTENDS Integers

CONSTANTS
  Deploy,      \* the operators: each runs the command again and again
  Sources,     \* the IMAGE_SOURCEs in use, of "ghcr", "forgejo" and "local"
  Images,      \* bound: what they ever yield, as records source, rev and rest
  None,        \* no image, disk, sidecar or build id
  Partial,     \* what a bib that failed leaves
  PoolIsLocal, \* hbird runs on the KVM host: no --kvm-host
  Exclusive,   \* no two deploys into the pool overlap
  Faults       \* "abort", "inspect", "sidecar", "edit"

Flavors == {"cp", "worker"}
Registries == {"ghcr", "forgejo"}

ASSUME SourcesAssumption == Sources \subseteq Registries \cup {"local"}
ASSUME ImagesAssumption ==
  /\ Images \subseteq [source: Sources, rev: Nat, rest: Nat]
  /\ \A s \in Sources : \E i \in Images : i.source = s
ASSUME PoolAssumption == PoolIsLocal \in BOOLEAN /\ Exclusive \in BOOLEAN

\* What compute_expected_build_id returns and the sidecar holds: "source:id".
BuildIds == [source: Sources, rev: Nat]
\* A disk bib finished: what it was made from.
Disks == [image: Images, flavor: Flavors]
\* What the command line and the config say.
Args == [source: Sources, strict: BOOLEAN, force: BOOLEAN]

ASSUME NoneAssumption ==
  /\ None \notin BuildIds \cup Disks \cup Args \cup Images
  /\ Partial \notin Disks \cup {None}

VARIABLES
  origin,    \* what a pull, or a make in the checkout, yields now
  store,     \* the images in the podman store
  staging,   \* <pool>/qcow2/disk.qcow2
  template,  \* hummingbird-k8s-deploy.qcow2 and hummingbird-k8s-worker-deploy.qcow2
  sidecar,   \* their .build-ref files
  unsealed,  \* history: flavors whose template was replaced without its sidecar
  pc,        \* the next call of each deploy
  flavor,    \* the flavor it is at
  args,      \* its command line
  expected   \* expected_id of the flavor it is at

poolVars == <<staging, template, sidecar, unsealed>>
imageVars == <<origin, store>>
vars == <<imageVars, poolVars, pc, flavor, args, expected>>

Active == {"pull", "assess", "expect", "cache", "bib", "move", "clear", "seal"}
Ended == {"done", "failed"}

TypeOK ==
  /\ origin \in [Sources -> Images] /\ \A s \in Sources : origin[s].source = s
  /\ store \in [Sources -> [Flavors -> Images \cup {None}]]
  /\ staging \in Disks \cup {None, Partial}
  /\ template \in [Flavors -> Disks \cup {None}]
  /\ sidecar \in [Flavors -> BuildIds \cup {None}]
  /\ unsealed \subseteq Flavors
  /\ pc \in [Deploy -> {"idle"} \cup Active \cup Ended]
  /\ flavor \in [Deploy -> Flavors]
  /\ args \in [Deploy -> Args \cup {None}]
  /\ expected \in [Deploy -> BuildIds \cup {None}]

Init ==
  /\ origin \in [Sources -> Images] /\ \A s \in Sources : origin[s].source = s
  /\ store = [s \in Sources |-> [f \in Flavors |-> None]]
  /\ staging = None
  /\ template = [f \in Flavors |-> None]
  /\ sidecar = [f \in Flavors |-> None]
  /\ unsealed = {}
  /\ pc = [d \in Deploy |-> "idle"]
  /\ flavor = [d \in Deploy |-> "cp"]
  /\ args = [d \in Deploy |-> None]
  /\ expected = [d \in Deploy |-> None]

Running == {d \in Deploy : pc[d] \in Active}

--------------------------------------------------------------------------------
(* cache.rs: the decisions.                                                *)

\* Mutant of assess_qcow2_cache: a missing build id is fine under STRICT_CACHE too.
AssessLenient(cached, wanted, strict) ==
  IF \/ None \in {cached, wanted}
     \/ cached.source # wanted.source
     \/ cached = wanted
  THEN "reuse"
  ELSE IF strict THEN "strictFail" ELSE "rebuild"

\* assess_qcow2_cache: CacheAssessResult.
AssessQcow2Cache(cached, wanted, strict) ==
  IF None \in {cached, wanted}
  THEN IF strict THEN "strictFail" ELSE "reuse"
  ELSE IF cached.source # wanted.source \/ cached = wanted THEN "reuse"
       ELSE IF strict THEN "strictFail" ELSE "rebuild"

\* containerfile_changed_since: ImageFreshness of a pulled image.  vcs is its
\* label, or None; a checkout that cannot be asked proves nothing.
Freshness(vcs, inTree, checkout) ==
  IF vcs = None \/ ~checkout THEN "unverifiable"
  ELSE IF vcs = inTree THEN "inSync" ELSE "drifted"

\* assess_ghcr_image: whether the deploy goes on, with or without a warning.
AssessGhcrImage(freshness, strict) == freshness = "inSync" \/ ~strict


\* build_id: the source and what the label, or the Containerfile's hash, says.
BuildId(image) == [source |-> image.source, rev |-> image.rev]

--------------------------------------------------------------------------------
(* plan_image_acquisition.                                                 *)

Goto(d, l) == pc' = [pc EXCEPT ![d] = l] /\ UNCHANGED <<store, flavor, args, expected>>

\* What an earlier deploy left in the podman store is never read: each pulls first.
StoreAfter(d) ==
  IF Running \ {d} = {} THEN [s \in Sources |-> [f \in Flavors |-> None]] ELSE store

\* The process is gone with all it knew.
End(d, outcome) ==
  /\ store' = StoreAfter(d)
  /\ pc' = [pc EXCEPT ![d] = outcome]
  /\ flavor' = [flavor EXCEPT ![d] = "cp"]
  /\ args' = [args EXCEPT ![d] = None]
  /\ expected' = [expected EXCEPT ![d] = None]

\* The next flavor of a loop over both, or the next phase from the CP on.
NextFlavor(d, again, then) ==
  \/ /\ flavor[d] = "cp"
     /\ flavor' = [flavor EXCEPT ![d] = "worker"]
     /\ pc' = [pc EXCEPT ![d] = again]
     /\ UNCHANGED <<store, args, expected>>
  \/ /\ flavor[d] = "worker" /\ then # "done"
     /\ flavor' = [flavor EXCEPT ![d] = "cp"]
     /\ pc' = [pc EXCEPT ![d] = then]
     /\ UNCHANGED <<store, args, expected>>
  \/ /\ flavor[d] = "worker" /\ then = "done"
     /\ End(d, "done")

\* An operator's next run of the command.
Start(d) ==
  /\ pc[d] \in {"idle"} \cup Ended
  /\ Exclusive => Running = {}
  /\ \E a \in Args : args' = [args EXCEPT ![d] = a]
  /\ pc' = [pc EXCEPT ![d] = "pull"]
  /\ UNCHANGED <<imageVars, poolVars, flavor, expected>>

\* podman pull, or make image-*-with-cloud-init: both flavors, then the checks.
Pull(d) ==
  LET s == args[d].source  f == flavor[d] IN
  /\ pc[d] = "pull"
  /\ store' = [store EXCEPT ![s][f] = origin[s]]
  /\ flavor' = [flavor EXCEPT ![d] = IF f = "cp" THEN "worker" ELSE "cp"]
  /\ pc' = [pc EXCEPT ![d] = IF f = "cp" THEN "pull"
                             ELSE IF s \in Registries THEN "assess" ELSE "expect"]
  /\ UNCHANGED <<origin, poolVars, args, expected>>

\* image_vcs_ref asks the podman of the machine hbird runs on, and its default
\* store: the pulled image may not be there.
AssessImage(d) ==
  LET s == args[d].source  f == flavor[d] IN
  /\ pc[d] = "assess"
  /\ \E seen, checkout \in BOOLEAN :
       LET vcs == IF seen /\ PoolIsLocal THEN store[s][f].rev ELSE None
           tree == IF "local" \in Sources THEN origin["local"].rev ELSE 1
       IN IF AssessGhcrImage(Freshness(vcs, tree, checkout), args[d].strict)
          THEN NextFlavor(d, "assess", "expect")
          ELSE End(d, "failed")
  /\ UNCHANGED <<origin, poolVars>>

--------------------------------------------------------------------------------
(* build_one_qcow2.                                                        *)

\* Mutant of compute_expected_build_id: the label of the CP image stands for both.
ExpectedFromCp(d) ==
  LET s == args[d].source IN
  BuildId(IF s \in Registries THEN store[s]["cp"] ELSE origin[s])

\* compute_expected_build_id: the label of the stored image, or the hash of the
\* Containerfile as it is now, and nothing else of what the disk will be made of.
ExpectedId(d) ==
  LET s == args[d].source IN
  BuildId(IF s \in Registries THEN store[s][flavor[d]] ELSE origin[s])

Expect(d) ==
  /\ pc[d] = "expect"
  /\ \/ expected' = [expected EXCEPT ![d] = ExpectedId(d)]
     \/ /\ "inspect" \in Faults /\ args[d].source \in Registries
        /\ expected' = [expected EXCEPT ![d] = None]
  /\ pc' = [pc EXCEPT ![d] = "cache"]
  /\ UNCHANGED <<imageVars, poolVars, flavor, args>>

\* The template and its sidecar are looked for on the machine hbird runs on.
TemplateSeen(f) == PoolIsLocal /\ template[f] # None

\* Why assess_qcow2_cache said reuse.
ReuseReason(cached, wanted) ==
  IF None \in {cached, wanted} THEN "unverified"
  ELSE IF cached = wanted THEN "match" ELSE "crossSource"

CacheCheck(d) ==
  LET f == flavor[d]
      result == AssessQcow2Cache(sidecar[f], expected[d], args[d].strict)
      checked == TemplateSeen(f) /\ ~args[d].force
  IN
  /\ pc[d] = "cache"
  /\ \/ checked /\ result = "reuse" /\ NextFlavor(d, "expect", "done")
     \/ checked /\ result = "strictFail" /\ End(d, "failed")
     \/ (checked => result = "rebuild") /\ Goto(d, "bib")
  /\ UNCHANGED <<origin, poolVars>>

\* The disk bib makes of the stored image, if it finishes.
BuiltDisk(d) ==
  [image |-> store[args[d].source][flavor[d]], flavor |-> flavor[d]]

\* Mutant of the check of bib's exit status: a failed bib is followed by the move.
AfterBibAlways(d, whole) == Goto(d, "move")

\* The `?` on bib: only a bib that finished is followed by the move.
AfterBib(d, whole) == IF whole THEN Goto(d, "move") ELSE End(d, "failed")

\* The pubkey, the bib config and `podman run ... bib`.  A bib that fails has
\* written nothing or a part of the disk.
Bib(d) ==
  /\ pc[d] = "bib"
  /\ \E whole \in BOOLEAN :
       /\ ~whole => "abort" \in Faults
       /\ staging' \in IF whole THEN {BuiltDisk(d)} ELSE {staging, Partial}
       /\ AfterBib(d, whole)
  /\ UNCHANGED <<origin, template, sidecar, unsealed>>

\* mv: without a disk to move it fails.
Move(d) ==
  LET f == flavor[d] IN
  /\ pc[d] = "move"
  /\ \/ /\ staging = None
        /\ End(d, "failed") /\ UNCHANGED poolVars
     \/ /\ staging # None
        /\ template' = [template EXCEPT ![f] = staging]
        /\ staging' = None
        /\ unsealed' = unsealed \cup {f}
        /\ Goto(d, "clear") /\ UNCHANGED sidecar
  /\ UNCHANGED origin

\* rm -rf of bib's output directory, whoever's it is by now.
ClearStaging(d) ==
  /\ pc[d] = "clear"
  /\ staging' = None
  /\ Goto(d, "seal")
  /\ UNCHANGED <<origin, template, sidecar, unsealed>>

\* Mutant of the sidecar write: it is done for the control plane's template only.
SealCpOnly(d) == [sidecar EXCEPT !["cp"] = expected[d]]

\* The sidecar the build leaves.
Sealed(d) == [sidecar EXCEPT ![flavor[d]] = expected[d]]

\* The pool refreshes and the sidecar, all best-effort; without an expected id an
\* older sidecar stays.
WriteSidecar(d) ==
  /\ pc[d] = "seal"
  /\ \/ /\ expected[d] # None
        /\ sidecar' = Sealed(d)
        /\ unsealed' = unsealed \ {flavor[d]}
     \/ /\ expected[d] = None \/ "sidecar" \in Faults
        /\ UNCHANGED <<sidecar, unsealed>>
  /\ NextFlavor(d, "expect", "done")
  /\ UNCHANGED <<origin, staging, template>>

\* A call fails, or the process dies, before its effect; Bib has its own failure,
\* and a failure after the effect is one of the next call.
Abort(d) ==
  /\ "abort" \in Faults
  /\ pc[d] \in {"pull", "expect", "move", "clear", "seal"}
  /\ End(d, "failed")
  /\ UNCHANGED <<origin, poolVars>>

--------------------------------------------------------------------------------
(* clean-vms, the registries and the working tree.                         *)

\* clean-vms sweeps the templates, which have the prefix, and not their sidecars.
CleanVms ==
  /\ Running = {}
  /\ template' = [f \in Flavors |-> None]
  /\ UNCHANGED <<imageVars, staging, sidecar, unsealed, pc, flavor, args, expected>>

\* A release is published, or rebuilt from the same commit; or the operator edits a
\* Containerfile or another input of the local images, while a deploy runs only with
\* the fault "edit".
Publish(s) ==
  /\ s = "local" /\ Running # {} => "edit" \in Faults
  /\ \E i \in Images \ {origin[s]} : i.source = s /\ origin' = [origin EXCEPT ![s] = i]
  /\ UNCHANGED <<store, poolVars, pc, flavor, args, expected>>

Next ==
  \/ \E d \in Deploy :
       \/ Start(d) \/ Pull(d) \/ AssessImage(d) \/ Expect(d) \/ CacheCheck(d)
       \/ Bib(d) \/ Move(d) \/ ClearStaging(d) \/ WriteSidecar(d) \/ Abort(d)
  \/ CleanVms
  \/ \E s \in Sources : Publish(s)

Spec == Init /\ [][Next]_vars

--------------------------------------------------------------------------------
(* Properties.                                                             *)

\* A sidecar is the id of the image its template was built from, unless the build that
\* replaced the template has not written its own sidecar: the sidecar is the only
\* evidence assess_qcow2_cache has.
SidecarIsTrue ==
  \A f \in Flavors \ unsealed :
    None \notin {sidecar[f], template[f]} => sidecar[f] = BuildId(template[f].image)

\* The step with which the deploy settles on the template of its flavor.
Settles(d) == pc[d] \in {"cache", "seal"} /\ pc'[d] \in {"expect", "done"}

\* That template is of the flavor and of the image the deploy pulled or made.
Delivered(d) ==
  LET s == args[d].source  f == flavor[d] IN
  template[f] = [image |-> store[s][f], flavor |-> f]

\* It is of the flavor, the source and the commit or Containerfile of that image, and of
\* what else was in it when the template was built.
DeliveredRev(d) ==
  LET image == store[args[d].source][flavor[d]]  kept == template[flavor[d]] IN
  /\ kept.flavor = flavor[d]
  /\ kept.image.source = image.source /\ kept.image.rev = image.rev

Reused(d) == pc[d] = "cache"
ReusedFor(d, reason) == Reused(d) /\ ReuseReason(sidecar[flavor[d]], expected[d]) = reason

\* Wherever earlier deploys were cut off, a deploy that builds a template settles on one of
\* its own flavor and of the very image it pulled or made.  One that reuses a template has
\* its flavor, source and commit or Containerfile (and not always the very image: what else
\* goes into it is not in the id), but for three: a template whose sidecar is of another
\* source, one that matches a sidecar older than a cut-off build, and, without
\* STRICT_CACHE, one whose freshness cannot be told.
TemplateIsFresh ==
  [][\A d \in Deploy : Settles(d) =>
       \/ Delivered(d)
       \/ ReusedFor(d, "match") /\ (DeliveredRev(d) \/ flavor[d] \in unsealed)
       \/ ReusedFor(d, "crossSource")
       \/ ReusedFor(d, "unverified") /\ ~args[d].strict]_vars

\* docs/boot-test-overrides.md: STRICT_CACHE=1 fails closed on a sidecar of another
\* source, so a strict deploy never settles on a template of another source or commit.
StrictFailsClosed ==
  [][\A d \in Deploy : Settles(d) /\ args[d].strict => DeliveredRev(d)]_vars
================================================================================
