--------------------------- MODULE ImageCacheProofs ---------------------------
(***************************************************************************)
(* The image cache, for any number of operators, sources, images and       *)
(* faults, when deploys into the pool do not overlap and no input of the   *)
(* local images is edited under a running deploy: sidecars tell the truth  *)
(* about their templates, and a deploy settles on what it pulled or made,  *)
(* as far as a build id can tell.                                          *)
(***************************************************************************)
EXTENDS ImageCache, TLAPS

\* Deploys do not overlap.
OneRuns == \A d, e \in Deploy : pc[d] \in Active /\ pc[e] \in Active => d = e

\* The image the deploy pulled or made for a flavor.
Image(d, f) == store[args[d].source][f]

\* The deploy has the image of the flavor; one made from the checkout is of the checkout.
Has(d, f) ==
  /\ Image(d, f) \in Images /\ Image(d, f).source = args[d].source
  /\ args[d].source \notin Registries => Image(d, f) = origin[args[d].source]

\* The calls of a deploy after it computed expected_id of its flavor.
Knows == {"cache", "bib", "move", "clear", "seal"}

\* What a deploy knows and has made of its flavor, by the call it is at.
Progress(d) ==
  /\ pc[d] \notin Active => flavor[d] = "cp"
  /\ pc[d] \in Active => args[d] \in Args
  /\ pc[d] = "pull" /\ flavor[d] = "worker" => Has(d, "cp")
  /\ pc[d] \in Active \ {"pull"} => Has(d, "cp") /\ Has(d, "worker")
  /\ pc[d] \in Knows =>
       expected[d] \in {None, BuildId(Image(d, flavor[d]))}
  /\ pc[d] = "move" => staging = BuiltDisk(d)
  /\ pc[d] \in {"clear", "seal"} => template[flavor[d]] = BuiltDisk(d)

\* A template is of the flavor it is named after.
TemplatesNamed == \A f \in Flavors : template[f] # None => template[f].flavor = f

IndInv ==
  /\ TypeOK /\ OneRuns /\ TemplatesNamed /\ SidecarIsTrue
  /\ \A d \in Deploy : Progress(d)

--------------------------------------------------------------------------------
(* Facts the steps share.                                                  *)

\* The actions Next is made of.
LEMMA NextCases ==
  ASSUME [Next]_vars
  PROVE \/ \E d \in Deploy :
             \/ Start(d) \/ Pull(d) \/ AssessImage(d) \/ Expect(d) \/ CacheCheck(d)
             \/ Bib(d) \/ Move(d) \/ ClearStaging(d) \/ WriteSidecar(d) \/ Abort(d)
        \/ CleanVms
        \/ \E s \in Sources : Publish(s)
        \/ UNCHANGED vars
  BY DEF Next

\* A deploy that has its images: their revisions, build id and disk are of their kind.
LEMMA ImageTypes ==
  ASSUME IndInv, NEW d \in Deploy, pc[d] \in Active \ {"pull"}
  PROVE /\ args[d] \in Args /\ args[d].source \in Sources /\ flavor[d] \in Flavors
        /\ Image(d, flavor[d]) \in Images
        /\ BuildId(Image(d, flavor[d])) \in BuildIds
        /\ BuiltDisk(d) \in Disks
<1>1. args[d] \in Args /\ flavor[d] \in Flavors
  BY DEF IndInv, Progress, TypeOK
<1>2. args[d].source \in Sources
  BY <1>1 DEF Args
<1>3. Image(d, flavor[d]) \in Images
  BY <1>1 DEF IndInv, Progress, Has, Flavors
<1>4. BuiltDisk(d) \in Disks
  BY <1>1, <1>2, <1>3 DEF BuiltDisk, Disks, Image
<1>5. BuildId(Image(d, flavor[d])) \in BuildIds
  BY <1>3, ImagesAssumption DEF BuildId, BuildIds
<1> QED
  BY <1>1, <1>2, <1>3, <1>4, <1>5

\* When one deploy steps or starts, the others rest, and stay as they are.
LEMMA OthersRest ==
  ASSUME IndInv, NEW d \in Deploy, pc[d] \in Active \/ Running = {},
         \A e \in Deploy \ {d} : pc'[e] = pc[e] /\ flavor'[e] = flavor[e]
  PROVE OneRuns' /\ \A e \in Deploy \ {d} : Progress(e)'
<1>1. ASSUME NEW e \in Deploy \ {d} PROVE pc'[e] \notin Active /\ flavor'[e] = "cp"
  BY <1>1 DEF IndInv, OneRuns, Progress, Running
<1>2. ASSUME NEW e \in Deploy \ {d} PROVE Progress(e)'
  BY <1>1, <1>2 DEF Progress, Active, Knows
<1> QED
  BY <1>1, <1>2 DEF OneRuns

\* A step that leaves the templates and sidecars alone.
LEMMA PoolStays ==
  ASSUME IndInv, UNCHANGED <<template, sidecar, unsealed>>
  PROVE TemplatesNamed' /\ SidecarIsTrue'
  BY DEF IndInv, TemplatesNamed, SidecarIsTrue, BuildId

\* A deploy that ends leaves nothing it knew behind, and the pool as it is.
LEMMA EndInd ==
  ASSUME IndInv, NEW d \in Deploy, pc[d] \in Active, NEW o \in Ended, End(d, o),
         UNCHANGED <<origin, template, sidecar, unsealed>>,
         staging' \in Disks \cup {None, Partial}
  PROVE IndInv'
<1> USE DEF End
<1>1. store' \in [Sources -> [Flavors -> Images \cup {None}]]
  BY DEF StoreAfter, IndInv, TypeOK
<1>2. /\ pc' \in [Deploy -> {"idle"} \cup Active \cup Ended]
      /\ flavor' \in [Deploy -> Flavors]
      /\ args' \in [Deploy -> Args \cup {None}]
      /\ expected' \in [Deploy -> BuildIds \cup {None}]
  BY DEF IndInv, TypeOK, Flavors
<1>3. TypeOK'
  BY <1>1, <1>2 DEF IndInv, TypeOK
<1>4. OneRuns' /\ \A e \in Deploy \ {d} : Progress(e)'
  BY OthersRest DEF IndInv, TypeOK
<1>5. TemplatesNamed' /\ SidecarIsTrue'
  BY PoolStays
<1>6. pc'[d] = o /\ flavor'[d] = "cp"
  BY DEF IndInv, TypeOK
<1>7. Progress(d)'
  BY <1>6 DEF Progress, Active, Knows, Ended
<1> QED
  BY <1>3, <1>4, <1>5, <1>7 DEF IndInv

\* A deploy that goes on to the next flavor, or to the next phase, keeps its images.
LEMMA NextFlavorInd ==
  ASSUME IndInv, NEW d \in Deploy, pc[d] \in Active \ {"pull"},
         NEW again \in {"assess", "expect"}, NEW then \in {"expect", "done"},
         NextFlavor(d, again, then), UNCHANGED <<origin, staging>>,
         TypeOK', TemplatesNamed', SidecarIsTrue'
  PROVE IndInv'
<1>1. OneRuns' /\ \A e \in Deploy \ {d} : Progress(e)'
  BY OthersRest DEF NextFlavor, End, IndInv, TypeOK
<1>2. ASSUME UNCHANGED <<store, args>>, pc'[d] \in {"assess", "expect"} PROVE Progress(d)'
  BY <1>2 DEF Progress, Active, Knows, IndInv, Has, Image
<1>3. ASSUME End(d, "done") PROVE Progress(d)'
  <2>1. pc'[d] = "done" /\ flavor'[d] = "cp"
    BY <1>3 DEF End, IndInv, TypeOK
  <2> QED
    BY <2>1 DEF Progress, Active, Knows
<1>4. (UNCHANGED <<store, args>> /\ pc'[d] \in {"assess", "expect"}) \/ End(d, "done")
  BY DEF NextFlavor, IndInv, TypeOK
<1>5. Progress(d)'
  BY <1>2, <1>3, <1>4
<1> QED
  BY <1>1, <1>5 DEF IndInv

\* The types of what such a step changes of the deploy.
LEMMA NextFlavorTypes ==
  ASSUME TypeOK, NEW d \in Deploy,
         NEW again \in {"assess", "expect"}, NEW then \in {"expect", "done"},
         NextFlavor(d, again, then)
  PROVE /\ store' \in [Sources -> [Flavors -> Images \cup {None}]]
        /\ pc' \in [Deploy -> {"idle"} \cup Active \cup Ended]
        /\ flavor' \in [Deploy -> Flavors]
        /\ args' \in [Deploy -> Args \cup {None}]
        /\ expected' \in [Deploy -> BuildIds \cup {None}]
<1>1. store' \in [Sources -> [Flavors -> Images \cup {None}]]
  BY DEF NextFlavor, End, StoreAfter, TypeOK
<1>2. pc' \in [Deploy -> {"idle"} \cup Active \cup Ended]
  BY DEF NextFlavor, End, TypeOK, Active, Ended
<1>3. flavor' \in [Deploy -> Flavors]
  BY DEF NextFlavor, End, TypeOK, Flavors
<1>4. /\ args' \in [Deploy -> Args \cup {None}]
      /\ expected' \in [Deploy -> BuildIds \cup {None}]
  BY DEF NextFlavor, End, TypeOK
<1> QED BY <1>1, <1>2, <1>3, <1>4

--------------------------------------------------------------------------------
(* One lemma per action.                                                   *)

\* A deploy starts with nothing when no other runs.
LEMMA StartInd ==
  ASSUME IndInv, Exclusive, NEW d \in Deploy, Start(d)
  PROVE IndInv'
<1> USE DEF Start, imageVars, poolVars
<1>1. TypeOK'
  BY DEF IndInv, TypeOK, Active
<1>2. OneRuns' /\ \A e \in Deploy \ {d} : Progress(e)'
  BY OthersRest DEF IndInv, TypeOK
<1>3. TemplatesNamed' /\ SidecarIsTrue'
  BY PoolStays
<1>4. pc[d] \notin Active /\ flavor[d] = "cp"
  BY DEF IndInv, Progress, Active, Ended
<1>5. pc'[d] = "pull" /\ args'[d] \in Args /\ flavor'[d] = "cp"
  BY <1>4 DEF IndInv, TypeOK
<1>6. Progress(d)'
  BY <1>5 DEF Progress, Active, Knows
<1> QED
  BY <1>1, <1>2, <1>3, <1>6 DEF IndInv

\* A pull leaves the deploy with the image as it is now; the second keeps the first.
LEMMA PullInd ==
  ASSUME IndInv, NEW d \in Deploy, Pull(d)
  PROVE IndInv'
<1> DEFINE s == args[d].source
           f == flavor[d]
<1> USE DEF Pull, poolVars
<1>1. pc[d] = "pull" /\ pc[d] \in Active /\ args[d] \in Args /\ f \in Flavors
  BY DEF IndInv, Progress, TypeOK, Active
<1>2. s \in Sources /\ origin[s] \in Images /\ origin[s].source = s
  BY <1>1 DEF Args, IndInv, TypeOK
<1>3. store' = [store EXCEPT ![s][f] = origin[s]]
  OBVIOUS
<1>4. store' \in [Sources -> [Flavors -> Images \cup {None}]]
  BY <1>1, <1>2, <1>3 DEF IndInv, TypeOK
<1>5. TypeOK'
  BY <1>4, <1>1 DEF IndInv, TypeOK, Active, Flavors
<1>6. OneRuns' /\ \A e \in Deploy \ {d} : Progress(e)'
  BY <1>1, OthersRest DEF IndInv, TypeOK
<1>7. TemplatesNamed' /\ SidecarIsTrue'
  BY PoolStays
<1>8. args'[d] = args[d] /\ origin' = origin
  OBVIOUS
<1>9. store'[s][f] = origin[s]
      /\ \A g \in Flavors : g # f => store'[s][g] = store[s][g]
  BY <1>1, <1>2, <1>3 DEF IndInv, TypeOK
<1>10. ASSUME NEW g \in Flavors, g = f PROVE Has(d, g)'
  BY <1>2, <1>8, <1>9, <1>10 DEF Has, Image
<1>11. CASE f = "cp"
  <2>1. pc'[d] = "pull" /\ flavor'[d] = "worker"
    BY <1>11 DEF IndInv, TypeOK
  <2>2. Has(d, "cp")'
    BY <1>10, <1>11 DEF Flavors
  <2>3. Progress(d)'
    BY <2>1, <2>2, <1>1, <1>8 DEF Progress, Active, Knows
  <2> QED
    BY <2>3, <1>6, <1>5, <1>7 DEF IndInv
<1>12. CASE f # "cp"
  <2>1. f = "worker"
    BY <1>1, <1>12 DEF Flavors
  <2>2. pc'[d] \in {"assess", "expect"}
    BY <1>12 DEF IndInv, TypeOK
  <2>3. Has(d, "cp")'
    BY <1>1, <1>8, <1>9, <2>1 DEF IndInv, Progress, Has, Image, Flavors
  <2>4. Has(d, "worker")'
    BY <1>10, <2>1 DEF Flavors
  <2>5. Progress(d)'
    BY <1>1, <1>8, <2>2, <2>3, <2>4 DEF Progress, Active, Knows
  <2> QED
    BY <2>5, <1>6, <1>5, <1>7 DEF IndInv
<1> QED
  BY <1>11, <1>12

\* The comparison with the checkout ends the deploy or goes on to the next flavor.
LEMMA AssessInd ==
  ASSUME IndInv, NEW d \in Deploy, AssessImage(d)
  PROVE IndInv'
<1> USE DEF AssessImage, poolVars
<1>1. pc[d] \in Active \ {"pull"}
  BY DEF Active
<1>2. NextFlavor(d, "assess", "expect") \/ End(d, "failed")
  OBVIOUS
<1>3. ASSUME NextFlavor(d, "assess", "expect") PROVE IndInv'
  <2>1. TypeOK'
    BY <1>3, NextFlavorTypes DEF IndInv, TypeOK
  <2> QED
    BY <1>1, <1>3, <2>1, PoolStays, NextFlavorInd
<1>4. ASSUME End(d, "failed") PROVE IndInv'
  BY <1>1, <1>4, EndInd DEF Ended, IndInv, TypeOK
<1> QED
  BY <1>2, <1>3, <1>4

\* The expected id is that of the image the deploy has: the label of the pulled one, or
\* the Containerfile the made one is of.
LEMMA ExpectInd ==
  ASSUME IndInv, NEW d \in Deploy, Expect(d)
  PROVE IndInv'
<1> USE DEF Expect, imageVars, poolVars
<1>1. pc[d] \in Active \ {"pull"}
  BY DEF Active
<1>2. ExpectedId(d) = BuildId(Image(d, flavor[d]))
  BY <1>1, ImageTypes DEF ExpectedId, Image, IndInv, Progress, Has, Flavors
<1>3. ExpectedId(d) \in BuildIds
  BY <1>1, <1>2, ImageTypes
<1>4. TypeOK'
  BY <1>3 DEF IndInv, TypeOK, Active
<1>5. OneRuns' /\ \A e \in Deploy \ {d} : Progress(e)'
  BY <1>1, OthersRest DEF IndInv, TypeOK
<1>6. TemplatesNamed' /\ SidecarIsTrue'
  BY PoolStays
<1>7. pc'[d] = "cache" /\ expected'[d] \in {None, BuildId(Image(d, flavor[d]))}
  BY <1>2 DEF IndInv, TypeOK
<1>8. Progress(d)'
  BY <1>1, <1>7 DEF IndInv, Progress, Has, Image, Active, Knows, BuildId
<1> QED
  BY <1>4, <1>5, <1>6, <1>8 DEF IndInv

\* A deploy that goes to another call of its flavor changes nothing of it.
LEMMA GotoFacts ==
  ASSUME IndInv, NEW d \in Deploy, pc[d] \in Active \ {"pull"}, NEW l \in Knows, Goto(d, l),
         UNCHANGED origin
  PROVE /\ pc' \in [Deploy -> {"idle"} \cup Active \cup Ended] /\ pc'[d] = l
        /\ UNCHANGED <<store, flavor, args, expected>>
        /\ OneRuns' /\ \A e \in Deploy \ {d} : Progress(e)'
        /\ args'[d] \in Args /\ Has(d, "cp")' /\ Has(d, "worker")'
        /\ UNCHANGED <<Image(d, flavor[d]), BuiltDisk(d)>>
<1> USE DEF Goto
<1>1. pc' \in [Deploy -> {"idle"} \cup Active \cup Ended] /\ pc'[d] = l
  BY DEF IndInv, TypeOK, Active, Knows
<1>2. OneRuns' /\ \A e \in Deploy \ {d} : Progress(e)'
  BY OthersRest DEF IndInv, TypeOK
<1>3. args'[d] \in Args /\ Has(d, "cp")' /\ Has(d, "worker")'
  BY DEF IndInv, Progress, Has, Image
<1>4. UNCHANGED <<Image(d, flavor[d]), BuiltDisk(d)>>
  BY DEF Image, BuiltDisk
<1> QED
  BY <1>1, <1>2, <1>3, <1>4

\* The cache check changes nothing but the deploy's call.
LEMMA CacheInd ==
  ASSUME IndInv, NEW d \in Deploy, CacheCheck(d)
  PROVE IndInv'
<1> USE DEF CacheCheck, poolVars
<1>1. pc[d] = "cache" /\ pc[d] \in Active \ {"pull"}
  BY DEF Active
<1>2. NextFlavor(d, "expect", "done") \/ End(d, "failed") \/ Goto(d, "bib")
  OBVIOUS
<1>3. ASSUME NextFlavor(d, "expect", "done") PROVE IndInv'
  <2>1. TypeOK'
    BY <1>3, NextFlavorTypes DEF IndInv, TypeOK
  <2> QED
    BY <1>1, <1>3, <2>1, PoolStays, NextFlavorInd
<1>4. ASSUME End(d, "failed") PROVE IndInv'
  BY <1>1, <1>4, EndInd DEF Ended, IndInv, TypeOK
<1>5. ASSUME Goto(d, "bib") PROVE IndInv'
  <2>1. "bib" \in Knows
    BY DEF Knows
  <2>2. TypeOK'
    BY <1>1, <1>5, <2>1, GotoFacts DEF IndInv, TypeOK
  <2>3. Progress(d)'
    BY <1>1, <1>5, <2>1, GotoFacts DEF IndInv, Progress, Knows, Active, BuildId
  <2> QED
    BY <1>1, <1>5, <2>1, <2>2, <2>3, GotoFacts, PoolStays DEF IndInv
<1> QED
  BY <1>2, <1>3, <1>4, <1>5

\* A bib that finished leaves the deploy's own disk: no other deploy writes there.
LEMMA BibInd ==
  ASSUME IndInv, NEW d \in Deploy, Bib(d)
  PROVE IndInv'
<1> USE DEF Bib
<1>1. pc[d] = "bib" /\ pc[d] \in Active \ {"pull"}
  BY DEF Active
<1>2. BuiltDisk(d) \in Disks
  BY <1>1, ImageTypes
<1>3. staging' \in Disks \cup {None, Partial}
  BY <1>2 DEF IndInv, TypeOK
<1>4. (Goto(d, "move") /\ staging' = BuiltDisk(d)) \/ End(d, "failed")
  BY DEF AfterBib
<1>5. ASSUME Goto(d, "move"), staging' = BuiltDisk(d) PROVE IndInv'
  <2>1. "move" \in Knows
    BY DEF Knows
  <2>2. TypeOK'
    BY <1>1, <1>3, <1>5, <2>1, GotoFacts DEF IndInv, TypeOK
  <2>3. Progress(d)'
    BY <1>1, <1>5, <2>1, GotoFacts DEF IndInv, Progress, Knows, Active, BuildId
  <2> QED
    BY <1>1, <1>5, <2>1, <2>2, <2>3, GotoFacts, PoolStays DEF IndInv
<1>6. ASSUME End(d, "failed") PROVE IndInv'
  BY <1>1, <1>3, <1>6, EndInd DEF Ended
<1> QED
  BY <1>4, <1>5, <1>6

\* The disk moved is the deploy's, of its flavor; the sidecar is not of it yet.
LEMMA MoveInd ==
  ASSUME IndInv, NEW d \in Deploy, Move(d)
  PROVE IndInv'
<1> USE DEF Move
<1>1. pc[d] = "move" /\ pc[d] \in Active \ {"pull"}
  BY DEF Active
<1>2. BuiltDisk(d) \in Disks /\ flavor[d] \in Flavors /\ staging = BuiltDisk(d)
  BY <1>1, ImageTypes DEF IndInv, Progress
<1>3. staging # None
  BY <1>2, NoneAssumption
<1>4. Goto(d, "clear") /\ staging' = None /\ UNCHANGED <<origin, sidecar>>
  BY <1>3
<1>5. /\ template' = [template EXCEPT ![flavor[d]] = BuiltDisk(d)]
      /\ unsealed' = unsealed \cup {flavor[d]}
  BY <1>2, <1>3
<1>6. "clear" \in Knows
  BY DEF Knows
<1>7. TypeOK'
  BY <1>1, <1>2, <1>4, <1>5, <1>6, GotoFacts DEF IndInv, TypeOK
<1>8. TemplatesNamed'
  BY <1>2, <1>5 DEF IndInv, TemplatesNamed, TypeOK, BuiltDisk
<1>9. SidecarIsTrue'
  <2> SUFFICES ASSUME NEW f \in Flavors \ unsealed', None \notin {sidecar'[f], template'[f]}
               PROVE sidecar'[f] = BuildId(template'[f].image)
    BY DEF SidecarIsTrue, BuildId
  <2>1. f \notin unsealed /\ f # flavor[d] /\ sidecar' = sidecar
    BY <1>4, <1>5
  <2>2. template'[f] = template[f]
    BY <1>5, <2>1 DEF IndInv, TypeOK
  <2> QED
    BY <2>1, <2>2 DEF IndInv, SidecarIsTrue
<1>10. template'[flavor[d]] = BuiltDisk(d)
  BY <1>2, <1>5 DEF IndInv, TypeOK
<1>11. Progress(d)'
  BY <1>1, <1>4, <1>6, <1>10, GotoFacts DEF IndInv, Progress, Knows, Active, BuildId
<1> QED
  BY <1>1, <1>4, <1>6, <1>7, <1>8, <1>9, <1>11, GotoFacts DEF IndInv

\* Clearing bib's output leaves the template.
LEMMA ClearInd ==
  ASSUME IndInv, NEW d \in Deploy, ClearStaging(d)
  PROVE IndInv'
<1> USE DEF ClearStaging
<1>1. pc[d] = "clear" /\ pc[d] \in Active \ {"pull"} /\ "seal" \in Knows
  BY DEF Active, Knows
<1>2. TypeOK'
  BY <1>1, GotoFacts DEF IndInv, TypeOK
<1>3. Progress(d)'
  BY <1>1, GotoFacts DEF IndInv, Progress, Knows, Active, BuildId
<1> QED
  BY <1>1, <1>2, <1>3, GotoFacts, PoolStays DEF IndInv

\* The sidecar written is the build id of the template just moved into place.
LEMMA SealInd ==
  ASSUME IndInv, NEW d \in Deploy, WriteSidecar(d)
  PROVE IndInv'
<1> DEFINE f == flavor[d]
<1> USE DEF WriteSidecar
<1>1. pc[d] = "seal" /\ pc[d] \in Active \ {"pull"}
  BY DEF Active
<1>2. f \in Flavors /\ template[f] = BuiltDisk(d) /\ template' = template
  BY <1>1, ImageTypes DEF IndInv, Progress
<1>3. expected[d] \in {None, BuildId(Image(d, f))}
  BY <1>1 DEF IndInv, Progress, Knows
<1>4. expected[d] # None => expected[d] = BuildId(template[f].image)
  BY <1>2, <1>3 DEF BuiltDisk, Image
<1>5. \/ /\ expected[d] # None /\ sidecar' = [sidecar EXCEPT ![f] = expected[d]]
         /\ unsealed' = unsealed \ {f}
      \/ UNCHANGED <<sidecar, unsealed>>
  BY DEF Sealed
<1>6. sidecar' \in [Flavors -> BuildIds \cup {None}] /\ unsealed' \subseteq Flavors
  BY <1>2, <1>5 DEF IndInv, TypeOK
<1>7. TypeOK'
  BY <1>6, NextFlavorTypes DEF IndInv, TypeOK
<1>8. TemplatesNamed'
  BY <1>2 DEF IndInv, TemplatesNamed
<1>9. SidecarIsTrue'
  <2> SUFFICES ASSUME NEW g \in Flavors \ unsealed', None \notin {sidecar'[g], template'[g]}
               PROVE sidecar'[g] = BuildId(template'[g].image)
    BY DEF SidecarIsTrue, BuildId
  <2>1. CASE UNCHANGED <<sidecar, unsealed>>
    BY <1>2, <2>1 DEF IndInv, SidecarIsTrue
  <2>2. CASE /\ expected[d] # None /\ sidecar' = [sidecar EXCEPT ![f] = expected[d]]
             /\ unsealed' = unsealed \ {f}
    <3>1. CASE g = f
      BY <1>2, <1>4, <2>2, <3>1 DEF IndInv, TypeOK
    <3>2. CASE g # f
      BY <1>2, <2>2, <3>2 DEF IndInv, TypeOK, SidecarIsTrue
    <3> QED
      BY <3>1, <3>2
  <2> QED
    BY <1>5, <2>1, <2>2
<1> QED
  BY <1>1, <1>7, <1>8, <1>9, NextFlavorInd

\* A failed call ends the deploy where it is.
LEMMA AbortInd ==
  ASSUME IndInv, NEW d \in Deploy, Abort(d)
  PROVE IndInv'
<1>1. pc[d] \in Active
  BY DEF Abort, Active
<1> QED
  BY <1>1, EndInd DEF Abort, poolVars, Ended, IndInv, TypeOK

\* clean-vms takes templates away: a sidecar without its template says nothing.
LEMMA CleanInd ==
  ASSUME IndInv, CleanVms
  PROVE IndInv'
<1> USE DEF CleanVms, imageVars
<1>1. TypeOK' /\ TemplatesNamed' /\ SidecarIsTrue'
  BY DEF IndInv, TypeOK, TemplatesNamed, SidecarIsTrue
<1>2. OneRuns'
  BY DEF IndInv, OneRuns
<1>3. ASSUME NEW d \in Deploy PROVE Progress(d)'
  BY <1>3 DEF IndInv, Progress, Running, Active, Knows
<1> QED
  BY <1>1, <1>2, <1>3 DEF IndInv

\* What is published later does not change what was pulled, and the Containerfile stays
\* while a deploy that made its images from it runs.
LEMMA PublishInd ==
  ASSUME IndInv, "edit" \notin Faults, NEW s \in Sources, Publish(s)
  PROVE IndInv'
<1> USE DEF Publish, poolVars
<1>1. TypeOK'
  BY DEF IndInv, TypeOK
<1>2. TemplatesNamed' /\ SidecarIsTrue' /\ OneRuns'
  BY PoolStays DEF IndInv, OneRuns
<1>3. ASSUME NEW d \in Deploy PROVE Progress(d)'
  <2>1. CASE pc[d] \notin Active
    BY <1>3, <2>1 DEF IndInv, Progress, Active, Knows
  <2>2. CASE pc[d] \in Active
    <3>1. args[d] \in Args /\ s # "local"
      BY <2>2 DEF IndInv, Progress, Running
    <3>2. args[d].source \in Sources
      BY <3>1 DEF Args
    <3>3. args[d].source \notin Registries => origin'[args[d].source] = origin[args[d].source]
      BY <3>1, <3>2, SourcesAssumption DEF IndInv, TypeOK, Registries
    <3>4. \A f \in Flavors : Has(d, f) => Has(d, f)'
      BY <3>3 DEF Has, Image
    <3> QED
      BY <3>1, <3>4, <2>2 DEF IndInv, Progress, Flavors, Image, BuildId, BuiltDisk
  <2> QED
    BY <2>1, <2>2
<1> QED
  BY <1>1, <1>2, <1>3 DEF IndInv

--------------------------------------------------------------------------------
(* The invariant, and what follows from it.                                *)

\* An empty pool.
LEMMA IndInit == Init => IndInv
<1> SUFFICES ASSUME Init PROVE IndInv
  OBVIOUS
<1> USE DEF Init
<1>2. TypeOK
  BY DEF TypeOK, Flavors
<1>3. OneRuns /\ TemplatesNamed /\ SidecarIsTrue
  BY DEF OneRuns, TemplatesNamed, SidecarIsTrue, Active
<1>4. ASSUME NEW d \in Deploy PROVE Progress(d)
  BY <1>4 DEF Progress, Active, Knows
<1> QED
  BY <1>2, <1>3, <1>4 DEF IndInv

\* Every step keeps the invariant.
LEMMA IndStep ==
  ASSUME IndInv, Exclusive, "edit" \notin Faults, [Next]_vars
  PROVE IndInv'
<1>1. ASSUME UNCHANGED vars PROVE IndInv'
  <2>1. TypeOK' /\ OneRuns' /\ TemplatesNamed' /\ SidecarIsTrue'
    BY <1>1, PoolStays DEF vars, imageVars, poolVars, IndInv, TypeOK, OneRuns
  <2>2. ASSUME NEW d \in Deploy PROVE Progress(d)'
    BY <1>1, <2>2 DEF vars, imageVars, poolVars, IndInv, Progress, Has, Image, BuildId,
      BuiltDisk
  <2> QED
    BY <2>1, <2>2 DEF IndInv
<1> QED
  BY <1>1, NextCases, StartInd, PullInd, AssessInd, ExpectInd, CacheInd, BibInd, MoveInd,
    ClearInd, SealInd, AbortInd, CleanInd, PublishInd

\* When deploys into the pool do not overlap and no Containerfile is edited under one, the
\* states are of their types: no half-written disk ever becomes a template.
THEOREM TypeCorrect ==
  ASSUME Exclusive, "edit" \notin Faults
  PROVE Spec => []TypeOK
<1>1. IndInv => TypeOK
  BY DEF IndInv
<1> QED
  BY <1>1, IndInit, IndStep, PTL DEF Spec

\* Under the same conditions a sidecar names the image its template was built from,
\* unless the build that replaced the template did not get to its sidecar.
THEOREM SidecarsTrue ==
  ASSUME Exclusive, "edit" \notin Faults
  PROVE Spec => []SidecarIsTrue
<1>1. IndInv => SidecarIsTrue
  BY DEF IndInv
<1> QED
  BY <1>1, IndInit, IndStep, PTL DEF Spec

\* A build id tells sources and revisions apart.
LEMMA BuildIdTells ==
  ASSUME NEW i, NEW j, BuildId(i) = BuildId(j)
  PROVE i.source = j.source /\ i.rev = j.rev
<1>1. BuildId(i).source = i.source /\ BuildId(i).rev = i.rev
  BY DEF BuildId
<1>2. BuildId(j).source = j.source /\ BuildId(j).rev = j.rev
  BY DEF BuildId
<1> QED
  BY <1>1, <1>2

\* The two ways to settle on a template: a reused one, and one just built.
LEMMA SettleCases ==
  ASSUME IndInv, [Next]_vars, NEW d \in Deploy, Settles(d)
  PROVE \/ /\ pc[d] = "cache" /\ TemplateSeen(flavor[d])
           /\ AssessQcow2Cache(sidecar[flavor[d]], expected[d], args[d].strict) = "reuse"
        \/ pc[d] = "seal"
<1>1. SUFFICES ASSUME pc[d] = "cache"
               PROVE /\ TemplateSeen(flavor[d])
                     /\ AssessQcow2Cache(sidecar[flavor[d]], expected[d], args[d].strict)
                          = "reuse"
  BY DEF Settles
<1>2. pc'[d] \in {"expect", "done"}
  BY DEF Settles
<1>3. ASSUME NEW e \in Deploy, e # d,
             \/ Start(e) \/ Pull(e) \/ AssessImage(e) \/ Expect(e) \/ CacheCheck(e)
             \/ Bib(e) \/ Move(e) \/ ClearStaging(e) \/ WriteSidecar(e) \/ Abort(e)
      PROVE FALSE
  <2>1. pc'[d] = pc[d]
    BY <1>3 DEF Start, Pull, AssessImage, Expect, CacheCheck, Bib, Move, ClearStaging,
      WriteSidecar, Abort, AfterBib, NextFlavor, End, Goto, IndInv, TypeOK
  <2> QED
    BY <1>1, <1>2, <2>1
<1>4. CacheCheck(d)
  <2>1. ~UNCHANGED pc
    BY <1>1, <1>2
  <2> QED
    BY <1>1, <1>2, <1>3, <2>1, NextCases DEF CleanVms, Publish, vars, Start, Pull,
      AssessImage, Expect, Bib, Move, ClearStaging, WriteSidecar, Abort, Ended
<1>5. ~End(d, "failed") /\ ~Goto(d, "bib")
  BY <1>2 DEF End, Goto, IndInv, TypeOK
<1> QED
  BY <1>4, <1>5 DEF CacheCheck

\* A deploy settles on a template it built, of its flavor and of the very image it pulled
\* or made, or on one it reuses, of its flavor, source and commit or Containerfile but for
\* the three kinds of reuse that the statement lists, whenever deploys do not overlap and
\* no input of the local images is edited under one.
THEOREM TemplatesFresh ==
  ASSUME Exclusive, "edit" \notin Faults
  PROVE Spec => TemplateIsFresh
<1> DEFINE Fresh(d) ==
      \/ Delivered(d)
      \/ ReusedFor(d, "match") /\ (DeliveredRev(d) \/ flavor[d] \in unsealed)
      \/ ReusedFor(d, "crossSource")
      \/ ReusedFor(d, "unverified") /\ ~args[d].strict
<1>1. ASSUME IndInv, [Next]_vars, NEW d \in Deploy, Settles(d) PROVE Fresh(d)
  <2> DEFINE s == args[d].source
             f == flavor[d]
  <2>1. pc[d] \in {"cache", "seal"} /\ pc[d] \in Active \ {"pull"}
    BY <1>1 DEF Settles, Active
  <2>2. f \in Flavors /\ s \in Sources /\ Image(d, f) \in Images
    BY <1>1, <2>1, ImageTypes
  <2>3. CASE pc[d] = "seal"
    BY <1>1, <2>3 DEF IndInv, Progress, Delivered, BuiltDisk
  <2>4. CASE pc[d] = "cache"
    <3>1. /\ TemplateSeen(f)
          /\ AssessQcow2Cache(sidecar[f], expected[d], args[d].strict) = "reuse"
      BY <1>1, <2>4, SettleCases
    <3>2. CASE None \in {sidecar[f], expected[d]}
      BY <2>4, <3>1, <3>2 DEF AssessQcow2Cache, ReusedFor, Reused, ReuseReason
    <3>3. CASE None \notin {sidecar[f], expected[d]} /\ sidecar[f] # expected[d]
      BY <2>4, <3>3 DEF ReusedFor, Reused, ReuseReason
    <3>4. CASE None \notin {sidecar[f], expected[d]} /\ sidecar[f] = expected[d]
      <4>1. ReusedFor(d, "match")
        BY <2>4, <3>4 DEF ReusedFor, Reused, ReuseReason
      <4>2. ASSUME f \notin unsealed PROVE DeliveredRev(d)
        <5>1. template[f] \in Disks /\ template[f] # None /\ template[f].flavor = f
          BY <1>1, <2>2, <3>1 DEF TemplateSeen, IndInv, TypeOK, TemplatesNamed
        <5>2. sidecar[f] = BuildId(template[f].image)
          BY <1>1, <2>2, <3>4, <4>2, <5>1 DEF IndInv, SidecarIsTrue
        <5>3. expected[d] = BuildId(Image(d, f))
          BY <1>1, <2>4, <3>4 DEF IndInv, Progress, Knows
        <5>4. BuildId(template[f].image) = BuildId(Image(d, f))
          BY <3>4, <5>2, <5>3
        <5>5. /\ template[f].image.source = Image(d, f).source
              /\ template[f].image.rev = Image(d, f).rev
          BY <5>4, BuildIdTells
        <5> QED
          BY <5>1, <5>5 DEF DeliveredRev, Image
      <4> QED
        BY <4>1, <4>2
    <3> QED
      BY <2>4, <3>2, <3>3, <3>4
  <2> QED
    BY <2>1, <2>3, <2>4
<1>2. Spec => []IndInv
  BY IndInit, IndStep, PTL DEF Spec
<1>3. ASSUME IndInv, [Next]_vars
      PROVE [\A d \in Deploy : Settles(d) => Fresh(d)]_vars
  BY <1>1, <1>3
<1> QED
  BY <1>2, <1>3, PTL DEF Spec, TemplateIsFresh
================================================================================
