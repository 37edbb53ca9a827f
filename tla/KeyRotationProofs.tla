--------------------------- MODULE KeyRotationProofs ---------------------------
(***************************************************************************)
(* IndInv of KeyRotation is inductive when rotations do not overlap and    *)
(* the apiserver restarts within the warm-up, for any rotations and rows.  *)
(***************************************************************************)
EXTENDS KeyRotation, TLAPS

\* The actions Next is made of.
LEMMA NextCases ==
  ASSUME [Next]_vars
  PROVE \/ \E r \in Rotation :
             \/ Fetch(r) \/ Upload(r) \/ Install(r) \/ Touch(r) \/ Healthz(r)
             \/ List(r) \/ Reencrypted(r) \/ Verify(r) \/ Abort(r)
             \/ \E row \in Row : ReplaceRow(r, row)
        \/ ApiserverStops \/ ApiserverStarts
        \/ \E row \in Row : ClientWrites(row)
        \/ UNCHANGED vars
  BY DEF Next, Step

\* The configs a rotation builds are configs.
LEMMA ConfigTypes ==
  ASSUME TypeOK, NEW r \in Rotation
  PROVE Dual(r) \in Config /\ ToInstall(r) \in Config
  BY DEF TypeOK, Dual, ToInstall, InsertPrimaryKey, DropNonPrimaryKeys, Config, Key

\* Every step keeps the types.
LEMMA TypeStep ==
  ASSUME TypeOK, [Next]_vars
  PROVE TypeOK'
<1>1. ASSUME NEW r \in Rotation, Fetch(r) PROVE TypeOK'
  BY <1>1 DEF TypeOK, Fetch, Goto, cpVars, Active
<1>2. ASSUME NEW r \in Rotation, Upload(r) PROVE TypeOK'
  BY <1>2, ConfigTypes DEF TypeOK, Upload, Goto, Active
<1>3. ASSUME NEW r \in Rotation, Install(r) PROVE TypeOK'
  BY <1>3 DEF TypeOK, Install, Goto, Active
<1>4. ASSUME NEW r \in Rotation, Touch(r) PROVE TypeOK'
  BY <1>4 DEF TypeOK, Touch, Goto, Active
<1>5. ASSUME NEW r \in Rotation, Healthz(r) PROVE TypeOK'
  BY <1>5 DEF TypeOK, Healthz, Goto, cpVars, Active
<1>6. ASSUME NEW r \in Rotation, List(r) PROVE TypeOK'
  BY <1>6 DEF TypeOK, List, Goto, cpVars, Active
<1>7. ASSUME NEW r \in Rotation, NEW row \in Row, ReplaceRow(r, row) PROVE TypeOK'
  BY <1>7 DEF TypeOK, ReplaceRow, Config
<1>8. ASSUME NEW r \in Rotation, Reencrypted(r) \/ Verify(r) \/ Abort(r) PROVE TypeOK'
  BY <1>8 DEF TypeOK, Reencrypted, Verify, Abort, Goto, cpVars, Active, Ended
<1>9. ASSUME ApiserverStops \/ ApiserverStarts PROVE TypeOK'
  BY <1>9 DEF TypeOK, ApiserverStops, ApiserverStarts
<1>10. ASSUME NEW row \in Row, ClientWrites(row) PROVE TypeOK'
  BY <1>10 DEF TypeOK, ClientWrites, Config
<1>11. ASSUME UNCHANGED vars PROVE TypeOK'
  BY <1>11 DEF TypeOK, vars, cpVars
<1> QED
  BY NextCases, <1>1, <1>2, <1>3, <1>4, <1>5, <1>6, <1>7, <1>8, <1>9, <1>10, <1>11

\* The bootstrap state satisfies the invariant.
LEMMA InitInd == Init => IndInv
<1> SUFFICES ASSUME Init PROVE IndInv
  OBVIOUS
<1>1. Bootstrap \in Config
  BY DEF Bootstrap, Config, Key
<1>2. TypeOK
  BY <1>1 DEF Init, TypeOK, Key
<1>3. OneActive
  BY DEF Init, OneActive, Active
<1>4. PrimariesListed /\ RowsReadable
  BY DEF Init, PrimariesListed, RowsReadable, Decrypts, Bootstrap
<1>5. ASSUME NEW r \in Rotation PROVE StageInv(r)
  BY DEF Init, StageInv, Active
<1>6. OldKeyRetired
  BY DEF Init, OldKeyRetired
<1> QED
  BY <1>2, <1>3, <1>4, <1>5, <1>6 DEF IndInv

\* When one rotation steps, the others rest, and stay as they are.
LEMMA OthersRest ==
  ASSUME IndInv, Exclusive, NEW r \in Rotation, pc[r] \in Active \/ Fetch(r),
         \A q \in Rotation : q # r => pc'[q] = pc[q] /\ stage'[q] = stage[q]
  PROVE OneActive' /\ \A q \in Rotation : q # r => StageInv(q)'
<1>1. ASSUME NEW q \in Rotation, q # r
      PROVE pc'[q] \notin Active /\ (pc'[q] = "idle" => stage'[q] = 1)
  BY <1>1 DEF IndInv, OneActive, StageInv, Fetch
<1>2. ASSUME NEW q \in Rotation, q # r PROVE StageInv(q)'
  BY <1>1, <1>2 DEF StageInv, Active
<1> QED
  BY <1>1, <1>2 DEF OneActive

\* A step of a rotation that leaves the rows and both configs alone.
LEMMA ConfigsStay ==
  ASSUME IndInv, UNCHANGED <<file, loaded, rows>>
  PROVE PrimariesListed' /\ RowsReadable'
  BY DEF IndInv, PrimariesListed, RowsReadable, Decrypts

\* Fetching leaves the control plane alone.
LEMMA FetchInd ==
  ASSUME IndInv, Exclusive, NEW r \in Rotation, Fetch(r), TypeOK'
  PROVE IndInv'
<1> USE DEF IndInv, Fetch, Goto, cpVars
<1>1. pc'[r] = "upload"
  BY DEF TypeOK
<1>2. OneActive' /\ \A q \in Rotation : q # r => StageInv(q)'
  BY OthersRest DEF TypeOK, Active
<1>3. PrimariesListed' /\ RowsReadable'
  BY ConfigsStay
<1>4. StageInv(r)'
  BY <1>1 DEF StageInv, TypeOK, Active, Dual
<1>5. OldKeyRetired'
  BY <1>1 DEF OldKeyRetired, TypeOK, Active, StageInv
<1> QED
  BY <1>2, <1>3, <1>4, <1>5

\* Nobody reads the upload yet.
LEMMA UploadInd ==
  ASSUME IndInv, Exclusive, NEW r \in Rotation, Upload(r), TypeOK'
  PROVE IndInv'
<1> USE DEF IndInv, Upload, Goto
<1>1. pc'[r] = "install"
  BY DEF TypeOK
<1>2. OneActive' /\ \A q \in Rotation : q # r => StageInv(q)'
  BY OthersRest DEF TypeOK, Active
<1>3. PrimariesListed' /\ RowsReadable'
  BY ConfigsStay
<1>4. StageInv(r)'
  BY <1>1 DEF StageInv, TypeOK, Active, Dual, ToInstall
<1>5. OldKeyRetired'
  BY <1>1 DEF OldKeyRetired, TypeOK, Active, StageInv
<1> QED
  BY <1>2, <1>3, <1>4, <1>5

\* The dual config has all the keys of the one before it; the single one is installed
\* when every row, and whatever the apiserver writes, has its key.
LEMMA InstallInd ==
  ASSUME IndInv, Exclusive, NEW r \in Rotation, Install(r), TypeOK'
  PROVE IndInv'
<1> USE DEF IndInv, Install, Goto
<1>1. pc'[r] = "touch"
  BY DEF TypeOK
<1>2. OneActive' /\ \A q \in Rotation : q # r => StageInv(q)'
  BY OthersRest DEF TypeOK, Active
<1>3. PrimariesListed' /\ RowsReadable'
  BY DEF PrimariesListed, RowsReadable, Decrypts, StageInv, TypeOK, Active,
    Dual, ToInstall, InsertPrimaryKey,
    DropNonPrimaryKeys
<1>4. StageInv(r)'
  BY <1>1 DEF StageInv, TypeOK, Active, Dual, ToInstall, InsertPrimaryKey,
    DropNonPrimaryKeys
<1>5. OldKeyRetired'
  BY <1>1 DEF OldKeyRetired, TypeOK, Active, StageInv, Dual, ToInstall, InsertPrimaryKey,
    DropNonPrimaryKeys
<1> QED
  BY <1>2, <1>3, <1>4, <1>5

\* The touch asks for a restart.
LEMMA TouchInd ==
  ASSUME IndInv, Exclusive, NEW r \in Rotation, Touch(r), TypeOK'
  PROVE IndInv'
<1> USE DEF IndInv, Touch, Goto
<1>1. pc'[r] = "health"
  BY DEF TypeOK
<1>2. OneActive' /\ \A q \in Rotation : q # r => StageInv(q)'
  BY OthersRest DEF TypeOK, Active
<1>3. PrimariesListed' /\ RowsReadable'
  BY ConfigsStay
<1>4. StageInv(r)'
  BY <1>1 DEF StageInv, TypeOK, Active, Dual
<1>5. OldKeyRetired'
  BY <1>1 DEF OldKeyRetired, TypeOK, Active, StageInv
<1> QED
  BY <1>2, <1>3, <1>4, <1>5

\* After the warm-up, a healthy apiserver has loaded the file.
LEMMA HealthzInd ==
  ASSUME IndInv, PromptReload, Exclusive, NEW r \in Rotation, Healthz(r), TypeOK'
  PROVE IndInv'
<1> USE DEF IndInv, Healthz, Goto, cpVars
<1>1. pc'[r] = (IF stage[r] = 1 THEN "list" ELSE "verify")
  BY DEF TypeOK
<1>2. OneActive' /\ \A q \in Rotation : q # r => StageInv(q)'
  BY OthersRest DEF TypeOK, Active
<1>3. PrimariesListed' /\ RowsReadable'
  BY ConfigsStay
<1>4. StageInv(r)'
  BY <1>1 DEF StageInv, TypeOK, Active, Dual, Healthy
<1>5. OldKeyRetired'
  BY <1>1 DEF OldKeyRetired, TypeOK, Active, StageInv
<1> QED
  BY <1>2, <1>3, <1>4, <1>5

\* Listing only reads.
LEMMA ListInd ==
  ASSUME IndInv, Exclusive, NEW r \in Rotation, List(r), TypeOK'
  PROVE IndInv'
<1> USE DEF IndInv, List, Goto, cpVars
<1>1. pc'[r] = "replace"
  BY DEF TypeOK
<1>2. OneActive' /\ \A q \in Rotation : q # r => StageInv(q)'
  BY OthersRest DEF TypeOK, Active
<1>3. PrimariesListed' /\ RowsReadable'
  BY ConfigsStay
<1>4. StageInv(r)'
  BY <1>1 DEF StageInv, TypeOK, Active, Dual, InsertPrimaryKey
<1>5. OldKeyRetired'
  BY <1>1 DEF OldKeyRetired, TypeOK, Active, StageInv
<1> QED
  BY <1>2, <1>3, <1>4, <1>5

\* A rewritten row has the new key.
LEMMA ReplaceRowInd ==
  ASSUME IndInv, Exclusive, NEW r \in Rotation, NEW row \in Row, ReplaceRow(r, row), TypeOK'
  PROVE IndInv'
<1> USE DEF IndInv, ReplaceRow, Goto
<1>1. pc'[r] = "replace"
  BY DEF TypeOK
<1>2. OneActive' /\ \A q \in Rotation : q # r => StageInv(q)'
  BY OthersRest DEF TypeOK, Active
<1>3. PrimariesListed' /\ RowsReadable'
  BY DEF PrimariesListed, RowsReadable, Decrypts, StageInv, TypeOK
<1>4. StageInv(r)'
  BY <1>1 DEF StageInv, TypeOK, Active, Dual, InsertPrimaryKey
<1>5. OldKeyRetired'
  BY <1>1 DEF OldKeyRetired, TypeOK, Active, StageInv
<1> QED
  BY <1>2, <1>3, <1>4, <1>5

\* When all rows are rewritten, all have the new key.
LEMMA ReencryptedInd ==
  ASSUME IndInv, Exclusive, NEW r \in Rotation, Reencrypted(r), TypeOK'
  PROVE IndInv'
<1> USE DEF IndInv, Reencrypted, Goto, cpVars
<1>1. pc'[r] = "upload"
  BY DEF TypeOK
<1>2. OneActive' /\ \A q \in Rotation : q # r => StageInv(q)'
  BY OthersRest DEF TypeOK, Active
<1>3. PrimariesListed' /\ RowsReadable'
  BY ConfigsStay
<1>4. StageInv(r)'
  BY <1>1 DEF StageInv, TypeOK, Active, Dual, InsertPrimaryKey
<1>5. OldKeyRetired'
  BY <1>1 DEF OldKeyRetired, TypeOK, Active, StageInv
<1> QED
  BY <1>2, <1>3, <1>4, <1>5

\* A verified rotation has retired the old keys.
LEMMA VerifyInd ==
  ASSUME IndInv, Exclusive, NEW r \in Rotation, Verify(r), TypeOK'
  PROVE IndInv'
<1> USE DEF IndInv, Verify, Goto, cpVars
<1>1. pc'[r] = "done"
  BY DEF TypeOK
<1>2. OneActive' /\ \A q \in Rotation : q # r => StageInv(q)'
  BY OthersRest DEF TypeOK, Active
<1>3. PrimariesListed' /\ RowsReadable'
  BY ConfigsStay
<1>4. StageInv(r)'
  BY <1>1 DEF StageInv, TypeOK, Active
<1>5. OldKeyRetired'
  BY <1>1 DEF OldKeyRetired, TypeOK, Active, StageInv
<1> QED
  BY <1>2, <1>3, <1>4, <1>5

\* A rotation may stop anywhere.
LEMMA AbortInd ==
  ASSUME IndInv, Exclusive, NEW r \in Rotation, Abort(r), TypeOK'
  PROVE IndInv'
<1> USE DEF IndInv, Abort, Goto, cpVars
<1>1. pc'[r] = "aborted"
  BY DEF TypeOK
<1>2. OneActive' /\ \A q \in Rotation : q # r => StageInv(q)'
  BY OthersRest DEF TypeOK, Active
<1>3. PrimariesListed' /\ RowsReadable'
  BY ConfigsStay
<1>4. StageInv(r)'
  BY <1>1 DEF StageInv, TypeOK, Active
<1>5. OldKeyRetired'
  BY <1>1 DEF OldKeyRetired, TypeOK, Active, StageInv
<1> QED
  BY <1>2, <1>3, <1>4, <1>5

\* A stopped apiserver keeps its config.
LEMMA StopsInd ==
  ASSUME IndInv, ApiserverStops, TypeOK'
  PROVE IndInv'
  BY DEF IndInv, ApiserverStops, OneActive, PrimariesListed, RowsReadable, Decrypts,
     StageInv, Dual, ToInstall, OldKeyRetired

\* A started apiserver loads the file: what the file decrypts it decrypts.
LEMMA StartsInd ==
  ASSUME IndInv, ApiserverStarts, TypeOK'
  PROVE IndInv'
<1> USE DEF IndInv, ApiserverStarts
<1>1. OneActive' /\ PrimariesListed' /\ RowsReadable'
  BY DEF OneActive, PrimariesListed, RowsReadable, Decrypts, TypeOK
<1>2. ASSUME NEW q \in Rotation PROVE StageInv(q)'
  BY DEF StageInv, Dual, ToInstall
<1>3. OldKeyRetired'
  BY DEF OldKeyRetired
<1> QED
  BY <1>1, <1>2, <1>3

\* A client's write uses the apiserver's primary key, which both configs have.
LEMMA ClientInd ==
  ASSUME IndInv, NEW row \in Row, ClientWrites(row), TypeOK'
  PROVE IndInv'
<1> USE DEF IndInv, ClientWrites
<1>1. \A x \in Row : rows'[x] = IF x = row THEN loaded.primary ELSE rows[x]
  BY DEF TypeOK
<1>2. OneActive' /\ PrimariesListed' /\ RowsReadable'
  BY <1>1 DEF OneActive, PrimariesListed, RowsReadable, Decrypts
<1>3. ASSUME NEW q \in Rotation PROVE StageInv(q)'
  <2>1. StageInv(q)
    OBVIOUS
  <2>2. pc[q] = "replace" => loaded.primary = q
    BY <2>1 DEF StageInv, Active, Dual, InsertPrimaryKey
  <2>3. stage[q] = 3 /\ pc[q] \in Active => \A x \in Row : rows'[x] = q
    BY <1>1, <2>1 DEF StageInv
  <2>4. pc[q] = "replace" => \A x \in Row \ todo[q] : rows'[x] = q
    BY <1>1, <2>1, <2>2 DEF StageInv
  <2> QED
    BY <2>1, <2>3, <2>4 DEF StageInv, Dual, ToInstall
<1>4. OldKeyRetired'
  BY <1>1 DEF OldKeyRetired
<1> QED
  BY <1>2, <1>3, <1>4

\* Every step preserves the invariant.
LEMMA StepInd ==
  ASSUME IndInv, PromptReload, Exclusive, [Next]_vars
  PROVE IndInv'
<1>1. TypeOK'
  BY TypeStep DEF IndInv
<1>2. CASE UNCHANGED vars
  BY <1>2 DEF vars, cpVars, IndInv, TypeOK, OneActive, PrimariesListed, RowsReadable,
     Decrypts, StageInv, Dual, ToInstall, OldKeyRetired
<1> QED
  BY <1>1, <1>2, NextCases, FetchInd, UploadInd, InstallInd, TouchInd, HealthzInd, ListInd,
     ReplaceRowInd, ReencryptedInd, VerifyInd, AbortInd, StopsInd, StartsInd, ClientInd

\* IndInv holds throughout, when rotations do not overlap and the apiserver restarts
\* within the warm-up of rotate_healthz.
THEOREM IndInvariant == PromptReload /\ Exclusive => (Spec => []IndInv)
<1> SUFFICES ASSUME PromptReload, Exclusive PROVE Spec => []IndInv
  OBVIOUS
<1>1. Init => IndInv
  BY InitInd
<1>2. IndInv /\ [Next]_vars => IndInv'
  BY StepInd
<1> QED
  BY <1>1, <1>2, PTL DEF Spec

\* Wherever rotations are cut off, and however often they are repeated, every row
\* stays readable to the running and to the next apiserver.
THEOREM AlwaysReadable == PromptReload /\ Exclusive => (Spec => []RowsReadable)
<1> SUFFICES ASSUME PromptReload, Exclusive PROVE Spec => []RowsReadable
  OBVIOUS
<1>1. IndInv => RowsReadable
  BY DEF IndInv
<1>2. Spec => []IndInv
  BY IndInvariant
<1> QED
  BY <1>1, <1>2, PTL

\* A completed rotation has taken every older key out of use.
THEOREM Retires == PromptReload /\ Exclusive => (Spec => []OldKeyRetired)
<1> SUFFICES ASSUME PromptReload, Exclusive PROVE Spec => []OldKeyRetired
  OBVIOUS
<1>1. IndInv => OldKeyRetired
  BY DEF IndInv
<1>2. Spec => []IndInv
  BY IndInvariant
<1> QED
  BY <1>1, <1>2, PTL
================================================================================
