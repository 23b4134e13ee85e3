-------------------------- MODULE TransfersProofs --------------------------
(***************************************************************************)
(* What TLAPS proves of the transfers, for any files, drops, drag-outs and *)
(* mishaps: the safety properties of Delivery and DragOut, that a dropped  *)
(* file arrives, and that a file left in the share is pushed at last.      *)
(***************************************************************************)
EXTENDS Transfers, FiniteSetTheorems, TLAPS

\* A step of a transfer to the target, one of a drag-out, or neither.
DeliveryNext ==
    \/ \E d \in Drops, files \in SUBSET Names : UserDrops(d, files)
    \/ \E n \in Names : UserWrites(n)
    \/ \E d \in Drops : DropStep(d)
    \/ SyncStep \/ ForwardStep

DragNext ==
    \/ \E g \in Grabs, n \in Names : DragsOut(g, n)
    \/ \E g \in Grabs : GrabStep(g)
    \/ AgentStages

\* The steps of Transfers, one by one.
LEMMA Steps ==
  ASSUME cast \in Casts, [Next]_vars
  PROVE  \/ DeliveryNext /\ UNCHANGED dragOutVars
         \/ DragNext /\ UNCHANGED <<dropVars, agentVars, syncVars, inbox>>
         \/ AgentRestarts
         \/ UNCHANGED vars
<1> USE DEF DeliveryNext, DragNext
<1>1. cast.drops \subseteq Drops /\ cast.names \subseteq Names /\ cast.grabs \subseteq Grabs
  BY TransfersAssumption
<1>2. CASE UserStep
  BY <1>1, <1>2 DEF UserStep
<1>3. CASE PC1Step
  BY <1>3 DEF PC1Step
<1>4. CASE AgentStep
  BY <1>4 DEF AgentStep
<1>5. QED  BY <1>2, <1>3, <1>4 DEF Next

\* Who takes part does not change.
LEMMA CastKept == cast \in Casts /\ [Next]_vars => cast' \in Casts
  BY DEF Next, vars

-----------------------------------------------------------------------------
(* Types                                                                   *)

\* The initial state has its types.
LEMMA TypesInit == Init => TypeOK
<1> SUFFICES ASSUME Init PROVE TypeOK
  OBVIOUS
<1>1. DeliveryTypes
  BY DeliveryAssumption DEF Init, DeliveryInit, DeliveryTypes, Contents, Empty, Mishaps
<1>2. DragOutTypes
  BY DEF Init, DragOutInit, DragOutTypes, Found, Empty
<1>3. CountsFit
  BY DragOutAssumption, FS_EmptySet, FS_CardinalityType DEF Init, DragOutInit, CountsFit
<1>4. QED  BY <1>1, <1>2, <1>3 DEF Init, TypeOK

\* What the records of the scripts become.
DropRec == [at : {"idle", "clear", "copy", "run", "ok", "failed"}, files : SUBSET Names, left : SUBSET Names]
SyncRec == [at : {"off", "sleep", "clear", "copy", "run"}, files : [Names -> Contents], left : SUBSET Names]

\* What a drop is when it goes on to its next command.
LEMMA DropMoves ==
  ASSUME DeliveryTypes, NEW d \in Drops, NEW at, DropGoes(d, at)
  PROVE  /\ drops'[d].at = at /\ drops'[d].files = drops[d].files /\ drops'[d].left = drops[d].left
         /\ \A e \in Drops \ {d} : drops'[e] = drops[e]
         /\ at \in {"idle", "clear", "copy", "run", "ok", "failed"} => drops' \in [Drops -> DropRec]
<1>1. drops \in [Drops -> DropRec]
  BY DEF DeliveryTypes, DropRec
<1>2. drops' = [drops EXCEPT ![d] = [drops[d] EXCEPT !.at = at]]
  BY DEF DropGoes
<1>3. drops'[d] = [drops[d] EXCEPT !.at = at] /\ \A e \in Drops \ {d} : drops'[e] = drops[e]
  BY <1>1, <1>2
<1>4. \A r \in DropRec : /\ [r EXCEPT !.at = at].at = at /\ [r EXCEPT !.at = at].files = r.files
                         /\ [r EXCEPT !.at = at].left = r.left
                         /\ at \in {"idle", "clear", "copy", "run", "ok", "failed"} => [r EXCEPT !.at = at] \in DropRec
  BY DEF DropRec
<1>5. drops[d] \in DropRec
  BY <1>1
<1>6. at \in {"idle", "clear", "copy", "run", "ok", "failed"} => drops' \in [Drops -> DropRec]
  BY <1>1, <1>2, <1>4, <1>5
<1>7. QED  BY <1>3, <1>4, <1>5, <1>6

\* What a drop is when it is done with one of its files.
LEMMA DropPasses ==
  ASSUME DeliveryTypes, NEW d \in Drops, NEW n, drops' = [drops EXCEPT ![d] = Past(@, n, "run")]
  PROVE  /\ drops'[d].at = IF drops[d].left = {n} THEN "run" ELSE drops[d].at
         /\ drops'[d].files = drops[d].files /\ drops'[d].left = drops[d].left \ {n}
         /\ \A e \in Drops \ {d} : drops'[e] = drops[e]
         /\ drops' \in [Drops -> DropRec]
<1>1. drops[d] \in DropRec
  BY DEF DeliveryTypes, DropRec
<1>2. /\ Past(drops[d], n, "run").at = IF drops[d].left = {n} THEN "run" ELSE drops[d].at
      /\ Past(drops[d], n, "run").files = drops[d].files
      /\ Past(drops[d], n, "run").left = drops[d].left \ {n}
      /\ Past(drops[d], n, "run") \in DropRec
  <2> DEFINE r == drops[d]
  <2>1. r \in DropRec
    BY <1>1
  <2> HIDE DEF r
  <2>2. Past(r, n, "run").at = IF r.left = {n} THEN "run" ELSE r.at
    BY <2>1 DEF Past, DropRec
  <2>3. Past(r, n, "run").files = r.files
    BY <2>1 DEF Past, DropRec
  <2>4. Past(r, n, "run").left = r.left \ {n}
    BY <2>1 DEF Past, DropRec
  <2>5. Past(r, n, "run") \in DropRec
    BY <2>1 DEF Past, DropRec
  <2>6. QED  BY <2>2, <2>3, <2>4, <2>5 DEF r
<1>3. drops \in [Drops -> DropRec]
  BY DEF DeliveryTypes, DropRec
<1>4. drops' = [drops EXCEPT ![d] = Past(drops[d], n, "run")]
  OBVIOUS
<1>5. drops'[d] = Past(drops[d], n, "run") /\ \A e \in Drops \ {d} : drops'[e] = drops[e]
  BY <1>3, <1>4
<1>6. drops' \in [Drops -> DropRec]
  BY <1>2, <1>3, <1>4
<1>7. QED  BY <1>2, <1>5, <1>6

\* What a push is when it goes on to its next command.
LEMMA SyncMoves ==
  ASSUME DeliveryTypes, NEW at, SyncGoes(at)
  PROVE  /\ sync'.at = at /\ sync'.files = sync.files /\ sync'.left = sync.left
         /\ at \in {"off", "sleep", "clear", "copy", "run"} => sync' \in SyncRec
<1>1. sync \in SyncRec
  BY DEF DeliveryTypes, SyncRec
<1>2. QED  BY <1>1 DEF SyncGoes, SyncRec

\* What a push is when it is done with one of its files.
LEMMA SyncPasses ==
  ASSUME DeliveryTypes, NEW n, sync' = Past(sync, n, "run")
  PROVE  /\ sync'.at = IF sync.left = {n} THEN "run" ELSE sync.at
         /\ sync'.files = sync.files /\ sync'.left = sync.left \ {n}
         /\ sync' \in SyncRec
<1>1. sync \in SyncRec
  BY DEF DeliveryTypes, SyncRec
<1>2. sync'.at = IF sync.left = {n} THEN "run" ELSE sync.at
  BY <1>1 DEF Past, SyncRec
<1>3. sync'.files = sync.files
  BY <1>1 DEF Past, SyncRec
<1>4. sync'.left = sync.left \ {n}
  BY <1>1 DEF Past, SyncRec
<1>5. sync' \in SyncRec
  BY <1>1 DEF Past, SyncRec
<1>6. QED  BY <1>2, <1>3, <1>4, <1>5

GrabRec ==
    [at : {"idle", "reverse", "list", "fetch", "delete", "ok", "none", "failed"}, left : SUBSET Names, n : Nat]

\* What a drag-out is when it goes on to its next command.
LEMMA GrabMoves ==
  ASSUME DragOutTypes, NEW g \in Grabs, NEW at, GrabGoes(g, at)
  PROVE  /\ grabs'[g].at = at /\ grabs'[g].left = grabs[g].left /\ grabs'[g].n = grabs[g].n
         /\ \A h \in Grabs \ {g} : grabs'[h] = grabs[h]
         /\ at \in {"idle", "reverse", "list", "fetch", "delete", "ok", "none", "failed"} => grabs' \in [Grabs -> GrabRec]
<1>1. grabs \in [Grabs -> GrabRec]
  BY DEF DragOutTypes, GrabRec
<1>2. grabs' = [grabs EXCEPT ![g] = [grabs[g] EXCEPT !.at = at]]
  BY DEF GrabGoes
<1>3. grabs'[g] = [grabs[g] EXCEPT !.at = at] /\ \A h \in Grabs \ {g} : grabs'[h] = grabs[h]
  BY <1>1, <1>2
<1>4. \A r \in GrabRec : /\ [r EXCEPT !.at = at].at = at /\ [r EXCEPT !.at = at].left = r.left
                         /\ [r EXCEPT !.at = at].n = r.n
                         /\ at \in {"idle", "reverse", "list", "fetch", "delete", "ok", "none", "failed"} => [r EXCEPT !.at = at] \in GrabRec
  BY DEF GrabRec
<1>5. grabs[g] \in GrabRec
  BY <1>1
<1>6. at \in {"idle", "reverse", "list", "fetch", "delete", "ok", "none", "failed"} => grabs' \in [Grabs -> GrabRec]
  BY <1>1, <1>2, <1>4, <1>5
<1>7. QED  BY <1>3, <1>4, <1>5, <1>6

\* The two ends of Fetch.
LEMMA GrabPasses ==
  ASSUME DragOutTypes, NEW g \in Grabs, NEW n, NEW k \in Nat,
         grabs' = [grabs EXCEPT ![g] = Past([grabs[g] EXCEPT !.n = k], n, "delete")]
  PROVE  /\ grabs'[g].at = IF grabs[g].left = {n} THEN "delete" ELSE grabs[g].at
         /\ grabs'[g].left = grabs[g].left \ {n} /\ grabs'[g].n = k
         /\ \A h \in Grabs \ {g} : grabs'[h] = grabs[h]
         /\ grabs' \in [Grabs -> GrabRec]
<1> DEFINE r == [grabs[g] EXCEPT !.n = k]
<1>1. grabs \in [Grabs -> GrabRec]
  BY DEF DragOutTypes, GrabRec
<1>2. grabs[g] \in GrabRec
  BY <1>1
<1>3. r \in GrabRec /\ r.at = grabs[g].at /\ r.left = grabs[g].left /\ r.n = k
  BY <1>2 DEF GrabRec
<1>4. grabs'[g] = Past(r, n, "delete") /\ \A h \in Grabs \ {g} : grabs'[h] = grabs[h]
  BY <1>1
<1>5. grabs' = [grabs EXCEPT ![g] = Past(r, n, "delete")]
  OBVIOUS
<1> HIDE DEF r
<1>6. Past(r, n, "delete").at = IF r.left = {n} THEN "delete" ELSE r.at
  BY <1>3 DEF Past, GrabRec
<1>7. Past(r, n, "delete").left = r.left \ {n}
  BY <1>3 DEF Past, GrabRec
<1>8. Past(r, n, "delete") \in GrabRec
  BY <1>3 DEF Past, GrabRec
<1>9. grabs' \in [Grabs -> GrabRec]
  BY <1>1, <1>5, <1>8
<1>10. Past(r, n, "delete").n = r.n
  BY <1>3 DEF Past, GrabRec
<1>11. QED  BY <1>3, <1>4, <1>6, <1>7, <1>9, <1>10

\* Directories keep to their contents.
LEMMA Directories ==
  ASSUME NEW a \in [Names -> Contents], NEW b \in [Names -> Contents]
  PROVE  /\ Empty \in [Names -> Contents] /\ Over(a, b) \in [Names -> Contents]
         /\ \A n, c \in Contents : [a EXCEPT ![n] = c] \in [Names -> Contents]
         /\ \A n : Broken(a, n) \subseteq [Names -> Contents]
<1>1. None \in Contents /\ Torn \in Contents
  BY DEF Contents
<1>2. Empty \in [Names -> Contents] /\ Over(a, b) \in [Names -> Contents]
  BY <1>1 DEF Empty, Over
<1>3. \A n, c \in Contents : [a EXCEPT ![n] = c] \in [Names -> Contents]
  OBVIOUS
<1>4. \A n : Broken(a, n) \subseteq [Names -> Contents]
  BY <1>1, <1>3 DEF Broken
<1>5. QED  BY <1>2, <1>3, <1>4

\* The types in groups, for the state and for the next one.
DropDirs == {inbox, dropDir, desktop} \subseteq [Names -> Contents]
SyncDirs == {share, known, lastSeen, drive} \subseteq [Names -> Contents]
Pairs ==
    /\ seen \subseteq Names \X Contents /\ arrived \subseteq Names \X Contents
    /\ skipped \subseteq Names \X Contents /\ forwarding \in (Names \X Contents) \cup {None}
Numbers == written \in 0 .. MaxVersion /\ mishaps \subseteq Mishaps

\* The conjuncts of DeliveryTypeOK.
LEMMA DeliveryParts ==
  DeliveryTypes <=> drops \in [Drops -> DropRec] /\ sync \in SyncRec /\ DropDirs /\ SyncDirs /\ Pairs /\ Numbers
  BY DEF DeliveryTypes, DropRec, SyncRec, DropDirs, SyncDirs, Pairs, Numbers

\* ... and the next state's.
LEMMA DeliveryPartsNext ==
  /\ drops' \in [Drops -> DropRec] /\ sync' \in SyncRec
  /\ DropDirs' /\ SyncDirs' /\ Pairs' /\ Numbers'
  => DeliveryTypes'
  BY DEF DeliveryTypes, DropRec, SyncRec, DropDirs, SyncDirs, Pairs, Numbers

\* The drops keep the types of the delivery.
LEMMA DropTypes ==
  ASSUME DeliveryTypes, NEW d \in Drops,
         DropStep(d) \/ \E files \in SUBSET Names : UserDrops(d, files)
  PROVE  DeliveryTypes'
<1>1. drops \in [Drops -> DropRec] /\ sync \in SyncRec /\ DropDirs /\ SyncDirs /\ Pairs /\ Numbers
  BY DeliveryParts
<1>2. inbox \in [Names -> Contents] /\ dropDir \in [Names -> Contents]
  BY <1>1 DEF DropDirs
<1>3. d \in Contents /\ None \in Contents /\ Torn \in Contents
  BY DEF Contents
<1>4. CASE \E files \in SUBSET Names : UserDrops(d, files)
  <2>1. drops' \in [Drops -> DropRec]
    BY <1>1, <1>4 DEF UserDrops, DropRec
  <2>2. drops' \in [Drops -> DropRec] /\ sync' \in SyncRec
    BY <1>1, <1>4, <2>1 DEF UserDrops, agentVars, syncVars
  <2>3. DropDirs' /\ SyncDirs'
    BY <1>1, <1>4, <2>1 DEF DropDirs, SyncDirs, UserDrops, agentVars, syncVars
  <2>4. Pairs' /\ Numbers'
    BY <1>1, <1>4, <2>1 DEF Pairs, Numbers, Mishaps, UserDrops, agentVars, syncVars
  <2>5. QED  BY <2>2, <2>3, <2>4, DeliveryPartsNext
<1>5. CASE DropClears(d)
  <2>1. drops' \in [Drops -> DropRec]
    BY <1>5, DropMoves DEF DropClears
  <2>2. inbox' \in [Names -> Contents]
    BY <1>2, <1>5, Directories DEF DropClears
  <2>3. drops' \in [Drops -> DropRec] /\ sync' \in SyncRec
    BY <1>1, <1>5, <2>1, <2>2 DEF DropClears, agentVars, syncVars
  <2>4. DropDirs' /\ SyncDirs'
    BY <1>1, <1>5, <2>1, <2>2 DEF DropDirs, SyncDirs, DropClears, agentVars, syncVars
  <2>5. Pairs' /\ Numbers'
    BY <1>1, <1>5, <2>1, <2>2 DEF Pairs, Numbers, Mishaps, DropClears, agentVars, syncVars
  <2>6. QED  BY <2>3, <2>4, <2>5, DeliveryPartsNext
<1>6. CASE \E n \in Names : DropCopies(d, n)
  <2>1. PICK n \in Names : DropCopies(d, n)
    BY <1>6
  <2>2. drops' \in [Drops -> DropRec]
    BY <2>1, DropPasses DEF DropCopies
  <2>3. inbox' \in [Names -> Contents]
    BY <1>2, <1>3, <2>1, Directories DEF DropCopies
  <2>4. drops' \in [Drops -> DropRec] /\ sync' \in SyncRec
    BY <1>1, <2>1, <2>2, <2>3 DEF DropCopies, agentVars, syncVars
  <2>5. DropDirs' /\ SyncDirs'
    BY <1>1, <2>1, <2>2, <2>3 DEF DropDirs, SyncDirs, DropCopies, agentVars, syncVars
  <2>6. Pairs' /\ Numbers'
    BY <1>1, <2>1, <2>2, <2>3 DEF Pairs, Numbers, Mishaps, DropCopies, agentVars, syncVars
  <2>7. QED  BY <2>4, <2>5, <2>6, DeliveryPartsNext
<1>7. CASE DropFails(d)
  <2>1. drops' \in [Drops -> DropRec]
    BY <1>7, DropMoves DEF DropFails
  <2>2. inbox' \in [Names -> Contents]
    BY <1>2, <1>7, Directories DEF DropFails
  <2>3. drops' \in [Drops -> DropRec] /\ sync' \in SyncRec
    BY <1>1, <1>7, <2>1, <2>2 DEF DropFails, agentVars, syncVars
  <2>4. DropDirs' /\ SyncDirs'
    BY <1>1, <1>7, <2>1, <2>2 DEF DropDirs, SyncDirs, DropFails, agentVars, syncVars
  <2>5. Pairs' /\ Numbers'
    BY <1>1, <1>7, <2>1, <2>2 DEF Pairs, Numbers, Mishaps, DropFails, agentVars, syncVars
  <2>6. QED  BY <2>3, <2>4, <2>5, DeliveryPartsNext
<1>8. CASE DropRuns(d)
  <2>1. drops' \in [Drops -> DropRec]
    BY <1>8, DropMoves DEF DropRuns
  <2>2. dropDir' \in [Names -> Contents] /\ mishaps' \subseteq Mishaps
    BY <1>1, <1>2, <1>3, <1>8 DEF DropRuns, Numbers, Mishaps
  <2>3. drops' \in [Drops -> DropRec] /\ sync' \in SyncRec
    BY <1>1, <1>8, <2>1, <2>2 DEF DropRuns, agentVars, syncVars
  <2>4. DropDirs' /\ SyncDirs'
    BY <1>1, <1>8, <2>1, <2>2 DEF DropDirs, SyncDirs, DropRuns, agentVars, syncVars
  <2>5. Pairs' /\ Numbers'
    BY <1>1, <1>8, <2>1, <2>2 DEF Pairs, Numbers, DropRuns, agentVars, syncVars
  <2>6. QED  BY <2>3, <2>4, <2>5, DeliveryPartsNext
<1>9. QED  BY <1>4, <1>5, <1>6, <1>7, <1>8 DEF DropStep

\* So do the agent and the folder.
LEMMA AgentTypes ==
  ASSUME DeliveryTypes, ForwardStep \/ \E n \in Names : UserWrites(n)
  PROVE  DeliveryTypes'
<1>1. drops \in [Drops -> DropRec] /\ sync \in SyncRec /\ DropDirs /\ SyncDirs /\ Pairs /\ Numbers
  BY DeliveryParts
<1>2. dropDir \in [Names -> Contents] /\ desktop \in [Names -> Contents] /\ share \in [Names -> Contents]
  BY <1>1 DEF DropDirs, SyncDirs
<1>3. None \in Contents /\ Torn \in Contents
  BY DEF Contents
<1>4. CASE \E n \in Names : ForwardStarts(n)
  <2>1. PICK n \in Names : ForwardStarts(n)
    BY <1>4
  <2>2. desktop' \in [Names -> Contents] /\ <<n, dropDir[n]>> \in Names \X Contents
    BY <1>2, <1>3, <2>1 DEF ForwardStarts
  <2>3. drops' \in [Drops -> DropRec] /\ sync' \in SyncRec
    BY <1>1, <2>1, <2>2 DEF ForwardStarts, dropVars, syncVars
  <2>4. DropDirs' /\ SyncDirs'
    BY <1>1, <2>1, <2>2 DEF DropDirs, SyncDirs, ForwardStarts, dropVars, syncVars
  <2>5. Pairs' /\ Numbers'
    BY <1>1, <2>1, <2>2 DEF Pairs, Numbers, ForwardStarts, dropVars, syncVars
  <2>6. QED  BY <2>3, <2>4, <2>5, DeliveryPartsNext
<1>5. CASE \E n \in Names : Forwarded(n) \/ ForwardFails(n)
  <2>1. PICK n \in Names : Forwarded(n) \/ ForwardFails(n)
    BY <1>5
  <2>2. forwarding \in Names \X Contents /\ forwarding[2] \in Contents
    BY <1>1, <2>1 DEF Forwarded, ForwardFails, Pairs
  <2>3. desktop' \in [Names -> Contents]
    BY <1>2, <1>3, <2>1, <2>2 DEF Forwarded, ForwardFails
  <2>4. drops' \in [Drops -> DropRec] /\ sync' \in SyncRec
    BY <1>1, <2>1 DEF Forwarded, ForwardFails, dropVars, syncVars
  <2>5. DropDirs' /\ SyncDirs'
    BY <1>1, <2>1, <2>3 DEF DropDirs, SyncDirs, Forwarded, ForwardFails, dropVars, syncVars
  <2>6. Pairs' /\ Numbers'
    BY <1>1, <2>1, <2>2 DEF Pairs, Numbers, Forwarded, ForwardFails, dropVars, syncVars
  <2>7. QED  BY <2>4, <2>5, <2>6, DeliveryPartsNext
<1>6. CASE \E n \in Names : UserWrites(n)
  <2>1. PICK n \in Names : UserWrites(n)
    BY <1>6
  <2>2. written \in Nat /\ MaxVersion \in Nat /\ written < MaxVersion
    BY <1>1, <2>1, DeliveryAssumption DEF Numbers, UserWrites
  <2>3. written + 1 \in Contents /\ written + 1 \in 0 .. MaxVersion
    BY <2>2 DEF Contents, Versions
  <2>4. share' \in [Names -> Contents]
    BY <1>2, <1>3, <2>1, <2>3 DEF UserWrites
  <2>5. written' \in 0 .. MaxVersion
    BY <1>1, <2>1, <2>3 DEF UserWrites, Numbers
  <2>6. drops' \in [Drops -> DropRec] /\ sync' \in SyncRec
    BY <1>1, <2>1, <2>4, <2>5 DEF UserWrites, dropVars, agentVars
  <2>7. DropDirs' /\ SyncDirs'
    BY <1>1, <2>1, <2>4, <2>5 DEF DropDirs, SyncDirs, UserWrites, dropVars, agentVars
  <2>8. Pairs' /\ Numbers'
    BY <1>1, <2>1, <2>4, <2>5 DEF Pairs, Numbers, UserWrites, dropVars, agentVars
  <2>9. QED  BY <2>6, <2>7, <2>8, DeliveryPartsNext
<1>7. QED  BY <1>4, <1>5, <1>6 DEF ForwardStep

\* So does the daemon.
LEMMA SyncTypes ==
  ASSUME DeliveryTypes, SyncStep
  PROVE  DeliveryTypes'
<1>1. drops \in [Drops -> DropRec] /\ sync \in SyncRec /\ DropDirs /\ SyncDirs /\ Pairs /\ Numbers
  BY DeliveryParts
<1>2. /\ inbox \in [Names -> Contents] /\ share \in [Names -> Contents] /\ known \in [Names -> Contents]
      /\ drive \in [Names -> Contents] /\ sync.files \in [Names -> Contents]
  BY <1>1 DEF DropDirs, SyncDirs, SyncRec
<1>3. None \in Contents
  BY DEF Contents
<1>a. CASE SyncStarts
  <2>1. sync' \in SyncRec /\ drops' \in [Drops -> DropRec]
    BY <1>1, <1>a DEF SyncStarts, SyncRec, dropVars
  <2>2. Missing \subseteq Names
    BY DEF Missing
  <2>3. DropDirs' /\ SyncDirs'
    BY <1>1, <1>a DEF DropDirs, SyncDirs, SyncStarts, dropVars, agentVars
  <2>4. {<<n, share[n]>> : n \in Missing} \subseteq Names \X Contents
    BY <1>2, <2>2
  <2>5. Pairs' /\ Numbers'
    BY <1>1, <1>a, <2>4 DEF Pairs, Numbers, SyncStarts, dropVars, agentVars
  <2>6. QED  BY <2>1, <2>3, <2>5, DeliveryPartsNext
<1>b. CASE SyncStops
  <2>1. Empty \in [Names -> Contents]
    BY <1>2, Directories
  <2>2. sync' \in SyncRec /\ drops' \in [Drops -> DropRec]
    BY <1>1, <1>b, <2>1 DEF SyncStops, SyncRec, dropVars
  <2>3. inbox' \in [Names -> Contents] /\ drive' \in [Names -> Contents]
    BY <1>2, <1>b, Directories DEF SyncStops
  <2>4. DropDirs' /\ SyncDirs'
    BY <1>1, <1>b, <2>1, <2>3 DEF DropDirs, SyncDirs, SyncStops, dropVars, agentVars
  <2>5. Pairs' /\ Numbers'
    BY <1>1, <1>b DEF Pairs, Numbers, SyncStops, dropVars, agentVars
  <2>6. QED  BY <2>2, <2>4, <2>5, DeliveryPartsNext
<1>4. CASE Scan
  <2>1. sync' \in SyncRec
    <3>1. Changed \subseteq Names
      BY DEF Changed, Listed
    <3>2. [n \in Names |-> IF n \in Changed THEN share[n] ELSE None] \in [Names -> Contents]
      BY <1>2, <1>3
    <3>3. QED  BY <1>1, <1>4, <3>1, <3>2 DEF Scan, SyncRec
  <2>2. drops' \in [Drops -> DropRec] /\ sync' \in SyncRec
    BY <1>1, <1>4, <2>1 DEF Scan, dropVars, agentVars
  <2>3. DropDirs' /\ SyncDirs'
    BY <1>1, <1>4, <2>1 DEF DropDirs, SyncDirs, Scan, dropVars, agentVars
  <2>4. Pairs' /\ Numbers'
    BY <1>1, <1>4, <2>1 DEF Pairs, Numbers, Mishaps, Scan, dropVars, agentVars
  <2>5. QED  BY <2>2, <2>3, <2>4, DeliveryPartsNext
<1>5. CASE SyncClears
  <2>1. sync' \in SyncRec
    BY <1>5, SyncMoves DEF SyncClears
  <2>2. inbox' \in [Names -> Contents]
    BY <1>2, <1>5, Directories DEF SyncClears
  <2>3. drops' \in [Drops -> DropRec] /\ sync' \in SyncRec
    BY <1>1, <1>5, <2>1, <2>2 DEF SyncClears, dropVars, agentVars
  <2>4. DropDirs' /\ SyncDirs'
    BY <1>1, <1>5, <2>1, <2>2 DEF DropDirs, SyncDirs, SyncClears, dropVars, agentVars
  <2>5. Pairs' /\ Numbers'
    BY <1>1, <1>5, <2>1, <2>2 DEF Pairs, Numbers, Mishaps, SyncClears, dropVars, agentVars
  <2>6. QED  BY <2>3, <2>4, <2>5, DeliveryPartsNext
<1>6. CASE \E n \in Names : SyncCopies(n)
  <2>1. sync' \in SyncRec
    BY <1>6, SyncPasses DEF SyncCopies
  <2>2. inbox' \in [Names -> Contents]
    BY <1>2, <1>6 DEF SyncCopies
  <2>3. drops' \in [Drops -> DropRec] /\ sync' \in SyncRec
    BY <1>1, <1>6, <2>1, <2>2 DEF SyncCopies, dropVars, agentVars
  <2>4. DropDirs' /\ SyncDirs'
    BY <1>1, <1>6, <2>1, <2>2 DEF DropDirs, SyncDirs, SyncCopies, dropVars, agentVars
  <2>5. Pairs' /\ Numbers'
    BY <1>1, <1>6, <2>1, <2>2 DEF Pairs, Numbers, Mishaps, SyncCopies, dropVars, agentVars
  <2>6. QED  BY <2>3, <2>4, <2>5, DeliveryPartsNext
<1>7. CASE SyncUnnoticed
  <2>1. sync' \in SyncRec
    BY <1>7, SyncMoves, SyncPasses DEF SyncUnnoticed
  <2>2. inbox' \in [Names -> Contents] /\ known' \in [Names -> Contents]
    BY <1>2, <1>7, Directories DEF SyncUnnoticed, KnownAfterPush
  <2>3. drops' \in [Drops -> DropRec] /\ sync' \in SyncRec
    BY <1>1, <1>7, <2>1, <2>2 DEF SyncUnnoticed, dropVars, agentVars
  <2>4. DropDirs' /\ SyncDirs'
    BY <1>1, <1>7, <2>1, <2>2 DEF DropDirs, SyncDirs, SyncUnnoticed, dropVars, agentVars
  <2>5. Pairs' /\ Numbers'
    BY <1>1, <1>7, <2>1, <2>2 DEF Pairs, Numbers, Mishaps, SyncUnnoticed, dropVars, agentVars
  <2>6. QED  BY <2>3, <2>4, <2>5, DeliveryPartsNext
<1>8. CASE SyncFails
  <2>1. sync' \in SyncRec
    BY <1>8, SyncMoves DEF SyncFails
  <2>2. inbox' \in [Names -> Contents]
    BY <1>2, <1>8, Directories DEF SyncFails
  <2>3. drops' \in [Drops -> DropRec] /\ sync' \in SyncRec
    BY <1>1, <1>8, <2>1, <2>2 DEF SyncFails, dropVars, agentVars
  <2>4. DropDirs' /\ SyncDirs'
    BY <1>1, <1>8, <2>1, <2>2 DEF DropDirs, SyncDirs, SyncFails, dropVars, agentVars
  <2>5. Pairs' /\ Numbers'
    BY <1>1, <1>8, <2>1, <2>2 DEF Pairs, Numbers, Mishaps, SyncFails, dropVars, agentVars
  <2>6. QED  BY <2>3, <2>4, <2>5, DeliveryPartsNext
<1>9. CASE SyncRuns
  <2>1. sync' \in SyncRec
    BY <1>9, SyncMoves DEF SyncRuns
  <2>2. drive' \in [Names -> Contents] /\ known' \in [Names -> Contents]
    BY <1>2, <1>9, Directories DEF SyncRuns, KnownAfterPush
  <2>3. drops' \in [Drops -> DropRec] /\ sync' \in SyncRec
    BY <1>1, <1>9, <2>1, <2>2 DEF SyncRuns, dropVars, agentVars
  <2>4. DropDirs' /\ SyncDirs'
    BY <1>1, <1>9, <2>1, <2>2 DEF DropDirs, SyncDirs, SyncRuns, dropVars, agentVars
  <2>5. Pairs' /\ Numbers'
    BY <1>1, <1>9, <2>1, <2>2 DEF Pairs, Numbers, Mishaps, SyncRuns, dropVars, agentVars
  <2>6. QED  BY <2>3, <2>4, <2>5, DeliveryPartsNext
<1>10. CASE SyncRunsBadly
  <2>1. sync' \in SyncRec
    BY <1>10, SyncMoves DEF SyncRunsBadly
  <2>2. drive' \in [Names -> Contents] /\ known' \in [Names -> Contents]
    <3>1. \A n : [inbox EXCEPT ![n] = None] \in [Names -> Contents]
      BY <1>2, <1>3
    <3>2. \A n : Over(drive, [inbox EXCEPT ![n] = None]) \in [Names -> Contents]
      BY <1>2, <3>1, Directories
    <3>3. \A n : Broken(Over(drive, [inbox EXCEPT ![n] = None]), n) \subseteq [Names -> Contents]
      BY <3>2, Directories
    <3>4. QED  BY <1>2, <1>10, <3>3, Directories DEF SyncRunsBadly, KnownAfterPush
  <2>3. drops' \in [Drops -> DropRec] /\ sync' \in SyncRec
    BY <1>1, <1>10, <2>1, <2>2 DEF SyncRunsBadly, dropVars, agentVars
  <2>4. DropDirs' /\ SyncDirs'
    BY <1>1, <1>10, <2>1, <2>2 DEF DropDirs, SyncDirs, SyncRunsBadly, dropVars, agentVars
  <2>5. Pairs' /\ Numbers'
    BY <1>1, <1>10, <2>1, <2>2 DEF Pairs, Numbers, Mishaps, SyncRunsBadly, dropVars, agentVars
  <2>6. QED  BY <2>3, <2>4, <2>5, DeliveryPartsNext
<1>11. QED  BY <1>a, <1>b, <1>4, <1>5, <1>6, <1>7, <1>8, <1>9, <1>10 DEF SyncStep

FoundDirs == {temp, pull, revout, pc1} \subseteq [Names -> Found]
StagePairs ==
    /\ hotkeys \subseteq Names \X Grabs /\ staging \in (Names \X Grabs) \cup {None}
    /\ staged \subseteq Names \X Grabs /\ fetched \subseteq Names \X Found

\* The conjuncts of DragTypeOK.
LEMMA DragParts ==
  DragOutTypes <=> grabs \in [Grabs -> GrabRec] /\ FoundDirs /\ StagePairs
  BY DEF DragOutTypes, GrabRec, FoundDirs, StagePairs

\* The directories a drag-out sees have their types.
LEMMA FoundDirectories ==
  ASSUME NEW a \in [Names -> Found], NEW b \in [Names -> Found]
  PROVE  /\ Empty \in [Names -> Found] /\ Over(a, b) \in [Names -> Found]
         /\ \A n, c \in Found : [a EXCEPT ![n] = c] \in [Names -> Found]
         /\ \A n : Broken(a, n) \subseteq [Names -> Found]
<1>1. None \in Found /\ Torn \in Found
  BY DEF Found
<1>2. Empty \in [Names -> Found] /\ Over(a, b) \in [Names -> Found]
  BY <1>1 DEF Empty, Over
<1>3. \A n, c \in Found : [a EXCEPT ![n] = c] \in [Names -> Found]
  OBVIOUS
<1>4. \A n : Broken(a, n) \subseteq [Names -> Found]
  BY <1>1, <1>3 DEF Broken
<1>5. QED  BY <1>2, <1>3, <1>4

\* The agent's staging keeps the types of the drag-outs.
LEMMA StageTypes ==
  ASSUME DragOutTypes, AgentStages
  PROVE  DragOutTypes'
<1> USE DEF DragOutTypes, GrabRec, FoundDirs, StagePairs, scriptVars
<1>1. grabs \in [Grabs -> GrabRec] /\ FoundDirs /\ StagePairs
  BY DragParts
<1>2. \A c \in Grabs \cup {None, Torn} : \A n :
        /\ [temp EXCEPT ![n] = c] \in [Names -> Found]
        /\ [pull EXCEPT ![n] = c] \in [Names -> Found]
  BY <1>1, FoundDirectories DEF Found
<1>3. staging # None => staging \in Names \X Grabs /\ staging[1] \in Names /\ staging[2] \in Grabs
  BY <1>1
<1>4. CASE Staged
  BY <1>1, <1>2, <1>3, <1>4 DEF Staged
<1>5. CASE StageFails
  BY <1>1, <1>2, <1>3, <1>5 DEF StageFails
<1>6. CASE \E f \in hotkeys : Stage(f) \/ HotkeyIgnored(f)
  BY <1>1, <1>2, <1>6 DEF Stage, HotkeyIgnored
<1>7. QED  BY <1>4, <1>5, <1>6 DEF AgentStages

\* So do the scripts on PC1.
LEMMA GrabTypes ==
  ASSUME DragOutTypes, NEW g \in Grabs,
         GrabStep(g) \/ \E n \in Names : DragsOut(g, n)
  PROVE  DragOutTypes'
<1>1. grabs \in [Grabs -> GrabRec] /\ FoundDirs /\ StagePairs
  BY DragParts
<1>2. /\ temp \in [Names -> Found] /\ pull \in [Names -> Found] /\ revout \in [Names -> Found] /\ pc1 \in [Names -> Found]
      /\ Empty \in [Names -> Found] /\ None \in Found /\ Torn \in Found
  BY <1>1, FoundDirectories DEF FoundDirs, Found
<1>3. CASE \E n \in Names : DragsOut(g, n)
  <2>1. PICK n \in Names : DragsOut(g, n)
    BY <1>3
  <2>2. GrabGoes(g, "reverse")
    BY <2>1 DEF DragsOut, GrabGoes
  <2>3. grabs' \in [Grabs -> GrabRec]
    BY <2>2, GrabMoves
  <2>4. QED  BY <1>1, <2>1, <2>3 DEF DragsOut, DragOutTypes, GrabRec, FoundDirs, StagePairs
<1>4. CASE Reverse(g)
  <2>1. grabs' \in [Grabs -> GrabRec]
    BY <1>4, GrabMoves DEF Reverse
  <2>2. revout' \in [Names -> Found] /\ pull' \in [Names -> Found]
    BY <1>2, <1>4, FoundDirectories DEF Reverse
  <2>3. QED  BY <1>1, <1>4, <2>1, <2>2 DEF Reverse, DragOutTypes, GrabRec, FoundDirs, StagePairs, stageVars
<1>5. CASE ReverseBadly(g)
  <2>1. grabs' \in [Grabs -> GrabRec]
    BY <1>5, GrabMoves DEF ReverseBadly
  <2>2. revout' \in [Names -> Found] /\ pull' \in [Names -> Found]
    <3>1. \A n : [pull EXCEPT ![n] = None] \in [Names -> Found]
      BY <1>2
    <3>2. \A n : Over(revout, [pull EXCEPT ![n] = None]) \in [Names -> Found]
      BY <1>2, <3>1, FoundDirectories
    <3>3. \A n : Broken(Over(revout, [pull EXCEPT ![n] = None]), n) \subseteq [Names -> Found]
      BY <3>2, FoundDirectories
    <3>4. QED  BY <1>2, <1>5, <3>3 DEF ReverseBadly
  <2>3. QED  BY <1>1, <1>5, <2>1, <2>2 DEF ReverseBadly, DragOutTypes, GrabRec, FoundDirs, StagePairs, stageVars
<1>6. CASE List(g)
  <2>1. grabs' \in [Grabs -> GrabRec]
    <3>1. CASE grabs' = [grabs EXCEPT ![g] =
                [at |-> IF revout = Empty THEN "delete" ELSE "fetch", left |-> Listed(revout), n |-> 0]]
      <4>1. [at |-> IF revout = Empty THEN "delete" ELSE "fetch", left |-> Listed(revout), n |-> 0] \in GrabRec
        BY DEF GrabRec, Listed
      <4>2. QED  BY <1>1, <3>1, <4>1
    <3>2. CASE GrabGoes(g, "delete")
      BY <3>2, GrabMoves
    <3>3. QED  BY <1>6, <3>1, <3>2 DEF List
  <2>2. QED  BY <1>1, <1>6, <2>1 DEF List, DragOutTypes, GrabRec, FoundDirs, StagePairs, stageVars
<1>7. CASE \E n \in Names : Fetch(g, n)
  <2>1. PICK n \in Names : Fetch(g, n)
    BY <1>7
  <2>2. grabs[g] \in GrabRec /\ grabs[g].n \in Nat /\ grabs[g].n + 1 \in Nat
    BY <1>1 DEF GrabRec
  <2>3. grabs[g] = [grabs[g] EXCEPT !.n = grabs[g].n]
    BY <2>2 DEF GrabRec
  <2>4. ASSUME grabs' = [grabs EXCEPT ![g] = Past([grabs[g] EXCEPT !.n = @ + 1], n, "delete")]
        PROVE  grabs' \in [Grabs -> GrabRec]
    <3>1. grabs' = [grabs EXCEPT ![g] = Past([grabs[g] EXCEPT !.n = grabs[g].n + 1], n, "delete")]
      BY <2>4, Zenon
    <3>2. QED  BY <2>2, <3>1, GrabPasses
  <2>a. ASSUME grabs' = [grabs EXCEPT ![g] = Past(@, n, "delete")]
        PROVE  grabs' \in [Grabs -> GrabRec]
    <3>1. grabs' = [grabs EXCEPT ![g] = Past([grabs[g] EXCEPT !.n = grabs[g].n], n, "delete")]
      BY <2>a, <2>3, Zenon
    <3>2. QED  BY <2>2, <3>1, GrabPasses
  <2>5. grabs' \in [Grabs -> GrabRec]
    BY <2>1, <2>4, <2>a, Zenon DEF Fetch
  <2>6. pc1' \in [Names -> Found] /\ fetched' \subseteq Names \X Found
    <3>1. CASE revout[n] # None /\ pc1' = [pc1 EXCEPT ![n] = revout[n]] /\ fetched' = fetched \cup {<<n, revout[n]>>}
      BY <1>1, <1>2, <3>1 DEF StagePairs
    <3>2. CASE pc1' \in Broken(pc1, n) /\ UNCHANGED fetched
      BY <1>1, <1>2, <3>2, FoundDirectories DEF StagePairs
    <3>3. QED  BY <2>1, <3>1, <3>2 DEF Fetch
  <2>7. QED  BY <1>1, <2>1, <2>5, <2>6 DEF Fetch, DragOutTypes, GrabRec, FoundDirs, StagePairs, stageVars
<1>8. CASE Delete(g)
  <2>1. grabs' \in [Grabs -> GrabRec]
    BY <1>8, GrabMoves DEF Delete
  <2>2. QED  BY <1>1, <1>2, <1>8, <2>1 DEF Delete, DragOutTypes, GrabRec, FoundDirs, StagePairs, stageVars
<1>9. CASE GrabFails(g)
  <2>1. grabs' \in [Grabs -> GrabRec]
    BY <1>9, GrabMoves DEF GrabFails
  <2>2. pc1' \in [Names -> Found]
    BY <1>2, <1>9, FoundDirectories DEF GrabFails
  <2>3. QED  BY <1>1, <1>9, <2>1, <2>2 DEF GrabFails, DragOutTypes, GrabRec, FoundDirs, StagePairs, stageVars
<1>10. QED  BY <1>3, <1>4, <1>5, <1>6, <1>7, <1>8, <1>9 DEF GrabStep

\* A file is counted once, when it leaves the list.
LEMMA FetchCounts ==
  ASSUME DragOutTypes, CountsFit, NEW g \in Grabs, NEW n \in grabs[g].left, NEW k \in Nat,
         k <= grabs[g].n + 1,
         grabs' = [grabs EXCEPT ![g] = Past([grabs[g] EXCEPT !.n = k], n, "delete")]
  PROVE  CountsFit'
<1> DEFINE left == grabs[g].left
<1>1. grabs[g] \in GrabRec
  BY DEF DragOutTypes, GrabRec
<1>2. left \subseteq Names /\ grabs[g].n \in Nat
  BY <1>1 DEF GrabRec
<1>3. IsFiniteSet(left)
  BY <1>2, FS_Subset, DragOutAssumption
<1>4. Cardinality(left) \in Nat /\ Cardinality(left \ {n}) = Cardinality(left) - 1
  BY <1>3, FS_RemoveElement, FS_CardinalityType
<1>5. Cardinality(Names) \in Nat /\ grabs[g].n + Cardinality(left) <= Cardinality(Names)
  BY DragOutAssumption, FS_CardinalityType DEF CountsFit
<1>6. k + Cardinality(left \ {n}) <= Cardinality(Names)
  BY <1>2, <1>4, <1>5
<1>7. /\ grabs'[g].left = left \ {n} /\ grabs'[g].n = k
      /\ \A h \in Grabs \ {g} : grabs'[h] = grabs[h]
  BY GrabPasses
<1>8. QED  BY <1>6, <1>7 DEF CountsFit

\* The count of a drag-out stays within the files there are.
LEMMA GrabCounts ==
  ASSUME DragOutTypes, CountsFit, NEW g \in Grabs,
         GrabStep(g) \/ \E n \in Names : DragsOut(g, n)
  PROVE  CountsFit'
<1>1. grabs[g] \in GrabRec
  BY DEF DragOutTypes, GrabRec
<1>2. ASSUME NEW at, GrabGoes(g, at) PROVE CountsFit'
  BY <1>2, GrabMoves DEF CountsFit
<1>3. CASE \E n \in Names : DragsOut(g, n)
  BY <1>2, <1>3 DEF DragsOut, GrabGoes
<1>4. CASE Reverse(g) \/ ReverseBadly(g) \/ Delete(g) \/ GrabFails(g)
  BY <1>2, <1>4 DEF Reverse, ReverseBadly, Delete, GrabFails
<1>5. CASE List(g)
  <2>1. CASE grabs' = [grabs EXCEPT ![g] =
              [at |-> IF revout = Empty THEN "delete" ELSE "fetch", left |-> Listed(revout), n |-> 0]]
    <3>1. grabs \in [Grabs -> GrabRec]
      BY DEF DragOutTypes, GrabRec
    <3>2. grabs'[g].left = Listed(revout) /\ grabs'[g].n = 0 /\ \A h \in Grabs \ {g} : grabs'[h] = grabs[h]
      BY <2>1, <3>1
    <3>3. Listed(revout) \subseteq Names
      BY DEF Listed
    <3>4. 0 + Cardinality(Listed(revout)) <= Cardinality(Names)
      BY <3>3, FS_Subset, FS_CardinalityType, DragOutAssumption
    <3>5. QED  BY <3>2, <3>4 DEF CountsFit
  <2>2. CASE GrabGoes(g, "delete")
    BY <1>2, <2>2
  <2>3. QED  BY <1>5, <2>1, <2>2 DEF List
<1>6. CASE \E n \in Names : Fetch(g, n)
  <2>1. PICK n \in Names : Fetch(g, n)
    BY <1>6
  <2>2. n \in grabs[g].left /\ grabs[g].n \in Nat /\ grabs[g].n + 1 \in Nat
        /\ grabs[g].n + 1 <= grabs[g].n + 1 /\ grabs[g].n <= grabs[g].n + 1
    BY <1>1, <2>1 DEF GrabRec, Fetch
  <2>3. ASSUME grabs' = [grabs EXCEPT ![g] = Past([grabs[g] EXCEPT !.n = @ + 1], n, "delete")]
        PROVE  CountsFit'
    <3>1. grabs' = [grabs EXCEPT ![g] = Past([grabs[g] EXCEPT !.n = grabs[g].n + 1], n, "delete")]
      BY <2>3, Zenon
    <3>2. QED  BY <2>2, <3>1, FetchCounts
  <2>4. ASSUME grabs' = [grabs EXCEPT ![g] = Past(@, n, "delete")]
        PROVE  CountsFit'
    <3>1. grabs[g] = [grabs[g] EXCEPT !.n = grabs[g].n]
      BY <1>1 DEF GrabRec
    <3>2. grabs' = [grabs EXCEPT ![g] = Past([grabs[g] EXCEPT !.n = grabs[g].n], n, "delete")]
      BY <2>4, <3>1, Zenon
    <3>3. QED  BY <2>2, <3>2, FetchCounts
  <2>5. QED  BY <2>1, <2>3, <2>4, Zenon DEF Fetch
<1>7. QED  BY <1>3, <1>4, <1>5, <1>6 DEF GrabStep

\* What no drag-out changes of the delivery but the list of mishaps, which only
\* grows.
LEMMA MishapsGrow ==
  ASSUME cast \in Casts, [Next]_vars
  PROVE  mishaps \subseteq mishaps' /\ (mishaps \subseteq Mishaps => mishaps' \subseteq Mishaps)
<1> USE DEF Mishaps
<1>1. CASE DeliveryNext
  BY <1>1 DEF DeliveryNext, UserDrops, UserWrites, DropStep, DropClears, DropCopies, DropFails, DropRuns, SyncStep,
     SyncStarts, SyncStops, Scan, SyncClears, SyncCopies, SyncUnnoticed, SyncFails, SyncRuns, SyncRunsBadly, ForwardStep, ForwardStarts, Forwarded, ForwardFails
<1>2. CASE DragNext
  BY <1>2 DEF DragNext, DragsOut, GrabStep, Reverse, ReverseBadly, List, Fetch, Delete, GrabFails,
     AgentStages, Staged, StageFails, Stage, HotkeyIgnored
<1>3. CASE AgentRestarts
  BY <1>3 DEF AgentRestarts, AgentForgets
<1>4. CASE UNCHANGED vars
  BY <1>4 DEF vars, deliveryVars
<1>5. QED  BY <1>1, <1>2, <1>3, <1>4, Steps

\* TypeOK is inductive.
LEMMA TypesStep == TypeOK /\ [Next]_vars => TypeOK'
<1> SUFFICES ASSUME TypeOK, [Next]_vars PROVE TypeOK'
  OBVIOUS
<1>1. DeliveryTypes /\ DragOutTypes /\ CountsFit /\ cast \in Casts
  BY DEF TypeOK
<1>2. cast' \in Casts
  BY <1>1, CastKept
<1>3. mishaps' \subseteq Mishaps
  BY <1>1, MishapsGrow DEF DeliveryTypes
<1>a. UNCHANGED grabs => CountsFit'
  BY <1>1 DEF CountsFit
<1>4. UNCHANGED dragOutVars => DragOutTypes' /\ CountsFit'
  BY <1>1, <1>a DEF dragOutVars, scriptVars, stageVars, DragOutTypes
<1>5. UNCHANGED <<dropVars, agentVars, syncVars, inbox>> => DeliveryTypes'
  BY <1>1, <1>3 DEF dropVars, agentVars, syncVars, DeliveryTypes
<1>6. CASE DeliveryNext /\ UNCHANGED dragOutVars
  <2>1. DeliveryTypes'
    BY <1>1, <1>6, DropTypes, AgentTypes, SyncTypes DEF DeliveryNext
  <2>2. QED  BY <1>2, <1>4, <1>6, <2>1 DEF TypeOK
<1>7. CASE DragNext /\ UNCHANGED <<dropVars, agentVars, syncVars, inbox>>
  <2>1. DragOutTypes'
    BY <1>1, <1>7, StageTypes, GrabTypes DEF DragNext
  <2>2. CountsFit'
    <3>1. CASE AgentStages
      BY <1>a, <3>1 DEF AgentStages, Staged, StageFails, Stage, HotkeyIgnored, scriptVars
    <3>2. CASE \E g \in Grabs : GrabStep(g) \/ \E n \in Names : DragsOut(g, n)
      BY <1>1, <3>2, GrabCounts
    <3>3. QED  BY <1>7, <3>1, <3>2 DEF DragNext
  <2>3. QED  BY <1>2, <1>5, <1>7, <2>1, <2>2 DEF TypeOK
<1>8. CASE AgentRestarts
  <2>1. DeliveryTypes'
    BY <1>1, <1>8 DEF AgentRestarts, AgentForgets, DeliveryTypes, dropVars, syncVars
  <2>2. DragOutTypes'
    BY <1>1, <1>8 DEF AgentRestarts, DragOutTypes, scriptVars
  <2>a. CountsFit'
    BY <1>a, <1>8 DEF AgentRestarts, scriptVars
  <2>3. QED  BY <1>2, <2>1, <2>2, <2>a DEF TypeOK
<1>9. CASE UNCHANGED vars
  BY <1>1, <1>2, <1>4, <1>5, <1>9 DEF vars, deliveryVars, TypeOK
<1>10. QED  BY <1>1, <1>6, <1>7, <1>8, <1>9, Steps

\* The variables of both directions keep their types.
THEOREM Types == Spec => []TypeOK
  BY TypesInit, TypesStep, PTL DEF Spec

-----------------------------------------------------------------------------
(* Drag-outs                                                               *)

\* Whatever is in _pull and in revout has been staged, but for what an
\* unnoticed copy error leaves.
PulledInv ==
    \A n \in Names :
        /\ pull[n] # None => pull[n] \in Grabs /\ <<n, pull[n]>> \in staged
        /\ revout[n] = Torn => "cp" \in mishaps
        /\ revout[n] \in Grabs => <<n, revout[n]>> \in staged

\* Where drag-outs do not overlap, the script that empties revout has fetched
\* what is there.
FetchedInv ==
    /\ "revout" \notin mishaps => \A g, h \in Grabs : Grabbing(g) /\ Grabbing(h) => g = h
    /\ Without({"unnoticed", "revout"}) =>
          \A g \in Grabs, n \in Names :
              revout[n] # None =>
                  /\ grabs[g].at = "delete" => <<n, revout[n]>> \in fetched
                  /\ grabs[g].at = "fetch" => n \in grabs[g].left \/ <<n, revout[n]>> \in fetched

\* StagedKept, of names and drag-outs.
KeptInv ==
    Without({"unnoticed", "revout", "cp"}) =>
        \A n \in Names, g \in Grabs :
            <<n, g>> \in staged \ fetched =>
                \/ g \in {pull[n], revout[n]}
                \/ \E h \in Grabs \ {g} : <<n, h>> \in staged

DragInv == PulledInv /\ FetchedInv /\ KeptInv

\* No drag-out's content is taken for nothing or for half a file.
LEMMA Distinct == None # Torn /\ None \notin Grabs /\ Torn \notin Grabs
  BY DeliveryAssumption, DragOutAssumption

\* DragInv holds with nothing staged.
LEMMA DragInvInit == Init => DragInv
  BY Distinct DEF Init, DeliveryInit, DragOutInit, DragInv, PulledInv, FetchedInv, KeptInv, Empty, Grabbing

\* Steps that concern neither what is staged nor the scripts.
LEMMA DragStill ==
  ASSUME DragInv, mishaps \subseteq mishaps', UNCHANGED <<grabs, revout, pull, staged, fetched>>
  PROVE  DragInv'
  BY DEF DragInv, PulledInv, FetchedInv, KeptInv, Grabbing, Without

\* DragInv: the agent stages a file.
LEMMA StageKeeps ==
  ASSUME DragOutTypes, DragInv, AgentStages, mishaps \subseteq mishaps'
  PROVE  DragInv'
<1>1. CASE Staged
  <2>1. PICK n \in Names, g \in Grabs : staging = <<n, g>>
    BY <1>1 DEF Staged, DragOutTypes
  <2>2. CASE pull[n] # None
    BY <1>1, <2>1, <2>2, DragStill DEF Staged, scriptVars
  <2>3. CASE pull[n] = None
    <3>1. /\ pull' = [pull EXCEPT ![n] = g] /\ staged' = staged \cup {<<n, g>>}
          /\ UNCHANGED <<grabs, revout, fetched, mishaps>>
      BY <1>1, <2>1, <2>3 DEF Staged, scriptVars
    <3>2. pull'[n] = g /\ \A m \in Names \ {n} : pull'[m] = pull[m]
      BY <3>1 DEF DragOutTypes
    <3>3. PulledInv'
      <4> SUFFICES ASSUME NEW m \in Names
                   PROVE  /\ pull'[m] # None => pull'[m] \in Grabs /\ <<m, pull'[m]>> \in staged'
                          /\ revout[m] = Torn => "cp" \in mishaps
                          /\ revout[m] \in Grabs => <<m, revout[m]>> \in staged'
        BY <3>1 DEF PulledInv
      <4>1. /\ pull[m] # None => pull[m] \in Grabs /\ <<m, pull[m]>> \in staged
            /\ revout[m] = Torn => "cp" \in mishaps
            /\ revout[m] \in Grabs => <<m, revout[m]>> \in staged
        BY DEF DragInv, PulledInv
      <4>2. CASE m = n
        BY <3>1, <3>2, <4>1, <4>2
      <4>3. CASE m # n
        BY <3>1, <3>2, <4>1, <4>3
      <4>4. QED  BY <4>2, <4>3
    <3>4. FetchedInv'
      BY <3>1 DEF DragInv, FetchedInv, Grabbing, Without
    <3>5. KeptInv'
      <4> SUFFICES ASSUME Without({"unnoticed", "revout", "cp"}), NEW m \in Names, NEW h \in Grabs,
                          <<m, h>> \in staged' \ fetched'
                   PROVE  h \in {pull'[m], revout'[m]} \/ \E k \in Grabs \ {h} : <<m, k>> \in staged'
        BY <3>1 DEF KeptInv, Without
      <4>1. CASE <<m, h>> = <<n, g>>
        BY <3>2, <4>1
      <4>2. CASE <<m, h>> # <<n, g>>
        <5>1. <<m, h>> \in staged \ fetched
          BY <3>1, <4>2
        <5>2. h \in {pull[m], revout[m]} \/ \E k \in Grabs \ {h} : <<m, k>> \in staged
          BY <5>1 DEF DragInv, KeptInv
        <5>3. QED  BY <2>3, <3>1, <3>2, <5>2, Distinct
      <4>3. QED  BY <4>1, <4>2
    <3>6. QED  BY <3>3, <3>4, <3>5 DEF DragInv
  <2>4. QED  BY <2>2, <2>3
<1>2. CASE StageFails \/ \E f \in hotkeys : Stage(f) \/ HotkeyIgnored(f)
  BY <1>2, DragStill DEF StageFails, Stage, HotkeyIgnored, scriptVars
<1>3. QED  BY <1>1, <1>2 DEF AgentStages

\* DragInv: kvm-share.sh reverse.
LEMMA ReverseKeeps ==
  ASSUME DragOutTypes, DragInv, NEW g \in Grabs, Reverse(g)
  PROVE  DragInv'
<1>1. /\ grabs[g].at = "reverse" /\ grabs'[g].at \in {"list", "failed"}
      /\ \A h \in Grabs \ {g} : grabs'[h] = grabs[h]
  BY GrabMoves DEF Reverse
<1>2. \A n \in Names : /\ revout'[n] = (IF pull[n] # None THEN pull[n] ELSE revout[n])
                       /\ pull'[n] = None
  BY DEF Reverse, Over, Empty
<1>3. UNCHANGED <<staged, fetched, mishaps>>
  BY DEF Reverse, stageVars
<1>4. PulledInv'
  BY <1>2, <1>3, Distinct DEF DragInv, PulledInv
<1>5. FetchedInv'
  <2>1. "revout" \notin mishaps => \A h, k \in Grabs : Grabbing(h)' /\ Grabbing(k)' => h = k
    BY <1>1 DEF DragInv, FetchedInv, Grabbing
  <2>2. "revout" \notin mishaps => \A h \in Grabs : grabs'[h].at \notin {"fetch", "delete"}
    BY <1>1 DEF DragInv, FetchedInv, Grabbing
  <2>3. QED  BY <1>3, <2>1, <2>2 DEF FetchedInv, Without, Grabbing
<1>6. KeptInv'
  <2> SUFFICES ASSUME Without({"unnoticed", "revout", "cp"}), NEW n \in Names, NEW h \in Grabs,
                      <<n, h>> \in staged \ fetched
               PROVE  h \in {pull'[n], revout'[n]} \/ \E k \in Grabs \ {h} : <<n, k>> \in staged
    BY <1>3 DEF KeptInv, Without
  <2>1. h \in {pull[n], revout[n]} \/ \E k \in Grabs \ {h} : <<n, k>> \in staged
    BY DEF DragInv, KeptInv
  <2>2. pull[n] # None => pull[n] \in Grabs /\ <<n, pull[n]>> \in staged
    BY DEF DragInv, PulledInv
  <2>3. QED  BY <1>2, <2>1, <2>2, Distinct
<1>7. QED  BY <1>4, <1>5, <1>6 DEF DragInv

\* DragInv: reverse with a copy error.
LEMMA ReverseBadlyKeeps ==
  ASSUME DragOutTypes, DragInv, NEW g \in Grabs, ReverseBadly(g)
  PROVE  DragInv'
<1>1. /\ grabs[g].at = "reverse" /\ grabs'[g].at = "list"
      /\ \A h \in Grabs \ {g} : grabs'[h] = grabs[h]
  BY GrabMoves DEF ReverseBadly
<1>2. \A n \in Names : /\ revout'[n] \in {pull[n], revout[n], Torn}
                       /\ revout'[n] = pull[n] => pull[n] # None \/ revout'[n] = revout[n]
                       /\ pull'[n] = None
  <2>1. PICK m \in Listed(pull) : revout' \in Broken(Over(revout, [pull EXCEPT ![m] = None]), m)
    BY DEF ReverseBadly
  <2> DEFINE copied == Over(revout, [pull EXCEPT ![m] = None])
  <2>2. \A n \in Names : [pull EXCEPT ![m] = None][n] \in {pull[n], None}
    BY DEF DragOutTypes
  <2>3. copied \in [Names -> {copied[n] : n \in Names}] /\ \A n \in Names : copied[n] = revout[n] \/ (copied[n] = pull[n] /\ pull[n] # None)
    BY <2>2 DEF Over
  <2> HIDE DEF copied
  <2>4. \A n \in Names : revout'[n] \in {copied[n], Torn}
    BY <2>1, <2>3 DEF Broken, copied
  <2>5. \A n \in Names : pull'[n] = None
    BY DEF ReverseBadly, Empty
  <2>6. QED  BY <2>3, <2>4, <2>5, Distinct
<1>3. UNCHANGED <<staged, fetched>> /\ mishaps' = mishaps \cup {"cp"}
  BY DEF ReverseBadly, stageVars
<1>4. PulledInv'
  BY <1>2, <1>3, Distinct DEF DragInv, PulledInv
<1>5. FetchedInv'
  <2>1. "revout" \notin mishaps => \A h, k \in Grabs : Grabbing(h)' /\ Grabbing(k)' => h = k
    BY <1>1 DEF DragInv, FetchedInv, Grabbing
  <2>2. "revout" \notin mishaps => \A h \in Grabs : grabs'[h].at \notin {"fetch", "delete"}
    BY <1>1 DEF DragInv, FetchedInv, Grabbing
  <2>3. QED  BY <1>3, <2>1, <2>2 DEF FetchedInv, Without, Grabbing
<1>6. KeptInv'
  BY <1>3 DEF KeptInv, Without
<1>7. QED  BY <1>4, <1>5, <1>6 DEF DragInv

\* DragInv: the list of revout.
LEMMA ListKeeps ==
  ASSUME DragOutTypes, DragInv, NEW g \in Grabs, List(g)
  PROVE  DragInv'
<1>1. UNCHANGED <<revout, pull, staged, fetched>> /\ mishaps \subseteq mishaps' /\ grabs[g].at = "list"
  BY DEF List, stageVars
<1>2. \/ /\ mishaps' = mishaps /\ grabs'[g].left = Listed(revout)
         /\ grabs'[g].at = IF revout = Empty THEN "delete" ELSE "fetch"
         /\ \A h \in Grabs \ {g} : grabs'[h] = grabs[h]
      \/ /\ "unnoticed" \in mishaps' /\ grabs'[g].at = "delete"
         /\ \A h \in Grabs \ {g} : grabs'[h] = grabs[h]
  <2>1. CASE UNCHANGED mishaps /\ grabs' = [grabs EXCEPT ![g] =
                [at |-> IF revout = Empty THEN "delete" ELSE "fetch", left |-> Listed(revout), n |-> 0]]
    BY <2>1 DEF DragOutTypes
  <2>2. CASE mishaps' = mishaps \cup {"unnoticed"} /\ GrabGoes(g, "delete")
    BY <2>2, GrabMoves
  <2>3. QED  BY <2>1, <2>2 DEF List
<1>3. PulledInv' /\ KeptInv'
  BY <1>1 DEF DragInv, PulledInv, KeptInv, Without
<1>4. FetchedInv'
  <2>1. "revout" \notin mishaps => \A h, k \in Grabs : Grabbing(h)' /\ Grabbing(k)' => h = k
    BY <1>1, <1>2 DEF DragInv, FetchedInv, Grabbing
  <2>2. ASSUME Without({"unnoticed", "revout"})', NEW h \in Grabs, NEW n \in Names, revout[n] # None
        PROVE  /\ grabs'[h].at = "delete" => <<n, revout[n]>> \in fetched
               /\ grabs'[h].at = "fetch" => n \in grabs'[h].left \/ <<n, revout[n]>> \in fetched
    <3>1. Without({"unnoticed", "revout"})
      BY <1>1, <2>2 DEF Without
    <3>2. CASE h # g
      BY <1>2, <2>2, <3>1, <3>2 DEF DragInv, FetchedInv
    <3>3. CASE h = g
      <4>1. n \in Listed(revout) /\ revout # Empty
        BY <2>2 DEF Listed, Empty
      <4>2. QED  BY <1>2, <2>2, <3>3, <4>1 DEF Without
    <3>4. QED  BY <3>2, <3>3
  <2>3. QED  BY <1>1, <2>1, <2>2 DEF FetchedInv, Without
<1>5. QED  BY <1>3, <1>4 DEF DragInv

\* DragInv: one file is fetched.
LEMMA FetchKeeps ==
  ASSUME DragOutTypes, DragInv, NEW g \in Grabs, NEW n \in Names, Fetch(g, n)
  PROVE  DragInv'
<1>1. UNCHANGED <<revout, pull, staged>> /\ mishaps \subseteq mishaps' /\ fetched \subseteq fetched' /\ grabs[g].at = "fetch"
  BY DEF Fetch, stageVars
<1>2. /\ grabs'[g].left = grabs[g].left \ {n}
      /\ grabs'[g].at = IF grabs[g].left = {n} THEN "delete" ELSE "fetch"
      /\ \A h \in Grabs \ {g} : grabs'[h] = grabs[h]
  <2>1. grabs[g] \in GrabRec /\ grabs[g].n \in Nat /\ grabs[g].n + 1 \in Nat
    BY DEF DragOutTypes, GrabRec
  <2>2. grabs[g] = [grabs[g] EXCEPT !.n = grabs[g].n]
    BY <2>1 DEF GrabRec
  <2>3. CASE grabs' = [grabs EXCEPT ![g] = Past([grabs[g] EXCEPT !.n = @ + 1], n, "delete")]
    <3>1. grabs' = [grabs EXCEPT ![g] = Past([grabs[g] EXCEPT !.n = grabs[g].n + 1], n, "delete")]
      BY <2>3, Zenon
    <3>2. QED  BY <1>1, <2>1, <3>1, GrabPasses
  <2>4. CASE grabs' = [grabs EXCEPT ![g] = Past(@, n, "delete")]
    <3>1. grabs' = [grabs EXCEPT ![g] = Past([grabs[g] EXCEPT !.n = grabs[g].n], n, "delete")]
      BY <2>4, <2>2, Zenon
    <3>2. QED  BY <1>1, <2>1, <3>1, GrabPasses
  <2>5. QED  BY <2>3, <2>4, Zenon DEF Fetch
<1>3. PulledInv' /\ KeptInv'
  BY <1>1 DEF DragInv, PulledInv, KeptInv, Without
<1>4. FetchedInv'
  <2>1. "revout" \notin mishaps => \A h, k \in Grabs : Grabbing(h)' /\ Grabbing(k)' => h = k
    BY <1>1, <1>2 DEF DragInv, FetchedInv, Grabbing
  <2>2. ASSUME Without({"unnoticed", "revout"})', NEW h \in Grabs, NEW m \in Names, revout[m] # None
        PROVE  /\ grabs'[h].at = "delete" => <<m, revout[m]>> \in fetched'
               /\ grabs'[h].at = "fetch" => m \in grabs'[h].left \/ <<m, revout[m]>> \in fetched'
    <3>1. Without({"unnoticed", "revout"}) /\ <<n, revout[n]>> \in fetched'
      BY <1>1, <2>2 DEF Without, Fetch
    <3>2. CASE h # g
      BY <1>1, <1>2, <2>2, <3>1, <3>2 DEF DragInv, FetchedInv
    <3>3. CASE h = g
      <4>1. m \in grabs[g].left \/ <<m, revout[m]>> \in fetched
        BY <1>1, <2>2, <3>1 DEF DragInv, FetchedInv
      <4>2. QED  BY <1>1, <1>2, <3>1, <3>3, <4>1
    <3>4. QED  BY <3>2, <3>3
  <2>3. QED  BY <1>1, <2>1, <2>2 DEF FetchedInv, Without
<1>5. QED  BY <1>3, <1>4 DEF DragInv

\* DragInv: what was listed is deleted.
LEMMA DeleteKeeps ==
  ASSUME DragOutTypes, DragInv, NEW g \in Grabs, Delete(g)
  PROVE  DragInv'
<1>1. UNCHANGED <<pull, staged, fetched, mishaps>> /\ grabs[g].at = "delete" /\ revout' \in {Empty, revout}
  BY DEF Delete, stageVars
<1>2. /\ grabs'[g].at \in {"none", "ok"}
      /\ \A h \in Grabs \ {g} : grabs'[h] = grabs[h]
  BY GrabMoves DEF Delete
<1>3. \A n \in Names : revout'[n] \in {None, revout[n]}
  BY <1>1 DEF Empty
<1>4. PulledInv'
  BY <1>1, <1>3, Distinct DEF DragInv, PulledInv
<1>5. FetchedInv'
  <2>1. "revout" \notin mishaps => \A h, k \in Grabs : Grabbing(h)' /\ Grabbing(k)' => h = k
    BY <1>2 DEF DragInv, FetchedInv, Grabbing
  <2>2. ASSUME Without({"unnoticed", "revout"}), NEW h \in Grabs, NEW m \in Names, revout'[m] # None
        PROVE  /\ grabs'[h].at = "delete" => <<m, revout'[m]>> \in fetched
               /\ grabs'[h].at = "fetch" => m \in grabs'[h].left \/ <<m, revout'[m]>> \in fetched
    BY <1>2, <1>3, <2>2 DEF DragInv, FetchedInv
  <2>3. QED  BY <1>1, <2>1, <2>2 DEF FetchedInv, Without
<1>6. KeptInv'
  <2> SUFFICES ASSUME Without({"unnoticed", "revout", "cp"}), NEW n \in Names, NEW h \in Grabs,
                      <<n, h>> \in staged \ fetched
               PROVE  h \in {pull[n], revout'[n]} \/ \E k \in Grabs \ {h} : <<n, k>> \in staged
    BY <1>1 DEF KeptInv, Without
  <2>1. h \in {pull[n], revout[n]} \/ \E k \in Grabs \ {h} : <<n, k>> \in staged
    BY DEF DragInv, KeptInv
  <2>2. Without({"unnoticed", "revout"})
    BY DEF Without
  <2>3. revout[n] # None => <<n, revout[n]>> \in fetched
    BY <1>1, <2>2 DEF DragInv, FetchedInv
  <2>4. QED  BY <2>1, <2>3, Distinct
<1>7. QED  BY <1>4, <1>5, <1>6 DEF DragInv

\* The start and the failure of a script.
LEMMA GrabEndsKeep ==
  ASSUME DragOutTypes, DragInv, NEW g \in Grabs, GrabFails(g) \/ \E n \in Names : DragsOut(g, n)
  PROVE  DragInv'
<1>1. UNCHANGED <<revout, pull, staged, fetched>> /\ mishaps \subseteq mishaps'
  BY DEF GrabFails, DragsOut, stageVars
<1>2. /\ grabs'[g].at \in {"failed", "reverse"} /\ \A h \in Grabs \ {g} : grabs'[h] = grabs[h]
      /\ grabs'[g].at = "failed" => Grabbing(g)
      /\ grabs'[g].at = "reverse" /\ (\E h \in Grabs : Grabbing(h)) => "revout" \in mishaps'
  <2>1. CASE GrabFails(g)
    BY <2>1, GrabMoves DEF GrabFails
  <2>2. CASE \E n \in Names : DragsOut(g, n)
    <3>1. GrabGoes(g, "reverse")
      BY <2>2 DEF DragsOut, GrabGoes
    <3>2. (\E h \in Grabs : Grabbing(h)) => "revout" \in mishaps'
      BY <2>2 DEF DragsOut
    <3>3. QED  BY <3>1, <3>2, GrabMoves
  <2>3. QED  BY <2>1, <2>2
<1>3. PulledInv' /\ KeptInv'
  BY <1>1 DEF DragInv, PulledInv, KeptInv, Without
<1>4. FetchedInv'
  <2>1. "revout" \notin mishaps' => \A h, k \in Grabs : Grabbing(h)' /\ Grabbing(k)' => h = k
    BY <1>1, <1>2 DEF DragInv, FetchedInv, Grabbing
  <2>2. ASSUME Without({"unnoticed", "revout"})', NEW h \in Grabs, NEW m \in Names, revout[m] # None
        PROVE  /\ grabs'[h].at = "delete" => <<m, revout[m]>> \in fetched
               /\ grabs'[h].at = "fetch" => m \in grabs'[h].left \/ <<m, revout[m]>> \in fetched
    <3>1. Without({"unnoticed", "revout"})
      BY <1>1, <2>2 DEF Without
    <3>2. QED  BY <1>2, <2>2, <3>1 DEF DragInv, FetchedInv
  <2>3. QED  BY <1>1, <2>1, <2>2 DEF FetchedInv, Without
<1>5. QED  BY <1>3, <1>4 DEF DragInv

\* DragInv is inductive.
LEMMA DragInvStep == TypeOK /\ DragInv /\ [Next]_vars => DragInv'
<1> SUFFICES ASSUME TypeOK, DragInv, [Next]_vars PROVE DragInv'
  OBVIOUS
<1>1. DragOutTypes /\ cast \in Casts /\ mishaps \subseteq mishaps'
  BY MishapsGrow DEF TypeOK
<1>2. CASE DeliveryNext /\ UNCHANGED dragOutVars
  BY <1>1, <1>2, DragStill DEF dragOutVars, scriptVars, stageVars
<1>3. CASE DragNext
  <2>1. CASE AgentStages
    BY <1>1, <2>1, StageKeeps
  <2>2. ASSUME NEW g \in Grabs, GrabStep(g) \/ \E n \in Names : DragsOut(g, n)
        PROVE  DragInv'
    BY <1>1, <2>2, ReverseKeeps, ReverseBadlyKeeps, ListKeeps, FetchKeeps, DeleteKeeps, GrabEndsKeep DEF GrabStep
  <2>3. QED  BY <1>3, <2>1, <2>2 DEF DragNext
<1>4. CASE AgentRestarts
  BY <1>1, <1>4, DragStill DEF AgentRestarts, scriptVars
<1>5. CASE UNCHANGED vars
  BY <1>1, <1>5, DragStill DEF vars, dragOutVars, scriptVars, stageVars
<1>6. QED  BY <1>1, <1>2, <1>3, <1>4, <1>5, Steps

\* DragInv holds of every behaviour.
LEMMA DragInvariant == Spec => []DragInv
  BY DragInvInit, DragInvStep, Types, PTL DEF Spec

\* Do-Reverse's temporary names and kvm-share.sh reverse: the board never pulls
\* a partial file, whenever the drive is taken away.
THEOREM PullsWhole == Spec => []NeverPullsPartial
<1>1. ASSUME DragInv PROVE NeverPullsPartial
  BY <1>1, Distinct DEF DragInv, PulledInv, NeverPullsPartial, Without
<1>2. QED  BY <1>1, DragInvariant, PTL

\* kvm-grab.ps1 and kvm-share.sh reverse: a file the agent has staged is not
\* lost by a failure that somebody notices, however many drag-outs there are.
THEOREM StagedStays == Spec => []StagedKept
<1>1. ASSUME TypeOK, DragInv PROVE StagedKept
  <2> SUFFICES ASSUME Without({"unnoticed", "revout", "cp"}), NEW f \in staged \ fetched
               PROVE  \/ f[2] \in {pull[f[1]], revout[f[1]]}
                      \/ \E g \in Grabs \ {f[2]} : <<f[1], g>> \in staged
    BY DEF StagedKept
  <2>1. PICK n \in Names, g \in Grabs : f = <<n, g>>
    BY <1>1 DEF TypeOK, DragOutTypes
  <2>2. f[1] = n /\ f[2] = g
    BY <2>1
  <2>3. g \in {pull[n], revout[n]} \/ \E h \in Grabs \ {g} : <<n, h>> \in staged
    BY <1>1, <2>1 DEF DragInv, KeptInv
  <2>4. QED  BY <2>2, <2>3
<1>2. QED  BY <1>1, DragInvariant, Types, PTL

-----------------------------------------------------------------------------
(* Drops                                                                   *)

\* Who has the inbox to himself, when no two overlap.
AloneInv ==
    "inbox" \notin mishaps =>
        \A d \in Drops : Running(d) => ~Pushing /\ \A e \in Drops : Running(e) => e = d

\* How far each script is, and what it has put into the inbox.
FilledInv ==
    \A d \in Drops :
        /\ drops[d].left \subseteq drops[d].files
        /\ drops[d].at = "clear" => drops[d].left = drops[d].files
        /\ drops[d].at = "run" => drops[d].left = {}
        /\ Without({"unnoticed", "inbox"}) /\ drops[d].at \in {"copy", "run"} =>
              \A n \in Names : inbox[n] = IF n \in drops[d].files \ drops[d].left THEN d ELSE None

DropInv == AloneInv /\ FilledInv /\ DropKept

\* No drop's content is taken for nothing, half a file or a version.
LEMMA DropNames == None # Torn /\ \A d \in Drops : d # None /\ d # Torn /\ d \notin Nat
  BY DeliveryAssumption

\* DropInv holds with an empty inbox.
LEMMA DropInvInit == Init => DropInv
  BY DropNames DEF Init, DeliveryInit, DropInv, AloneInv, FilledInv, DropKept, Empty, Running

\* Steps of nobody who drops, with the inbox as it is unless the daemon pushes.
LEMMA DropStill ==
  ASSUME DropInv, mishaps \subseteq mishaps', UNCHANGED <<drops, dropDir>>,
         arrived \subseteq arrived', Pushing' => Pushing \/ "inbox" \in mishaps' \/ \A d \in Drops : ~Running(d),
         inbox' = inbox \/ Pushing
  PROVE  DropInv'
<1>1. AloneInv'
  BY DEF DropInv, AloneInv, Running, Pushing
<1>2. FilledInv'
  <2> SUFFICES ASSUME NEW d \in Drops, Without({"unnoticed", "inbox"})', drops[d].at \in {"copy", "run"}
               PROVE  \A n \in Names : inbox'[n] = IF n \in drops[d].files \ drops[d].left THEN d ELSE None
    BY DEF DropInv, FilledInv
  <2>1. Without({"unnoticed", "inbox"}) /\ "inbox" \notin mishaps
    BY DEF Without
  <2>2. inbox' = inbox
    BY <2>1 DEF DropInv, AloneInv, Running
  <2>3. QED  BY <2>1, <2>2 DEF DropInv, FilledInv
<1>3. DropKept'
  BY DEF DropInv, DropKept, Without
<1>4. QED  BY <1>1, <1>2, <1>3 DEF DropInv

\* A drop that begins.
LEMMA UserDropsKeep ==
  ASSUME DeliveryTypes, DropInv, NEW d \in Drops, NEW files \in SUBSET Names, UserDrops(d, files)
  PROVE  DropInv'
<1>1. /\ drops'[d].at = "clear" /\ drops'[d].left = files /\ drops'[d].files = files
      /\ \A e \in Drops \ {d} : drops'[e] = drops[e]
      /\ drops[d].at = "idle"
  BY DEF UserDrops, DeliveryTypes
<1>2. /\ UNCHANGED <<dropDir, arrived, desktop, inbox, sync>> /\ mishaps \subseteq mishaps'
      /\ "inbox" \notin mishaps' => ~Pushing /\ \A e \in Drops : ~Running(e)
  BY DEF UserDrops, agentVars, syncVars
<1>3. AloneInv'
  BY <1>1, <1>2 DEF AloneInv, Running, Pushing
<1>4. FilledInv'
  BY <1>1, <1>2 DEF DropInv, FilledInv, Without
<1>5. DropKept'
  BY <1>1, <1>2 DEF DropInv, DropKept, Without
<1>6. QED  BY <1>3, <1>4, <1>5 DEF DropInv

\* A running drop that goes on, or ends, with the inbox to itself.
LEMMA DropGoesOn ==
  ASSUME DropInv, NEW d \in Drops, Running(d), mishaps \subseteq mishaps',
         \A e \in Drops \ {d} : drops'[e] = drops[e],
         UNCHANGED sync
  PROVE  /\ AloneInv'
         /\ Without({"unnoticed", "inbox"})' => \A e \in Drops \ {d} : ~Running(e)
         /\ Without({"unnoticed", "inbox"})' => Without({"unnoticed", "inbox"})
<1>1. \A e \in Drops \ {d} : Running(e)' <=> Running(e)
  BY DEF Running
<1>2. "inbox" \notin mishaps' => ~Pushing' /\ \A e \in Drops \ {d} : ~Running(e)
  BY DEF DropInv, AloneInv, Pushing
<1>3. AloneInv'
  BY <1>1, <1>2 DEF AloneInv
<1>4. QED  BY <1>2, <1>3 DEF Without

\* DropInv: a drop clears the inbox.
LEMMA DropClearsKeeps ==
  ASSUME DeliveryTypes, DropInv, NEW d \in Drops, DropClears(d)
  PROVE  DropInv'
<1>1. /\ drops[d].at = "clear" /\ Running(d) /\ drops'[d].at = "copy"
      /\ drops'[d].files = drops[d].files /\ drops'[d].left = drops[d].left
      /\ \A e \in Drops \ {d} : drops'[e] = drops[e]
  BY DropMoves DEF DropClears, Running
<1>2. /\ UNCHANGED <<dropDir, arrived, desktop, sync>> /\ mishaps \subseteq mishaps'
      /\ inbox' = Empty \/ "unnoticed" \in mishaps'
  BY DEF DropClears, agentVars, syncVars
<1>3. /\ AloneInv'
      /\ Without({"unnoticed", "inbox"})' => \A e \in Drops \ {d} : ~Running(e)
      /\ Without({"unnoticed", "inbox"})' => Without({"unnoticed", "inbox"})
  BY <1>1, <1>2, DropGoesOn
<1>4. FilledInv'
  BY <1>1, <1>2, <1>3 DEF DropInv, FilledInv, Running, Without, Empty
<1>5. DropKept'
  BY <1>1, <1>2 DEF DropInv, DropKept, Without
<1>6. QED  BY <1>3, <1>4, <1>5 DEF DropInv

\* DropInv: it copies a file.
LEMMA DropCopiesKeeps ==
  ASSUME DeliveryTypes, DropInv, NEW d \in Drops, NEW n \in Names, DropCopies(d, n)
  PROVE  DropInv'
<1>1. /\ drops[d].at = "copy" /\ Running(d) /\ n \in drops[d].left
      /\ drops'[d].at = IF drops[d].left = {n} THEN "run" ELSE "copy"
      /\ drops'[d].files = drops[d].files /\ drops'[d].left = drops[d].left \ {n}
      /\ \A e \in Drops \ {d} : drops'[e] = drops[e]
  BY DropPasses DEF DropCopies, Running
<1>2. /\ UNCHANGED <<dropDir, arrived, desktop, sync>> /\ mishaps \subseteq mishaps'
      /\ inbox' = [inbox EXCEPT ![n] = d] \/ "unnoticed" \in mishaps'
  BY DEF DropCopies, agentVars, syncVars
<1>3. /\ AloneInv'
      /\ Without({"unnoticed", "inbox"})' => \A e \in Drops \ {d} : ~Running(e)
      /\ Without({"unnoticed", "inbox"})' => Without({"unnoticed", "inbox"})
  BY <1>1, <1>2, DropGoesOn
<1>4. FilledInv'
  <2>1. drops'[d].left \subseteq drops'[d].files /\ drops'[d].at # "clear" /\ (drops'[d].at = "run" => drops'[d].left = {})
    BY <1>1 DEF DropInv, FilledInv
  <2>2. ASSUME Without({"unnoticed", "inbox"})', NEW m \in Names
        PROVE  inbox'[m] = IF m \in drops'[d].files \ drops'[d].left THEN d ELSE None
    <3>1. inbox[m] = IF m \in drops[d].files \ drops[d].left THEN d ELSE None
      BY <1>1, <1>3, <2>2 DEF DropInv, FilledInv
    <3>2. inbox'[m] = IF m = n THEN d ELSE inbox[m]
      BY <1>2, <2>2 DEF Without, DeliveryTypes
    <3>3. n \in drops[d].files
      BY <1>1 DEF DropInv, FilledInv
    <3>4. QED  BY <1>1, <3>1, <3>2, <3>3
  <2>3. \A e \in Drops \ {d} :
           /\ drops'[e].left \subseteq drops'[e].files
           /\ drops'[e].at = "clear" => drops'[e].left = drops'[e].files
           /\ drops'[e].at = "run" => drops'[e].left = {}
           /\ Without({"unnoticed", "inbox"})' => drops'[e].at \notin {"copy", "run"}
    BY <1>1, <1>3 DEF DropInv, FilledInv, Running
  <2>4. QED  BY <2>1, <2>2, <2>3 DEF FilledInv
<1>5. DropKept'
  BY <1>1, <1>2 DEF DropInv, DropKept, Without
<1>6. QED  BY <1>3, <1>4, <1>5 DEF DropInv

\* DropInv: it ends with an error.
LEMMA DropFailsKeeps ==
  ASSUME DeliveryTypes, DropInv, NEW d \in Drops, DropFails(d)
  PROVE  DropInv'
<1>1. /\ Running(d) /\ drops'[d].at = "failed"
      /\ drops'[d].files = drops[d].files /\ drops'[d].left = drops[d].left
      /\ \A e \in Drops \ {d} : drops'[e] = drops[e]
  BY DropMoves DEF DropFails
<1>2. UNCHANGED <<dropDir, arrived, desktop, sync, mishaps>>
  BY DEF DropFails, agentVars, syncVars
<1>3. /\ AloneInv'
      /\ Without({"unnoticed", "inbox"})' => \A e \in Drops \ {d} : ~Running(e)
  BY <1>1, <1>2, DropGoesOn
<1>4. FilledInv'
  BY <1>1, <1>3 DEF DropInv, FilledInv, Running
<1>5. DropKept'
  BY <1>1, <1>2 DEF DropInv, DropKept, Without
<1>6. QED  BY <1>3, <1>4, <1>5 DEF DropInv

\* DropInv: kvm-drop.sh.
LEMMA DropRunsKeeps ==
  ASSUME DeliveryTypes, DropInv, NEW d \in Drops, DropRuns(d)
  PROVE  DropInv'
<1>1. /\ Running(d) /\ drops[d].at = "run" /\ drops'[d].at \in {"ok", "failed"}
      /\ drops'[d].files = drops[d].files /\ drops'[d].left = drops[d].left
      /\ \A e \in Drops \ {d} : drops'[e] = drops[e]
  BY DropMoves DEF DropRuns, Running
<1>2. UNCHANGED <<arrived, desktop, sync, inbox>> /\ mishaps \subseteq mishaps'
  BY DEF DropRuns, agentVars, syncVars
<1>3. /\ AloneInv'
      /\ Without({"unnoticed", "inbox"})' => \A e \in Drops \ {d} : ~Running(e)
      /\ Without({"unnoticed", "inbox"})' => Without({"unnoticed", "inbox"})
  BY <1>1, <1>2, DropGoesOn
<1>4. FilledInv'
  BY <1>1, <1>3 DEF DropInv, FilledInv, Running
<1>5. PICK lost \in SUBSET Listed(inbox), torn \in SUBSET Listed(inbox) :
          /\ torn \subseteq lost
          /\ dropDir' = [n \in Names |-> IF n \in torn THEN Torn ELSE IF n \in lost THEN None ELSE inbox[n]]
          /\ drops'[d].at = "ok" => lost = {}
          /\ mishaps' = mishaps \cup (IF lost # {} THEN {"cp"} ELSE {})
                                \cup (IF Waiting # {} THEN {"hurry"} ELSE {})
                                \cup (IF Again # {} THEN {"redo"} ELSE {})
  <2>1. DropGoes(d, "failed") => drops'[d].at # "ok"
    BY DropMoves
  <2>2. QED  BY <2>1 DEF DropRuns
<1>6. ASSUME Without({"unnoticed", "inbox"})' PROVE \A n \in Names : inbox[n] = IF n \in drops[d].files THEN d ELSE None
  BY <1>1, <1>3, <1>6 DEF DropInv, FilledInv
<1>7. DropKept'
  <2> SUFFICES ASSUME Without({"unnoticed", "inbox", "hurry"})', NEW e \in Drops, drops'[e].at = "ok",
                      NEW n \in drops'[e].files
               PROVE  <<n, e>> \in arrived \/ dropDir'[n] = e
    BY <1>2 DEF DropKept
  <2>1. Without({"unnoticed", "inbox"})' /\ Without({"unnoticed", "inbox", "hurry"}) /\ Waiting = {}
    BY <1>2, <1>5 DEF Without
  <2>2. n \in Names
    BY <1>1 DEF DeliveryTypes
  <2>3. CASE e = d
    BY <1>1, <1>5, <1>6, <2>1, <2>2, <2>3
  <2>4. CASE e # d
    <3>1. <<n, e>> \in arrived \/ dropDir[n] = e
      BY <1>1, <2>1, <2>4 DEF DropInv, DropKept
    <3>2. dropDir[n] = e => n \in Listed(dropDir)
      BY <2>2, DropNames DEF Listed
    <3>3. QED  BY <2>1, <3>1, <3>2 DEF Waiting
  <2>5. QED  BY <2>3, <2>4
<1>8. QED  BY <1>3, <1>4, <1>7 DEF DropInv

\* DropInv is inductive.
LEMMA DropInvStep == TypeOK /\ DropInv /\ [Next]_vars => DropInv'
<1> SUFFICES ASSUME TypeOK, DropInv, [Next]_vars PROVE DropInv'
  OBVIOUS
<1>1. DeliveryTypes /\ cast \in Casts /\ mishaps \subseteq mishaps'
  BY MishapsGrow DEF TypeOK
<1>3. CASE \E d \in Drops, files \in SUBSET Names : UserDrops(d, files)
  BY <1>1, <1>3, UserDropsKeep
<1>4. CASE \E d \in Drops : DropStep(d)
  BY <1>1, <1>4, DropClearsKeeps, DropCopiesKeeps, DropFailsKeeps, DropRunsKeeps DEF DropStep
<1>5. CASE \E n \in Names : UserWrites(n)
  BY <1>1, <1>5, DropStill DEF UserWrites, dropVars, agentVars, Pushing
<1>6. CASE ForwardStep
  <2>1. UNCHANGED <<drops, dropDir, sync, inbox>> /\ arrived \subseteq arrived'
    BY <1>6 DEF ForwardStep, ForwardStarts, Forwarded, ForwardFails, dropVars, syncVars
  <2>2. QED  BY <1>1, <2>1, DropStill DEF Pushing
<1>7. CASE SyncStep
  <2>1. UNCHANGED <<drops, dropDir, arrived, desktop>>
    BY <1>7 DEF SyncStep, SyncStarts, SyncStops, Scan, SyncClears, SyncCopies, SyncUnnoticed, SyncFails, SyncRuns, SyncRunsBadly, dropVars, agentVars
  <2>2. Pushing' => Pushing \/ "inbox" \in mishaps' \/ \A d \in Drops : ~Running(d)
    <3>1. SyncStarts => ~Pushing'
      BY <1>1, SyncMoves DEF SyncStarts, SyncGoes, Pushing
    <3>2. SyncStops => ~Pushing'
      BY DEF SyncStops, Pushing
    <3>3. Scan => UNCHANGED sync \/ "inbox" \in mishaps' \/ \A d \in Drops : ~Running(d)
      BY DEF Scan
    <3>4. QED
      BY <1>7, <3>1, <3>2, <3>3
         DEF SyncStep, SyncClears, SyncCopies, SyncUnnoticed, SyncFails, SyncRuns, SyncRunsBadly, Pushing
  <2>3. inbox' = inbox \/ Pushing
    BY <1>7 DEF SyncStep, SyncStarts, SyncStops, Scan, SyncClears, SyncCopies, SyncUnnoticed, SyncFails, SyncRuns, SyncRunsBadly, Pushing
  <2>4. QED  BY <1>1, <2>1, <2>2, <2>3, DropStill
<1>8. CASE UNCHANGED <<dropVars, agentVars, syncVars, inbox>>
  BY <1>1, <1>8, DropStill DEF dropVars, agentVars, syncVars, Pushing
<1>9. CASE AgentRestarts
  BY <1>1, <1>9, DropStill DEF AgentRestarts, AgentForgets, dropVars, syncVars, Pushing
<1>10. CASE UNCHANGED vars
  BY <1>8, <1>10 DEF vars, deliveryVars
<1>11. QED  BY <1>1, <1>3, <1>4, <1>5, <1>6, <1>7, <1>8, <1>9, <1>10, Steps DEF DeliveryNext

\* DropInv holds of every behaviour.
LEMMA DropInvariant == Spec => []DropInv
  BY DropInvInit, DropInvStep, Types, PTL DEF Spec

\* kvm-drop.ps1: what a drop has reported with OK is on the Desktop, has been
\* there, or waits for the agent, unless one of the listed mishaps has happened.
THEOREM ReportedIsKept == Spec => []DropKept
  BY DropInvariant, PTL DEF DropInv

-----------------------------------------------------------------------------
(* The target's Desktop                                                    *)

\* No half of a file on its way to the Desktop.
WholeInv ==
    Without({"unnoticed", "inbox", "cp"}) =>
        (\A n \in Names : dropDir[n] # Torn) /\ (forwarding # None => forwarding[2] # Torn)

\* What Do-Forward is copying it has not copied, and as long as no drop hurries
\* it is in _drop.
ForwardInv ==
    forwarding # None =>
        /\ forwarding \notin seen /\ forwarding[2] # None
        /\ Without({"hurry", "redo"}) => dropDir[forwarding[1]] = forwarding[2]

AgentInv == WholeInv /\ ForwardInv /\ WholeOnDesktop

\* AgentInv holds of an empty Desktop.
LEMMA AgentInvInit == Init => AgentInv
  BY DropNames DEF Init, DeliveryInit, AgentInv, WholeInv, ForwardInv, WholeOnDesktop, Empty

\* Steps that leave _drop and the agent alone.
LEMMA AgentStill ==
  ASSUME AgentInv, mishaps \subseteq mishaps', UNCHANGED <<dropDir, agentVars>>
  PROVE  AgentInv'
<1>1. WholeInv' /\ ForwardInv'
  BY DEF AgentInv, WholeInv, ForwardInv, Without, agentVars
<1>2. WholeOnDesktop'
  BY DEF AgentInv, WholeOnDesktop, Without, IsSeen, agentVars
<1>3. QED  BY <1>1, <1>2 DEF AgentInv

\* kvm-drop.sh: a drop that takes nothing away that the agent has yet to copy
\* finds no half of a file on the Desktop.
LEMMA DropRunsWhole ==
  ASSUME DeliveryTypes, DropInv, AgentInv, NEW d \in Drops, DropRuns(d)
  PROVE  AgentInv'
<1>1. UNCHANGED <<agentVars, inbox>> /\ mishaps \subseteq mishaps' /\ drops[d].at = "run"
  BY DEF DropRuns
<1>2. PICK lost \in SUBSET Listed(inbox), torn \in SUBSET Listed(inbox) :
          /\ torn \subseteq lost
          /\ dropDir' = [n \in Names |-> IF n \in torn THEN Torn ELSE IF n \in lost THEN None ELSE inbox[n]]
          /\ mishaps' = mishaps \cup (IF lost # {} THEN {"cp"} ELSE {})
                                \cup (IF Waiting # {} THEN {"hurry"} ELSE {})
                                \cup (IF Again # {} THEN {"redo"} ELSE {})
  BY DEF DropRuns
<1>3. Without({"unnoticed", "inbox"})' => \A n \in Names : inbox[n] = IF n \in drops[d].files THEN d ELSE None
  BY <1>1 DEF DropInv, FilledInv, Without
<1>4. WholeInv'
  <2> SUFFICES ASSUME Without({"unnoticed", "inbox", "cp"})'
               PROVE  (\A n \in Names : dropDir'[n] # Torn) /\ (forwarding # None => forwarding[2] # Torn)
    BY <1>1 DEF WholeInv, agentVars
  <2>1. Without({"unnoticed", "inbox"})' /\ Without({"unnoticed", "inbox", "cp"}) /\ torn = {}
    BY <1>1, <1>2 DEF Without
  <2>2. QED  BY <1>2, <1>3, <2>1, DropNames DEF AgentInv, WholeInv
<1>5. ASSUME Without({"hurry", "redo"})'
      PROVE  /\ forwarding = None /\ Without({"hurry", "redo"})
             /\ \A n \in Names : dropDir[n] # None => IsSeen(n)
  <2>1. Waiting = {} /\ Again = {} /\ Without({"hurry", "redo"})
    BY <1>2, <1>5 DEF Without
  <2>2. \A n \in Names : dropDir[n] # None => IsSeen(n)
    BY <2>1 DEF Waiting, Again, Listed, IsSeen
  <2>3. ASSUME forwarding # None PROVE FALSE
    <3>1. dropDir[forwarding[1]] = forwarding[2] /\ forwarding \notin seen
      BY <2>1, <2>3 DEF AgentInv, ForwardInv
    <3>2. PICK n \in Names, c \in Contents : forwarding = <<n, c>>
      BY <2>3 DEF DeliveryTypes
    <3>3. <<n, dropDir[n]>> \notin seen
      BY <3>1, <3>2
    <3>4. dropDir[n] = None
      BY <2>2, <3>3 DEF IsSeen
    <3>5. QED  BY <3>1, <3>2, <3>4, <2>3 DEF AgentInv, ForwardInv
  <2>4. QED  BY <2>1, <2>2, <2>3
<1>6. ForwardInv'
  BY <1>1, <1>5 DEF AgentInv, ForwardInv, agentVars
<1>7. WholeOnDesktop'
  <2> SUFFICES ASSUME Without({"unnoticed", "inbox", "cp", "hurry", "redo"})', NEW n \in Names, desktop[n] = Torn
               PROVE  FALSE
    BY <1>1 DEF WholeOnDesktop, agentVars
  <2>1. Without({"hurry", "redo"})' /\ Without({"unnoticed", "inbox", "cp", "hurry", "redo"})
    BY <1>1 DEF Without
  <2>2. QED  BY <1>5, <2>1 DEF AgentInv, WholeOnDesktop
<1>8. QED  BY <1>4, <1>6, <1>7 DEF AgentInv

\* A pair that Do-Forward copies is not taken for nothing.
LEMMA PairIsNotNone ==
  ASSUME NEW n \in Names, NEW c \in Contents \ {None}
  PROVE  <<n, c>> # None
<1>1. c \in Nat \cup Drops \cup {Torn}
  BY DeliveryAssumption DEF Contents, Versions
<1>2. QED  BY <1>1, DeliveryAssumption

\* Do-Forward begins a copy.
LEMMA ForwardStartsWhole ==
  ASSUME DeliveryTypes, AgentInv, NEW n \in Names, ForwardStarts(n)
  PROVE  AgentInv'
<1>1. /\ forwarding = None /\ dropDir[n] # None /\ <<n, dropDir[n]>> \notin seen
      /\ forwarding' = <<n, dropDir[n]>> /\ desktop' = [desktop EXCEPT ![n] = Torn]
      /\ UNCHANGED <<seen, dropDir, mishaps>>
  BY DEF ForwardStarts, IsSeen, dropVars
<1>2. dropDir \in [Names -> Contents] /\ desktop \in [Names -> Contents]
  BY DEF DeliveryTypes
<1>3. forwarding' # None /\ forwarding'[1] = n /\ forwarding'[2] = dropDir[n]
  BY <1>1, <1>2, PairIsNotNone
<1>4. WholeInv'
  BY <1>1, <1>3 DEF AgentInv, WholeInv, Without
<1>5. ForwardInv'
  BY <1>1, <1>3 DEF ForwardInv
<1>6. WholeOnDesktop'
  BY <1>1, <1>2, <1>3 DEF AgentInv, WholeOnDesktop, Without, IsSeen
<1>7. QED  BY <1>4, <1>5, <1>6 DEF AgentInv

\* It completes the copy, or the copy fails.
LEMMA ForwardEndsWhole ==
  ASSUME DeliveryTypes, AgentInv, NEW n \in Names, Forwarded(n) \/ ForwardFails(n)
  PROVE  AgentInv'
<1>1. /\ forwarding # None /\ forwarding[1] = n /\ forwarding' = None
      /\ desktop' = [desktop EXCEPT ![n] = forwarding[2]] \/ desktop' = [desktop EXCEPT ![n] = None]
      /\ seen' \subseteq seen \cup {forwarding} /\ UNCHANGED <<dropDir, mishaps>>
  BY DEF Forwarded, ForwardFails, dropVars
<1>2. desktop \in [Names -> Contents]
  BY DEF DeliveryTypes
<1>3. WholeInv' /\ ForwardInv'
  BY <1>1 DEF AgentInv, WholeInv, ForwardInv, Without
<1>4. WholeOnDesktop'
  <2> SUFFICES ASSUME Without({"unnoticed", "inbox", "cp", "hurry", "redo"}), NEW m \in Names, desktop'[m] = Torn
               PROVE  dropDir[m] # None /\ <<m, dropDir[m]>> \notin seen'
    BY <1>1 DEF WholeOnDesktop, IsSeen, Without
  <2>1. m # n
    <3>1. Without({"unnoticed", "inbox", "cp"})
      BY DEF Without
    <3>2. forwarding[2] # Torn
      BY <1>1, <3>1 DEF AgentInv, WholeInv
    <3>3. desktop'[n] # Torn
      BY <1>1, <1>2, <3>2, DropNames
    <3>4. QED  BY <3>3
  <2>2. desktop[m] = Torn
    BY <1>1, <1>2, <2>1
  <2>3. dropDir[m] # None /\ <<m, dropDir[m]>> \notin seen
    BY <1>1, <2>1, <2>2 DEF AgentInv, WholeOnDesktop, IsSeen
  <2>4. <<m, dropDir[m]>> # forwarding
    BY <1>1, <2>1
  <2>5. QED  BY <1>1, <2>3, <2>4
<1>5. QED  BY <1>3, <1>4 DEF AgentInv

\* AgentInv is inductive: an agent that starts again comes to the file whose
\* copy it left half done.
LEMMA AgentInvStep == TypeOK /\ DropInv /\ AgentInv /\ [Next]_vars => AgentInv'
<1> SUFFICES ASSUME TypeOK, DropInv, AgentInv, [Next]_vars PROVE AgentInv'
  OBVIOUS
<1>1. DeliveryTypes /\ cast \in Casts /\ mishaps \subseteq mishaps'
  BY MishapsGrow DEF TypeOK
<1>2. CASE UNCHANGED <<dropDir, agentVars>>
  BY <1>1, <1>2, AgentStill
<1>3. CASE \E d \in Drops : DropRuns(d)
  BY <1>1, <1>3, DropRunsWhole
<1>4. CASE ForwardStep
  BY <1>1, <1>4, ForwardStartsWhole, ForwardEndsWhole DEF ForwardStep
<1>5. CASE AgentRestarts
  <2>1. seen' = {} /\ forwarding' = None /\ UNCHANGED <<desktop, dropDir, mishaps>>
    BY <1>5 DEF AgentRestarts, AgentForgets, dropVars
  <2>2. WholeInv' /\ ForwardInv'
    BY <2>1 DEF AgentInv, WholeInv, ForwardInv, Without
  <2>3. WholeOnDesktop'
    <3> SUFFICES ASSUME Without({"unnoticed", "inbox", "cp", "hurry", "redo"}), NEW n \in Names, desktop[n] = Torn
                 PROVE  dropDir[n] # None
      BY <2>1 DEF WholeOnDesktop, IsSeen, Without
    <3>1. Without({"hurry", "redo"})
      BY DEF Without
    <3>2. QED  BY <3>1 DEF AgentInv, WholeOnDesktop, ForwardInv
  <2>4. QED  BY <2>2, <2>3 DEF AgentInv
<1>6. DeliveryNext => \/ UNCHANGED <<dropDir, agentVars>>
                      \/ \E d \in Drops : DropRuns(d)
                      \/ ForwardStep
  BY DEF DeliveryNext, UserDrops, UserWrites, DropStep, DropClears, DropCopies, DropFails,
     SyncStep, SyncStarts, SyncStops, Scan, SyncClears, SyncCopies, SyncUnnoticed, SyncFails, SyncRuns,
     SyncRunsBadly, dropVars
<1>7. UNCHANGED vars \/ UNCHANGED <<dropVars, agentVars, syncVars, inbox>> => UNCHANGED <<dropDir, agentVars>>
  BY DEF vars, deliveryVars, dropVars
<1>8. QED  BY <1>1, <1>2, <1>3, <1>4, <1>5, <1>6, <1>7, Steps

\* kvm-drop.sh and Do-Forward: half a file on the Desktop is being copied or
\* will be copied again, for any drops, failing calls and restarts of the agent,
\* as long as errors are noticed and no drop empties _drop under the agent.
THEOREM DesktopWhole == Spec => []WholeOnDesktop
<1>1. AgentInv => WholeOnDesktop
  BY DEF AgentInv
<1>2. QED  BY <1>1, AgentInvInit, AgentInvStep, DropInvariant, Types, PTL DEF Spec

-----------------------------------------------------------------------------
(* The folder                                                              *)

\* Contents the folder has had, complete.
Had == (1 .. written) \cup {None}

\* No content comes back: what is known or about to be is older than the next
\* file written.
OldInv ==
    \A n \in Names :
        /\ sync.files[n] \in Had
        /\ known[n] \in Had \cup {Torn} /\ share[n] \in Had \cup {Torn}

\* What the daemon pushes it did not know, unless it grows again, and what of it
\* has not changed since is in the inbox.
PlanInv ==
    /\ sync.at = "clear" => sync.left = Listed(sync.files)
    /\ sync.left \subseteq Listed(sync.files)
    /\ sync.at = "run" => sync.left = {}
    /\ \A n \in Names : Pushing /\ sync.files[n] # None => share[n] = Torn \/ share[n] # known[n]
    /\ Without({"unnoticed", "inbox"}) /\ sync.at \in {"copy", "run"} =>
          \A n \in Names :
              IF n \in Listed(sync.files) \ sync.left
              THEN share[n] = sync.files[n] => inbox[n] = share[n]
              ELSE inbox[n] = None

PushInv == OldInv /\ PlanInv /\ PushedOrSkipped

\* PushInv holds with nothing known.
LEMMA PushInvInit == Init => PushInv
<1> SUFFICES ASSUME Init PROVE PushInv
  OBVIOUS
<1>1. /\ sync.at = "off" /\ sync.left = {} /\ \A n \in Names : known[n] = None /\ share[n] = None /\ sync.files[n] = None
  BY DEF Init, DeliveryInit, Empty
<1>2. OldInv
  BY <1>1 DEF OldInv, Had
<1>3. PlanInv
  BY <1>1 DEF PlanInv, Pushing
<1>4. PushedOrSkipped
  BY <1>1, DeliveryAssumption DEF PushedOrSkipped, Versions
<1>5. QED  BY <1>2, <1>3, <1>4 DEF PushInv

\* Steps of others, which leave the inbox to a daemon that pushes.
LEMMA PushStill ==
  ASSUME PushInv, mishaps \subseteq mishaps', UNCHANGED <<sync, share, known, drive, written, skipped>>,
         inbox' = inbox \/ "inbox" \in mishaps' \/ "unnoticed" \in mishaps' \/ ~Pushing
  PROVE  PushInv'
<1>1. OldInv'
  BY DEF PushInv, OldInv, Had
<1>2. PlanInv'
  BY DEF PushInv, PlanInv, Pushing, Without, Listed
<1>3. PushedOrSkipped'
  BY DEF PushInv, PushedOrSkipped, Without
<1>4. QED  BY <1>1, <1>2, <1>3 DEF PushInv

\* PushInv: a file of the folder is written.
LEMMA WritesKeep ==
  ASSUME DeliveryTypes, PushInv, NEW m \in Names, UserWrites(m)
  PROVE  PushInv'
<1>1. /\ UNCHANGED <<known, sync, drive, inbox, mishaps, skipped>> /\ written \in Nat /\ written' \in {written, written + 1}
      /\ \A n \in Names \ {m} : share'[n] = share[n]
      /\ share'[m] = Torn \/ (share'[m] = written + 1 /\ written' = written + 1)
  BY DeliveryAssumption DEF UserWrites, dropVars, agentVars, DeliveryTypes
<1>2. Had \subseteq Had' /\ written + 1 \notin Had /\ Torn \notin Had /\ (share'[m] # Torn => share'[m] \in Had')
  <2>1. written + 1 # None /\ Torn \notin Nat /\ Torn # None
    BY <1>1, DeliveryAssumption
  <2>2. QED  BY <1>1, <2>1 DEF Had
<1>3. OldInv'
  BY <1>1, <1>2 DEF PushInv, OldInv
<1>4. (share'[m] = Torn \/ share'[m] # known[m]) /\ share'[m] # sync.files[m]
  BY <1>1, <1>2 DEF PushInv, OldInv
<1>5. PlanInv'
  <2>1. /\ sync'.at = sync.at /\ sync'.left = sync.left /\ sync'.files = sync.files /\ Pushing' = Pushing
        /\ Listed(sync'.files) = Listed(sync.files) /\ Without({"unnoticed", "inbox"})' = Without({"unnoticed", "inbox"})
    BY <1>1 DEF Pushing, Listed, Without
  <2>2. \A n \in Names : share'[n] # share[n] => (share'[n] = Torn \/ share'[n] # known[n]) /\ share'[n] # sync.files[n]
    BY <1>1, <1>4
  <2>3. QED  BY <1>1, <2>1, <2>2 DEF PushInv, PlanInv
<1>6. PushedOrSkipped'
  BY <1>1, <1>4, DeliveryAssumption DEF PushInv, PushedOrSkipped, Without, Versions
<1>7. QED  BY <1>3, <1>5, <1>6 DEF PushInv

\* PushInv: a scan.
LEMMA ScanKeeps ==
  ASSUME DeliveryTypes, PushInv, Scan
  PROVE  PushInv'
<1>1. UNCHANGED <<share, written, known, drive, skipped, inbox>> /\ mishaps \subseteq mishaps' /\ sync.at = "sleep"
  BY DEF Scan, agentVars, dropVars
<1>2. CASE UNCHANGED sync
  BY <1>1, <1>2, PushStill
<1>3. CASE sync' = [at |-> "clear", left |-> Changed,
                    files |-> [n \in Names |-> IF n \in Changed THEN share[n] ELSE None]]
  <2>1. /\ sync'.at = "clear" /\ sync'.left = Changed
        /\ \A n \in Names : sync'.files[n] = IF n \in Changed THEN share[n] ELSE None
    BY <1>3
  <2>2. Changed \subseteq Names /\ \A n \in Changed : share[n] # None /\ share[n] # Torn /\ known[n] # share[n]
    BY DEF Changed, Listed
  <2>3. OldInv'
    BY <1>1, <2>1, <2>2 DEF PushInv, OldInv, Had
  <2>4. Listed(sync'.files) = Changed
    BY <2>1, <2>2 DEF Listed
  <2>5. PlanInv'
    BY <1>1, <2>1, <2>2, <2>4 DEF PlanInv
  <2>6. PushedOrSkipped'
    BY <1>1 DEF PushInv, PushedOrSkipped, Without
  <2>7. QED  BY <2>3, <2>5, <2>6 DEF PushInv
<1>4. QED  BY <1>2, <1>3 DEF Scan

\* Calls of the daemon that go on with its plan.
LEMMA SyncGoesOn ==
  ASSUME PushInv, UNCHANGED <<share, known, drive, written, skipped>>, sync'.files = sync.files, mishaps \subseteq mishaps'
  PROVE  OldInv' /\ PushedOrSkipped' /\ Listed(sync'.files) = Listed(sync.files)
<1>1. OldInv'
  BY DEF PushInv, OldInv, Had
<1>2. PushedOrSkipped'
  BY DEF PushInv, PushedOrSkipped, Without
<1>3. QED  BY <1>1, <1>2

\* PushInv: the daemon clears the inbox.
LEMMA SyncClearsKeeps ==
  ASSUME DeliveryTypes, PushInv, SyncClears
  PROVE  PushInv'
<1>1. /\ sync.at = "clear" /\ sync'.at = "copy" /\ sync'.files = sync.files /\ sync'.left = sync.left
      /\ UNCHANGED <<share, known, drive, written, skipped, mishaps>> /\ inbox' = Empty
  BY SyncMoves DEF SyncClears
<1>2. OldInv' /\ PushedOrSkipped' /\ Listed(sync'.files) = Listed(sync.files)
  BY <1>1, SyncGoesOn
<1>3. PlanInv'
  BY <1>1, <1>2 DEF PushInv, PlanInv, Pushing, Empty
<1>4. QED  BY <1>2, <1>3 DEF PushInv

\* PushInv: it copies a file.
LEMMA SyncCopiesKeeps ==
  ASSUME DeliveryTypes, PushInv, NEW m \in Names, SyncCopies(m)
  PROVE  PushInv'
<1>1. /\ sync.at = "copy" /\ m \in sync.left
      /\ sync'.at = IF sync.left = {m} THEN "run" ELSE "copy"
      /\ sync'.files = sync.files /\ sync'.left = sync.left \ {m}
      /\ UNCHANGED <<share, known, drive, written, skipped, mishaps>> /\ inbox' = [inbox EXCEPT ![m] = share[m]]
  BY SyncPasses DEF SyncCopies
<1>2. OldInv' /\ PushedOrSkipped' /\ Listed(sync'.files) = Listed(sync.files)
  BY <1>1, SyncGoesOn
<1>3. inbox'[m] = share[m] /\ \A n \in Names \ {m} : inbox'[n] = inbox[n]
  BY <1>1 DEF DeliveryTypes
<1>4. PlanInv'
  <2>1. /\ sync.left \subseteq Listed(sync.files)
        /\ \A n \in Names : sync.files[n] # None => share[n] = Torn \/ share[n] # known[n]
    BY <1>1 DEF PushInv, PlanInv, Pushing
  <2>2. ASSUME Without({"unnoticed", "inbox"}), NEW n \in Names
        PROVE  IF n \in Listed(sync.files) \ (sync.left \ {m})
               THEN share[n] = sync.files[n] => inbox'[n] = share[n]
               ELSE inbox'[n] = None
    <3>1. IF n \in Listed(sync.files) \ sync.left
          THEN share[n] = sync.files[n] => inbox[n] = share[n]
          ELSE inbox[n] = None
      BY <1>1, <2>2 DEF PushInv, PlanInv
    <3>2. CASE n = m
      BY <1>1, <1>3, <2>1, <3>2
    <3>3. CASE n # m
      BY <1>3, <3>1, <3>3
    <3>4. QED  BY <3>2, <3>3
  <2>3. Without({"unnoticed", "inbox"})' => Without({"unnoticed", "inbox"})
    BY <1>1 DEF Without
  <2>4. QED  BY <1>1, <1>2, <2>1, <2>2, <2>3 DEF PlanInv
<1>5. QED  BY <1>2, <1>4 DEF PushInv

\* A call that fails in silence or aloud.
LEMMA SyncMissesKeep ==
  ASSUME DeliveryTypes, PushInv, SyncUnnoticed \/ SyncFails
  PROVE  PushInv'
<1>1. CASE SyncFails
  <2>1. /\ sync'.at = "sleep" /\ sync'.files = sync.files /\ sync'.left = sync.left
        /\ UNCHANGED <<share, known, drive, written, skipped, mishaps>>
    BY <1>1, SyncMoves DEF SyncFails
  <2>2. OldInv' /\ PushedOrSkipped' /\ Listed(sync'.files) = Listed(sync.files)
    BY <2>1, SyncGoesOn
  <2>3. PlanInv'
    BY <2>1, <2>2 DEF PushInv, PlanInv, Pushing
  <2>4. QED  BY <2>2, <2>3 DEF PushInv
<1>2. CASE SyncUnnoticed
  <2>1. "unnoticed" \in mishaps' /\ UNCHANGED <<share, drive, written>>
    BY <1>2 DEF SyncUnnoticed
  <2>2. PushedOrSkipped'
    BY <2>1 DEF PushedOrSkipped, Without
  <2>3. CASE sync.at = "clear" /\ SyncGoes("copy") /\ UNCHANGED <<inbox, known>>
    <3>1. sync'.at = "copy" /\ sync'.files = sync.files /\ sync'.left = sync.left
      BY <2>3, SyncMoves
    <3>2. OldInv' /\ PlanInv'
      BY <2>1, <2>3, <3>1 DEF PushInv, OldInv, Had, PlanInv, Pushing, Without, Listed
    <3>3. QED  BY <2>2, <3>2 DEF PushInv
  <2>4. CASE sync.at = "copy" /\ UNCHANGED known /\ \E n \in sync.left : sync' = Past(sync, n, "run")
    <3>1. PICK n \in sync.left : sync' = Past(sync, n, "run")
      BY <2>4
    <3>2. /\ sync'.at = IF sync.left = {n} THEN "run" ELSE "copy"
          /\ sync'.files = sync.files /\ sync'.left = sync.left \ {n}
      BY <2>4, <3>1, SyncPasses
    <3>3. OldInv' /\ PlanInv'
      BY <2>1, <2>4, <3>2 DEF PushInv, OldInv, Had, PlanInv, Pushing, Without, Listed
    <3>4. QED  BY <2>2, <3>3 DEF PushInv
  <2>5. CASE sync.at = "run" /\ SyncGoes("sleep") /\ known' = KnownAfterPush
    <3>1. sync'.at = "sleep" /\ sync'.files = sync.files /\ sync'.left = sync.left
      BY <2>5, SyncMoves
    <3>2. \A n \in Names : known'[n] \in {known[n], sync.files[n]}
      BY <2>5 DEF KnownAfterPush, Over
    <3>3. OldInv'
      BY <2>1, <3>1, <3>2 DEF PushInv, OldInv, Had
    <3>4. PlanInv'
      BY <2>1, <3>1 DEF PushInv, PlanInv, Pushing, Without, Listed
    <3>5. QED  BY <2>2, <3>3, <3>4 DEF PushInv
  <2>6. QED  BY <1>2, <2>3, <2>4, <2>5 DEF SyncUnnoticed
<1>3. QED  BY <1>1, <1>2

\* kvm-share.sh sync.
LEMMA SyncRunKeeps ==
  ASSUME DeliveryTypes, PushInv, SyncRuns \/ SyncRunsBadly
  PROVE  PushInv'
<1>1. /\ sync.at = "run" /\ sync'.at = "sleep" /\ sync'.files = sync.files /\ sync'.left = sync.left
      /\ UNCHANGED <<share, written, skipped, inbox>> /\ mishaps \subseteq mishaps'
      /\ known' \in {KnownAfterPush, known}
  BY SyncMoves DEF SyncRuns, SyncRunsBadly
<1>2. \A n \in Names : KnownAfterPush[n] = IF sync.files[n] # None THEN sync.files[n] ELSE known[n]
  BY DEF KnownAfterPush, Over
<1>3. OldInv'
  BY <1>1, <1>2 DEF PushInv, OldInv, Had
<1>4. PlanInv'
  BY <1>1 DEF PushInv, PlanInv, Pushing, Listed
<1>5. PushedOrSkipped'
  <2> SUFFICES ASSUME Without({"unnoticed", "inbox", "cp"})', NEW n \in Names,
                      share[n] \in Versions, known'[n] = share[n]
               PROVE  drive'[n] = share[n] \/ <<n, share[n]>> \in skipped
    BY <1>1 DEF PushedOrSkipped
  <2>1. /\ Without({"unnoticed", "inbox", "cp"}) /\ Without({"unnoticed", "inbox"})
        /\ share[n] # None /\ share[n] # Torn
    BY <1>1, DeliveryAssumption DEF Without, Versions
  <2>2. drive' = Over(drive, inbox)
    BY DEF SyncRuns, SyncRunsBadly, Without
  <2>3. drive'[n] = IF inbox[n] # None THEN inbox[n] ELSE drive[n]
    BY <2>1, <2>2 DEF Over
  <2>4. CASE sync.files[n] # None
    <3>1. share[n] # known[n]
      BY <1>1, <2>1, <2>4 DEF PushInv, PlanInv, Pushing
    <3>2. share[n] = sync.files[n]
      BY <1>1, <1>2, <2>1, <2>4, <3>1
    <3>3. inbox[n] = share[n]
      BY <1>1, <2>1, <2>4, <3>2 DEF PushInv, PlanInv, Listed
    <3>4. QED  BY <2>1, <2>3, <3>3
  <2>5. CASE sync.files[n] = None
    <3>1. known'[n] = known[n] /\ inbox[n] = None
      BY <1>1, <1>2, <2>1, <2>5 DEF PushInv, PlanInv, Listed
    <3>2. drive[n] = share[n] \/ <<n, share[n]>> \in skipped
      BY <2>1, <3>1 DEF PushInv, PushedOrSkipped
    <3>3. QED  BY <2>3, <3>1, <3>2
  <2>6. QED  BY <2>4, <2>5
<1>6. QED  BY <1>3, <1>4, <1>5 DEF PushInv

\* The daemon starts: what it finds it knows, on the drive or skipped; or it
\* stops, and knows nothing.
LEMMA SyncStartsKeep ==
  ASSUME DeliveryTypes, PushInv, SyncStarts \/ SyncStops
  PROVE  PushInv'
<1>1. CASE SyncStarts
  <2>1. /\ sync'.at = "sleep" /\ sync'.files = sync.files /\ sync'.left = sync.left
        /\ known' = share /\ UNCHANGED <<share, written, drive>>
    BY <1>1, SyncMoves DEF SyncStarts, SyncGoes
  <2>2. OldInv'
    BY <2>1 DEF PushInv, OldInv, Had
  <2>3. PlanInv'
    BY <1>1, <2>1 DEF PushInv, PlanInv, Pushing, Listed
  <2>4. PushedOrSkipped'
    BY <1>1, <2>1 DEF PushedOrSkipped, SyncStarts, Missing
  <2>5. QED  BY <2>2, <2>3, <2>4 DEF PushInv
<1>2. CASE SyncStops
  <2>1. /\ sync'.at = "off" /\ sync'.left = {} /\ UNCHANGED <<share, written>>
        /\ \A n \in Names : sync'.files[n] = None /\ known'[n] = None
    BY <1>2 DEF SyncStops, Empty
  <2>2. OldInv'
    BY <2>1 DEF PushInv, OldInv, Had
  <2>3. PlanInv'
    BY <2>1 DEF PlanInv, Pushing
  <2>4. PushedOrSkipped'
    BY <2>1, DeliveryAssumption DEF PushedOrSkipped, Versions
  <2>5. QED  BY <2>2, <2>3, <2>4 DEF PushInv
<1>3. QED  BY <1>1, <1>2

\* PushInv is inductive.
LEMMA PushInvStep == TypeOK /\ DropInv /\ DropInv' /\ PushInv /\ [Next]_vars => PushInv'
<1> SUFFICES ASSUME TypeOK, DropInv, DropInv', PushInv, [Next]_vars PROVE PushInv'
  OBVIOUS
<1>1. DeliveryTypes /\ cast \in Casts /\ mishaps \subseteq mishaps'
  BY MishapsGrow DEF TypeOK
<1>2. CASE \E d \in Drops, files \in SUBSET Names : UserDrops(d, files)
  BY <1>1, <1>2, PushStill DEF UserDrops, syncVars
<1>3. CASE \E d \in Drops : DropStep(d)
  <2>1. PICK d \in Drops : DropStep(d)
    BY <1>3
  <2>2. Running(d) /\ UNCHANGED <<sync, share, known, drive, written, skipped>>
    BY <2>1 DEF DropStep, DropClears, DropCopies, DropFails, DropRuns, Running, syncVars
  <2>3. "inbox" \in mishaps' \/ ~Pushing
    BY <1>1, <2>2 DEF DropInv, AloneInv
  <2>4. QED  BY <1>1, <2>2, <2>3, PushStill
<1>4. CASE \E n \in Names : UserWrites(n)
  BY <1>1, <1>4, WritesKeep
<1>5. CASE ForwardStep
  BY <1>1, <1>5, PushStill DEF ForwardStep, ForwardStarts, Forwarded, ForwardFails, syncVars
<1>6. CASE SyncStep
  BY <1>1, <1>6, ScanKeeps, SyncClearsKeeps, SyncCopiesKeeps, SyncMissesKeep, SyncRunKeeps, SyncStartsKeep DEF SyncStep
<1>7. CASE UNCHANGED <<dropVars, agentVars, syncVars, inbox>>
  BY <1>1, <1>7, PushStill DEF syncVars
<1>8. CASE AgentRestarts
  BY <1>1, <1>8, PushStill DEF AgentRestarts, AgentForgets, syncVars
<1>9. CASE UNCHANGED vars
  BY <1>7, <1>9 DEF vars, deliveryVars
<1>10. QED  BY <1>1, <1>2, <1>3, <1>4, <1>5, <1>6, <1>7, <1>8, <1>9, Steps DEF DeliveryNext

\* kvm-sync.ps1: what the daemon will not push again is on the drive as it is in
\* the folder, although files change while they are pushed, pushes fail and the
\* daemon restarts, but for what it found there, not pushed, when it started.
THEOREM KnownOnDrive == Spec => []PushedOrSkipped
<1>1. Spec => []PushInv
  BY PushInvInit, PushInvStep, DropInvariant, Types, PTL DEF Spec
<1>2. QED  BY <1>1, PTL DEF PushInv

-----------------------------------------------------------------------------
(* What is reported arrives                                                *)

\* What the agent has seen it has copied, and what was copied stays copied.
LEMMA ArrivedGrows ==
  ASSUME cast \in Casts, [Next]_vars
  PROVE  arrived \subseteq arrived' /\ (seen \subseteq arrived => seen' \subseteq arrived')
<1>1. CASE UNCHANGED agentVars
  BY <1>1 DEF agentVars
<1>2. CASE \E n \in Names : ForwardStarts(n) \/ Forwarded(n) \/ ForwardFails(n)
  BY <1>2 DEF ForwardStarts, Forwarded, ForwardFails
<1>3. CASE AgentRestarts
  BY <1>3 DEF AgentRestarts, AgentForgets
<1>4. DeliveryNext => UNCHANGED agentVars \/ \E n \in Names : ForwardStarts(n) \/ Forwarded(n) \/ ForwardFails(n)
  BY DEF DeliveryNext, UserDrops, UserWrites, DropStep, DropClears, DropCopies, DropFails, DropRuns, SyncStep,
     SyncStarts, SyncStops, Scan, SyncClears, SyncCopies, SyncUnnoticed, SyncFails, SyncRuns, SyncRunsBadly, ForwardStep
<1>5. UNCHANGED vars => UNCHANGED agentVars
  BY DEF vars, deliveryVars
<1>6. QED  BY <1>1, <1>2, <1>3, <1>4, <1>5, Steps

\* A file of a drop that has been reported.
Reported(d, n) == drops[d].at = "ok" /\ n \in drops[d].files

\* A report is not taken back.
LEMMA ReportedStays ==
  ASSUME TypeOK, NEW d \in Drops, NEW n \in Names, Reported(d, n), [Next]_vars
  PROVE  Reported(d, n)'
<1>1. drops \in [Drops -> DropRec] /\ cast \in Casts
  BY DEF TypeOK, DeliveryTypes, DropRec
<1>2. CASE UNCHANGED drops
  BY <1>2 DEF Reported
<1>3. CASE \E e \in Drops, files \in SUBSET Names : UserDrops(e, files)
  BY <1>1, <1>3 DEF UserDrops, Reported
<1>4. ASSUME NEW e \in Drops, DropStep(e)
      PROVE  Reported(d, n)'
  <2>1. e # d
    BY <1>4 DEF Reported, DropStep, DropClears, DropCopies, DropFails, DropRuns, Running
  <2>2. drops'[d] = drops[d]
    BY <1>1, <1>4, <2>1 DEF DropStep, DropClears, DropCopies, DropFails, DropRuns, DropGoes
  <2>3. QED  BY <2>2 DEF Reported
<1>5. SyncStep \/ ForwardStep \/ (\E m \in Names : UserWrites(m)) => UNCHANGED drops
  BY DEF SyncStep, SyncStarts, SyncStops, Scan, SyncClears, SyncCopies, SyncUnnoticed, SyncFails, SyncRuns, SyncRunsBadly,
     ForwardStep, ForwardStarts, Forwarded, ForwardFails, UserWrites, dropVars
<1>6. AgentRestarts \/ UNCHANGED vars \/ UNCHANGED <<dropVars, agentVars, syncVars, inbox>> => UNCHANGED drops
  BY DEF AgentRestarts, AgentForgets, vars, deliveryVars, dropVars
<1>7. QED  BY <1>1, <1>2, <1>3, <1>4, <1>5, <1>6, Steps DEF DeliveryNext

\* A file of _drop that the agent has not seen; and that the agent, which has
\* one thread for both directions, comes to such a file at last and completes
\* copies of it: what its fairness is for, as copies that fail and restarts do
\* not stop it from trying again, and drag-outs are finite.
Due(n)     == dropDir[n] # None /\ ~IsSeen(n)
ComesTo(n) == <>[]Due(n) => []<><<Forwarded(n) /\ Alone>>_vars

\* If the agent copies the file n, it copies it from drop d.
Copies(n, d) == forwarding # None /\ forwarding[1] = n => forwarding[2] = d

\* As long as _drop has the file from drop d, copies begin from drop d.
LEMMA CopiesStay ==
  ASSUME TypeOK, NEW d \in Drops, NEW n \in Names, dropDir[n] = d, [Next]_vars, Copies(n, d)
  PROVE  Copies(n, d)'
<1>1. cast \in Casts
  BY DEF TypeOK
<1>2. CASE UNCHANGED forwarding
  BY <1>2 DEF Copies
<1>3. CASE forwarding' = None
  BY <1>3 DEF Copies
<1>4. CASE \E m \in Names : ForwardStarts(m)
  <2>1. PICK m \in Names : forwarding' = <<m, dropDir[m]>>
    BY <1>4 DEF ForwardStarts
  <2>2. QED  BY <2>1 DEF Copies
<1>5. DeliveryNext =>
         UNCHANGED forwarding \/ forwarding' = None \/ \E m \in Names : ForwardStarts(m)
  BY DEF DeliveryNext, UserDrops, UserWrites, DropStep, DropClears, DropCopies, DropFails, DropRuns, SyncStep,
     SyncStarts, SyncStops, Scan, SyncClears, SyncCopies, SyncUnnoticed, SyncFails, SyncRuns, SyncRunsBadly,
     ForwardStep, Forwarded, ForwardFails, agentVars
<1>6. AgentRestarts => forwarding' = None
  BY DEF AgentRestarts, AgentForgets
<1>7. UNCHANGED vars \/ UNCHANGED <<dropVars, agentVars, syncVars, inbox>> => UNCHANGED forwarding
  BY DEF vars, deliveryVars, agentVars
<1>8. QED  BY <1>1, <1>2, <1>3, <1>4, <1>5, <1>6, <1>7, Steps

\* kvm-drop.sh and Do-Forward: if the agent comes to every file that waits for
\* it for good, each file of a drop that was reported with OK gets to the
\* Desktop, whatever else is dropped, fails or restarts, unless one of the
\* listed mishaps happens.  The first copy to end may be one that was begun
\* from an older drop; the next is not.
THEOREM Arrives == Spec /\ (\A n \in Names : ComesTo(n)) => DropArrives
<1>1. Spec => [](seen \subseteq arrived)
  <2>1. Init => seen \subseteq arrived
    BY DEF Init, DeliveryInit
  <2>2. TypeOK /\ seen \subseteq arrived /\ [Next]_vars => (seen \subseteq arrived)'
    BY ArrivedGrows DEF TypeOK
  <2>3. QED  BY <2>1, <2>2, Types, PTL DEF Spec
<1>2. ASSUME NEW d \in Drops, NEW n \in Names
      PROVE  Spec /\ ComesTo(n) =>
                (drops[d].at = "ok" /\ n \in drops[d].files ~>
                    <<n, d>> \in arrived \/ ~Without({"unnoticed", "inbox", "hurry"}))
  <2>1. TypeOK /\ Reported(d, n) /\ [Next]_vars => Reported(d, n)'
    BY ReportedStays
  <2>2. DropKept /\ seen \subseteq arrived /\ Reported(d, n) =>
           \/ ~Without({"unnoticed", "inbox", "hurry"})
           \/ <<n, d>> \in arrived
           \/ Due(n) /\ dropDir[n] = d
    BY DropNames DEF DropKept, Reported, Due, IsSeen
  <2>3. TypeOK /\ dropDir[n] = d /\ Copies(n, d) /\ [Next]_vars => Copies(n, d)'
    BY CopiesStay
  <2>4. Forwarded(n) => Copies(n, d)'
    BY DEF Forwarded, Copies
  <2>5. TypeOK /\ Forwarded(n) /\ Copies(n, d) => (<<n, d>> \in arrived)'
    <3> SUFFICES ASSUME TypeOK, Forwarded(n), Copies(n, d) PROVE (<<n, d>> \in arrived)'
      OBVIOUS
    <3>1. forwarding \in Names \X Contents /\ forwarding[1] = n /\ forwarding[2] = d
      BY DEF Forwarded, Copies, TypeOK, DeliveryTypes
    <3>2. forwarding = <<n, d>>
      BY <3>1
    <3>3. QED  BY <3>2 DEF Forwarded
  <2>6. Reported(d, n) <=> drops[d].at = "ok" /\ n \in drops[d].files
    BY DEF Reported
  <2>7. QED  BY <1>1, <2>1, <2>2, <2>3, <2>4, <2>5, <2>6, ReportedIsKept, Types, PTL DEF Spec, ComesTo
<1>3. QED  BY <1>2 DEF DropArrives

-----------------------------------------------------------------------------
(* What is left alone is pushed                                            *)

\* A file of the folder that is complete and left alone while the daemon runs,
\* and what it makes of it: it has seen it as it is, or knows it; what it pushes is not an
\* older version of it, or is the file as it is.
Still(n)   == share[n] \in Versions /\ sync.at # "off"
Fresh(n)   == lastSeen[n] = share[n]
Known(n)   == known[n] = share[n]
Current(n) == Pushing => sync.files[n] \in {None, share[n]}
Exact(n)   == Pushing => sync.files[n] = share[n]

\* The next scan will not be like the last one.
ScanDue == sync.at = "sleep" /\ (lastSeen # share \/ Changed # {})

\* Between two scans the daemon keeps what it saw, and learns it or nothing.
LEMMA PushGoes ==
  ASSUME TypeOK, SyncStep, ~Scan, sync.at # "off", sync'.at # "off"
  PROVE  /\ Pushing /\ UNCHANGED <<share, lastSeen>>
         /\ sync'.files = sync.files
         /\ known' \in {known, KnownAfterPush}
<1>1. DeliveryTypes
  BY DEF TypeOK
<1>2. \A at : SyncGoes(at) => sync'.files = sync.files
  BY <1>1, SyncMoves
<1>3. \A n : sync' = Past(sync, n, "run") => sync'.files = sync.files
  BY <1>1, SyncPasses
<1>4. QED
  BY <1>2, <1>3
     DEF SyncStep, SyncStarts, SyncStops, SyncClears, SyncCopies, SyncUnnoticed, SyncFails, SyncRuns, SyncRunsBadly, Pushing

\* The folder and the daemon around a file that is left alone: others touch
\* neither.
LEMMA StillStep ==
  ASSUME TypeOK, NEW n \in Names, Still(n), Still(n)', [Next]_vars
  PROVE  /\ share'[n] = share[n]
         /\ SyncStep \/ UNCHANGED <<known, lastSeen, sync>>
<1>1. cast \in Casts /\ share \in [Names -> Contents] /\ Torn \notin Versions
  BY DeliveryAssumption DEF TypeOK, DeliveryTypes, Versions
<1>2. CASE UNCHANGED <<share, known, lastSeen, sync>>
  BY <1>2
<1>3. CASE \E m \in Names : UserWrites(m)
  <2>1. PICK m \in Names : UserWrites(m)
    BY <1>3
  <2>2. m # n
    BY <1>1, <2>1 DEF UserWrites, Still
  <2>3. QED  BY <1>1, <2>1, <2>2 DEF UserWrites
<1>4. CASE SyncStep
  BY <1>4, PushGoes DEF Scan, Still
<1>5. (\E d \in Drops, files \in SUBSET Names : UserDrops(d, files)) \/ (\E d \in Drops : DropStep(d)) \/ ForwardStep
         => UNCHANGED <<share, known, lastSeen, sync>>
  BY DEF UserDrops, DropStep, DropClears, DropCopies, DropFails, DropRuns, ForwardStep, ForwardStarts, Forwarded, ForwardFails, syncVars
<1>6. AgentRestarts \/ UNCHANGED vars \/ UNCHANGED <<dropVars, agentVars, syncVars, inbox>>
         => UNCHANGED <<share, known, lastSeen, sync>>
  BY DEF AgentRestarts, AgentForgets, vars, deliveryVars, syncVars
<1>7. QED  BY <1>1, <1>2, <1>3, <1>4, <1>5, <1>6, Steps DEF DeliveryNext

\* What a scan finds.
LEMMA ScanFinds ==
  ASSUME TypeOK, NEW n \in Names, Still(n), Scan
  PROVE  /\ share' = share /\ known' = known /\ Fresh(n)' /\ ~Pushing
         /\ Pushing' => sync'.files[n] \in {None, share[n]}
         /\ Fresh(n) /\ ~Known(n) => Pushing' /\ sync'.files[n] = share[n]
<1>1. /\ share \in [Names -> Contents] /\ Torn \notin Versions /\ None \notin Versions
      /\ sync.at = "sleep" /\ lastSeen' = share /\ UNCHANGED <<share, known>>
  BY DeliveryAssumption DEF TypeOK, DeliveryTypes, Versions, Scan
<1>2. Fresh(n) /\ ~Known(n) => n \in Changed
  BY <1>1 DEF Fresh, Known, Still, Changed, Listed
<1>3. CASE Changed = {} /\ UNCHANGED sync
  BY <1>1, <1>2, <1>3 DEF Fresh, Pushing
<1>4. CASE /\ Changed # {}
           /\ sync' = [at |-> "clear", left |-> Changed,
                       files |-> [m \in Names |-> IF m \in Changed THEN share[m] ELSE None]]
  <2>1. sync'.at = "clear" /\ sync'.files[n] = IF n \in Changed THEN share[n] ELSE None
    BY <1>4
  <2>2. QED  BY <1>1, <1>2, <2>1 DEF Fresh, Pushing
<1>5. QED  BY <1>3, <1>4 DEF Scan

\* What the daemon has found out about a file stays right.
LEMMA StillKept ==
  ASSUME TypeOK, NEW n \in Names, Still(n), Still(n)', [Next]_vars
  PROVE  /\ Fresh(n) => Fresh(n)'
         /\ Current(n) => Current(n)'
         /\ Known(n) /\ Current(n) => Known(n)'
         /\ Exact(n) /\ Fresh(n) /\ ~Known(n) => Exact(n)'
         /\ ~Pushing /\ Pushing' => Fresh(n)'
<1>1. share'[n] = share[n]
  BY StillStep
<1>2. CASE UNCHANGED <<known, lastSeen, sync>>
  BY <1>1, <1>2 DEF Fresh, Current, Known, Exact, Pushing
<1>3. CASE Scan
  BY <1>1, <1>3, ScanFinds DEF Fresh, Current, Known, Exact
<1>4. CASE SyncStep /\ ~Scan
  <2>1. Pushing /\ UNCHANGED lastSeen /\ sync'.files = sync.files /\ known' \in {known, KnownAfterPush}
    BY <1>4, PushGoes DEF Still
  <2>2. KnownAfterPush[n] = IF sync.files[n] # None THEN sync.files[n] ELSE known[n]
    BY DEF KnownAfterPush, Over
  <2>3. QED  BY <1>1, <2>1, <2>2 DEF Fresh, Current, Known, Exact
<1>5. QED  BY <1>2, <1>3, <1>4, StillStep

\* A push that ends well teaches the daemon what it pushed.
LEMMA RunTeaches ==
  ASSUME TypeOK, NEW n \in Names, Still(n), Exact(n), SyncRuns
  PROVE  Known(n)'
<1>1. sync.files[n] = share[n] /\ share[n] # None /\ share' = share
  BY DeliveryAssumption DEF SyncRuns, Exact, Pushing, Still, Versions
<1>2. QED  BY <1>1 DEF SyncRuns, KnownAfterPush, Over, Known

\* Push-Changed: if the daemon scans when there is something new to see, and a
\* push that is begun again and again ends well again and again, a file that is
\* left alone is on the drive in the end, whatever else is written, dropped or
\* fails in between.  The first assumption is the fairness of Scan with its
\* ENABLED written out, the second what the strong fairness of the steps of a
\* push is for.
THEOREM PushedAtLast ==
  /\ Spec
  /\ <>[]ScanDue => []<><<Scan /\ Alone>>_vars
  /\ []<>Pushing => []<><<SyncRuns /\ Alone>>_vars
  => PushedInTheEnd
<1> DEFINE Clean == Without({"unnoticed", "inbox", "cp"})
<1>1. ASSUME NEW n \in Names
      PROVE  /\ Spec
             /\ <>[]ScanDue => []<><<Scan /\ Alone>>_vars
             /\ []<>Pushing => []<><<SyncRuns /\ Alone>>_vars
             => (<>[](share[n] \in Versions /\ sync.at # "off") =>
                    <>[](drive[n] = share[n] \/ <<n, share[n]>> \in skipped \/ ~Clean))
  <2>1. TypeOK /\ Still(n) /\ Still(n)' /\ [Next]_vars =>
           /\ Fresh(n) => Fresh(n)'
           /\ Current(n) => Current(n)'
           /\ Known(n) /\ Current(n) => Known(n)'
           /\ Exact(n) /\ Fresh(n) /\ ~Known(n) => Exact(n)'
           /\ ~Pushing /\ Pushing' => Fresh(n)'
    BY StillKept
  <2>2. TypeOK /\ Still(n) /\ Scan => Fresh(n)' /\ (Fresh(n) /\ ~Known(n) => Pushing')
    BY ScanFinds
  <2>3. TypeOK /\ Still(n) /\ SyncRuns => Pushing /\ ~Pushing' /\ (Exact(n) => Known(n)')
    <3>1. TypeOK /\ SyncGoes("sleep") => sync'.at = "sleep"
      BY SyncMoves DEF TypeOK
    <3>2. QED  BY <3>1, RunTeaches DEF SyncRuns, Pushing
  <2>4. TypeOK /\ Still(n) /\ ~Known(n) /\ ~Pushing => ScanDue
    <3> SUFFICES ASSUME TypeOK, Still(n), ~Known(n), ~Pushing PROVE ScanDue
      OBVIOUS
    <3>1. n \in Listed(share) /\ share[n] # Torn
      BY DeliveryAssumption DEF Still, Versions, Listed
    <3>2. sync.at = "sleep"
      BY DEF TypeOK, DeliveryTypes, Still, Pushing
    <3>3. QED  BY <3>1, <3>2 DEF Known, ScanDue, Changed
  <2>5. ~Pushing => Current(n) /\ Exact(n)
    BY DEF Current, Exact
  <2>6. PushedOrSkipped /\ Still(n) /\ Known(n) =>
           drive[n] = share[n] \/ <<n, share[n]>> \in skipped \/ ~Clean
    BY DEF PushedOrSkipped, Still, Known
  <2>7. Still(n) <=> share[n] \in Versions /\ sync.at # "off"
    BY DEF Still
  <2> HIDE DEF Clean
  <2>8. QED
    BY <2>1, <2>2, <2>3, <2>4, <2>5, <2>6, <2>7, KnownOnDrive, Types, PTL DEF Spec
<1>2. QED  BY <1>1 DEF PushedInTheEnd
=============================================================================
