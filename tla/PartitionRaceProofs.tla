------------------------- MODULE PartitionRaceProofs -------------------------
(***************************************************************************)
(* Proofs about PartitionRace, for every set of blocks and manifests and   *)
(* any number of packs and gcs that overlap in any way.                    *)
(***************************************************************************)
EXTENDS PartitionRace, PartitionGcProofs

USE DEF Proc, Dir, PC, Swap, vars, memory, raceVars

-----------------------------------------------------------------------------
(* Which processes can be where.                                           *)

\* While not every manifest was exposed, a gc that has marked is the only one
\* past its open, and the packs beside it are exposed.
LEMMA GcsApart ==
    ASSUME Overlapping \subseteq overlapped, overlapped # Manifest,
           overlapped \subseteq Manifest, TypeOK,
           NEW g \in Committed
    PROVE  /\ \A k \in GcProc \ {g} : pc[k] \in {"idle", "open"}
           /\ \A p \in PackProc : pc[p] # "idle" => man[p] \in overlapped
<1>1. ~TwoGcs
  BY DEF Overlapping
<1>2. \A p \in PackProc : pc[p] # "idle" => man[p] \in Overlapping
  BY DEF Overlapping, TypeOK
<1> QED
  BY <1>1, <1>2 DEF TwoGcs

-----------------------------------------------------------------------------
(* What a step leaves alone.                                               *)

\* A gc that is not past its open has promised nothing.
LEMMA RaceIdleGc ==
    ASSUME NEW g \in GcProc, pc'[g] \in {"idle", "open"}
    PROVE  RaceGcPhase(g)'
<1>1. pc'[g] \notin {"mark", "stage", "copy", "clear"} \union Swap
  OBVIOUS
<1>2. /\ pc'[g] \notin {"mark", "stage", "copy"}
      /\ pc'[g] \notin {"stage", "copy", "clear"} \union Swap
      /\ pc'[g] # "copy"
      /\ pc'[g] \notin {"clear", "movePacks", "moveActive", "placePacks"}
      /\ pc'[g] \notin {"clear", "movePacks", "placeActive", "cleanup"}
      /\ pc'[g] \notin {"moveActive", "placePacks"}
  BY <1>1
<1> QED
  BY <1>2, Zenon DEF RaceGcPhase

\* Others do a gc no harm if they only add to packs/ and to active/.
LEMMA RaceGcKept ==
    ASSUME NEW g \in GcProc, RaceGcPhase(g),
           pc'[g] = pc[g], index'[g] = index[g], live'[g] = live[g],
           todo'[g] = todo[g],
           files["packs"] \subseteq files'["packs"],
           files'["staged packs"] = files["staged packs"],
           files'["staged active"] = files["staged active"],
           files'["packs.pre-gc"] = files["packs.pre-gc"],
           g \in Committed =>
               Present' \ overlapped' \subseteq Present \ overlapped
    PROVE  RaceGcPhase(g)'
<1>1. CASE g \notin Committed
  <2>1. /\ pc'[g] \notin {"stage", "copy", "clear"} \union Swap
        /\ pc'[g] # "copy"
        /\ pc'[g] \notin {"clear", "movePacks", "moveActive", "placePacks"}
        /\ pc'[g] \notin {"clear", "movePacks", "placeActive", "cleanup"}
        /\ pc'[g] \notin {"moveActive", "placePacks"}
    BY <1>1 DEF Committed
  <2>2. pc'[g] \in {"mark", "stage", "copy"} => index'[g] \subseteq files'["packs"]
    BY DEF RaceGcPhase
  <2> QED
    BY <2>1, <2>2, Zenon DEF RaceGcPhase
<1>2. CASE g \in Committed
  BY <1>2 DEF RaceGcPhase
<1> QED
  BY <1>1, <1>2

\* A pack is where it was while the blocks in the store stay there.
LEMMA RacePackKept ==
    ASSUME NEW p \in PackProc, PackPhase(p), pc'[p] = pc[p], man'[p] = man[p],
           index'[p] = index[p], todo'[p] = todo[p], Store \subseteq Store'
    PROVE  PackPhase(p)'
  BY DEF PackPhase

\* No manifest that was not exposed is published, and no block goes.
LEMMA LossKept ==
    ASSUME LossNeedsOverlap,
           Present' \ overlapped' \subseteq Present \ overlapped,
           Retrievable \subseteq Retrievable'
    PROVE  LossNeedsOverlap'
  BY DEF LossNeedsOverlap

-----------------------------------------------------------------------------
(* The steps, while not every manifest was exposed.                        *)

\* What RaceInv says then.
RaceCore ==
    /\ \A p \in PackProc : man[p] \notin overlapped => PackPhase(p)
    /\ \A g \in GcProc : RaceGcPhase(g)
    /\ LossNeedsOverlap

\* The steps of pack.  One beside a gc that has marked packs a manifest that
\* is exposed.
LEMMA RacePackSteps ==
    ASSUME RaceInv, RaceCore, NEW p \in PackProc,
           \/ \E m \in Manifest : PackOpen(p, m)
           \/ PackStep(p) \/ PackTearsManifest(p),
           overlapped' = overlapped \union Overlapping',
           overlapped' # Manifest, overlapped' \subseteq Manifest,
           TypeOK'
    PROVE  RaceCore'
<1>0. /\ TypeOK /\ Overlapping \subseteq overlapped
      /\ overlapped \subseteq Manifest /\ overlapped # Manifest
  BY DEF RaceInv
<1>1. /\ p \in Proc /\ pc \in [Proc -> PC] /\ pc' \in [Proc -> PC]
      /\ \A g \in GcProc : g \in Proc /\ g # p
  BY <1>0, Disjoint DEF TypeOK
<1>2. /\ \A q \in Proc \ {p} :
            pc'[q] = pc[q] /\ index'[q] = index[q] /\ todo'[q] = todo[q]
      /\ \A g \in GcProc : live'[g] = live[g]
      /\ \A q \in PackProc \ {p} : man'[q] = man[q]
  <2>1. ASSUME NEW m \in Manifest, PackOpen(p, m)
        PROVE  /\ \A q \in Proc \ {p} :
                     /\ pc'[q] = pc[q] /\ index'[q] = index[q]
                     /\ todo'[q] = todo[q]
               /\ UNCHANGED live
               /\ \A q \in PackProc \ {p} : man'[q] = man[q]
    BY <1>0, <1>1, <2>1 DEF PackOpen, Goto, TypeOK
  <2>2. CASE PackSeal(p) \/ \E h \in Hash : PackPut(p, h)
    BY <1>0, <1>1, <2>2 DEF PackSeal, PackPut, Goto, TypeOK
  <2>3. CASE PackManifest(p) \/ PackTearsManifest(p)
    <3>1. /\ Goto(p, "idle") /\ UNCHANGED man
          /\ index' = [index EXCEPT ![p] = {}] /\ todo' = [todo EXCEPT ![p] = {}]
          /\ live' = [g \in GcProc |-> IF g = p THEN {} ELSE live[g]]
      BY <2>3 DEF PackManifest, PackTearsManifest, Exit
    <3>2. \A g \in GcProc : live'[g] = live[g]
      BY <1>1, <3>1
    <3> QED
      BY <1>0, <3>1, <3>2 DEF Goto, TypeOK
  <2> QED
    BY <2>1, <2>2, <2>3 DEF PackStep
<1>5. /\ Store \subseteq Store'
      /\ files["packs"] \subseteq files'["packs"]
      /\ files'["staged packs"] = files["staged packs"]
      /\ files'["staged active"] = files["staged active"]
      /\ files'["packs.pre-gc"] = files["packs.pre-gc"]
  <2>1. \/ UNCHANGED files
        \/ \E h \in Hash : files' = [files EXCEPT !["active"] = @ \union {h}]
        \/ files' = Sealed
    BY DEF PackOpen, PackStep, PackPut, PackSeal, PackManifest,
           PackTearsManifest
  <2>2. ASSUME NEW h \in Hash, files' = [files EXCEPT !["active"] = @ \union {h}]
        PROVE  /\ files["active"] \subseteq files'["active"]
               /\ files'["packs"] = files["packs"]
               /\ files'["staged packs"] = files["staged packs"]
               /\ files'["staged active"] = files["staged active"]
               /\ files'["packs.pre-gc"] = files["packs.pre-gc"]
    BY <1>0, <2>2 DEF TypeOK
  <2>3. CASE files' = Sealed
    BY <1>0, <2>3 DEF TypeOK, Sealed, Store
  <2> QED
    BY <2>1, <2>2, <2>3 DEF Store
<1>6. Present' \subseteq
        Present \union IF pc[p] = "manifest" THEN {man[p]} ELSE {}
  BY <1>0 DEF PackOpen, PackStep, PackPut, PackSeal, PackManifest,
              PackTearsManifest, Present, TypeOK
<1>7. ASSUME NEW g \in GcProc
      PROVE  RaceGcPhase(g)'
  <2>1. g \in Committed => Present' \ overlapped' \subseteq Present \ overlapped
    <3>1. CASE pc[p] = "manifest"
      BY <1>0, <1>6, <3>1, GcsApart
    <3>2. CASE pc[p] # "manifest"
      BY <1>6, <3>2
    <3> QED
      BY <3>1, <3>2
  <2> QED
    BY <1>1, <1>2, <1>5, <2>1, RaceGcKept DEF RaceCore
<1>8. ASSUME NEW q \in PackProc, q # p, man'[q] \notin overlapped'
      PROVE  PackPhase(q)'
  <2>1. q \in Proc /\ PackPhase(q)
    BY <1>2, <1>8 DEF RaceCore
  <2> QED
    BY <1>2, <1>5, <1>8, <2>1, RacePackKept
<1>9. ASSUME man'[p] \notin overlapped'
      PROVE  PackPhase(p)'
  <2>1. ASSUME NEW m \in Manifest, PackOpen(p, m)
        PROVE  PackPhase(p)'
    BY <1>0, <1>1, <2>1 DEF PackOpen, PackPhase, Goto, Store, TypeOK
  <2>2. CASE PackManifest(p) \/ PackTearsManifest(p)
    <3>1. pc'[p] = "idle"
      BY <1>0, <1>1, <2>2 DEF PackManifest, PackTearsManifest, Exit, Goto, TypeOK
    <3> QED
      BY <3>1 DEF PackPhase
  <2>3. CASE PackSeal(p) \/ \E h \in Hash : PackPut(p, h)
    <3>1. man'[p] = man[p] /\ PackPhase(p)
      BY <1>9, <2>3 DEF PackPut, PackSeal, RaceCore
    <3>2. ASSUME NEW h \in Hash, PackPut(p, h)
          PROVE  PackPhase(p)'
      <4>1. /\ pc[p] = "put" /\ pc'[p] = "put"
            /\ index'[p] = index[p] \union {h} /\ todo'[p] = todo[p] \ {h}
        BY <1>0, <1>1, <3>2 DEF PackPut, TypeOK
      <4>2. Store' = Store \union (IF h \in index[p] THEN {} ELSE {h})
        BY <1>0, <3>2 DEF PackPut, Store, TypeOK
      <4> QED
        BY <3>1, <4>1, <4>2 DEF PackPhase
    <3>3. CASE PackSeal(p)
      <4>1. /\ pc[p] = "put" /\ pc'[p] = "manifest" /\ todo[p] = {}
        BY <1>0, <1>1, <3>3 DEF PackSeal, Goto, TypeOK
      <4> QED
        BY <1>5, <3>1, <4>1 DEF PackPhase
    <3> QED
      BY <2>3, <3>2, <3>3
  <2> QED
    BY <2>1, <2>2, <2>3 DEF PackStep
<1>10. LossNeedsOverlap'
  <2>1. Retrievable \subseteq Retrievable'
    BY <1>5 DEF Retrievable
  <2>2. pc[p] = "manifest" /\ man[p] \notin overlapped' =>
          Blocks[man[p]] \subseteq Retrievable'
    <3>1. man[p] \notin overlapped' => man[p] \notin overlapped
      OBVIOUS
    <3> QED
      BY <2>1, <3>1 DEF RaceCore, PackPhase, Retrievable
  <2> QED
    BY <1>6, <2>1, <2>2 DEF LossNeedsOverlap, RaceCore
<1> QED
  BY <1>7, <1>8, <1>9, <1>10 DEF RaceCore

\* The steps of gc: while other gcs are idle or before their open, and packs
\* beside it exposed, what every manifest that was not needs is in the live
\* set, and the live set is in packs/ or in packs.pre-gc/ at every call.
LEMMA RaceGcOwn ==
    ASSUME RaceInv, RaceCore, NEW g \in GcProc,
           GcGoAhead(g) \/ GcStep(g), overlapped \subseteq overlapped'
    PROVE  RaceGcPhase(g)' /\ LossNeedsOverlap'
<1> USE StoreAssumption DEF RaceInv
<1>1. g \in Proc /\ RaceGcPhase(g) /\ TypeOK
  BY DEF RaceCore
<1>2. Present' = Present
  BY DEF GcGoAhead, GcStep, GcOpen, GcMark, GcStage, GcCopy, GcSealStaged,
         GcClearBackups, GcMovePacks, GcMoveActive, GcPlacePacks,
         GcPlaceActive, GcCleanup, GcError, Present
<1>3. CASE GcGoAhead(g) \/ GcError(g)
  <2>1. pc'[g] \in {"idle", "open"} /\ files' = files
    BY <1>1, <1>3 DEF GcGoAhead, GcError, Exit, Goto, TypeOK
  <2> QED
    BY <1>2, <2>1, RaceIdleGc, LossKept DEF RaceCore, Retrievable, Store
<1>4. CASE GcOpen(g)
  <2>1. /\ pc'[g] = "mark" /\ index'[g] = Store
        /\ files'["packs"] = Store /\ files'["active"] = {}
        /\ files'["packs.pre-gc"] = files["packs.pre-gc"]
    BY <1>1, <1>4 DEF GcOpen, Goto, Sealed, TypeOK
  <2>2. RaceGcPhase(g)'
    BY <2>1 DEF RaceGcPhase
  <2>3. Retrievable' = Retrievable
    BY <2>1 DEF Retrievable, Store
  <2> QED
    BY <1>2, <2>2, <2>3, LossKept DEF RaceCore
<1>5. CASE GcMark(g)
  <2>1. /\ pc[g] = "mark" /\ pc'[g] = "stage"
        /\ files' = files /\ live'[g] = Referenced
    BY <1>1, <1>5 DEF GcMark, Goto, TypeOK
  <2>2. \A m \in Present : Blocks[m] \subseteq Referenced
    BY <1>5 DEF GcMark, CanMark, Referenced
  <2>3. index' = index
    BY <1>5 DEF GcMark
  <2>4. RaceGcPhase(g)'
    BY <1>1, <1>2, <2>1, <2>2, <2>3 DEF RaceGcPhase
  <2> QED
    BY <1>2, <2>1, <2>4, LossKept DEF RaceCore, Retrievable, Store
<1>6. CASE GcStage(g)
  <2>1. /\ pc[g] = "stage" /\ pc'[g] = "copy"
        /\ index' = index /\ live' = live /\ todo'[g] = live[g]
        /\ files'["staged packs"] = {} /\ files'["staged active"] = {}
        /\ \A d \in Dir \ {"staged packs", "staged active"} :
              files'[d] = files[d]
    BY <1>1, <1>6 DEF GcStage, Goto, TypeOK
  <2>2. RaceGcPhase(g)'
    BY <1>1, <1>2, <2>1 DEF RaceGcPhase
  <2> QED
    BY <1>2, <2>1, <2>2, LossKept DEF RaceCore, Retrievable, Store
<1>7. ASSUME NEW h \in Hash, GcCopy(g, h)
      PROVE  RaceGcPhase(g)' /\ LossNeedsOverlap'
  <2>1. /\ pc[g] = "copy" /\ pc' = pc /\ index' = index /\ live' = live
        /\ h \in todo[g] /\ h \in index[g] /\ todo'[g] = todo[g] \ {h}
        /\ files'["staged active"] = files["staged active"] \union {h}
        /\ \A d \in Dir \ {"staged active"} : files'[d] = files[d]
    BY <1>1, <1>7 DEF GcCopy, Readable, TypeOK
  <2>2. RaceGcPhase(g)'
    BY <1>1, <1>2, <2>1 DEF RaceGcPhase
  <2> QED
    BY <1>2, <2>1, <2>2, LossKept DEF RaceCore, Retrievable, Store
<1>8. CASE GcSealStaged(g)
  <2>1. /\ pc[g] = "copy" /\ pc'[g] = "clear" /\ todo[g] = {}
        /\ index' = index /\ live' = live
        /\ files'["staged packs"] =
             files["staged packs"] \union files["staged active"]
        /\ \A d \in Dir \ {"staged packs", "staged active"} :
              files'[d] = files[d]
    BY <1>1, <1>8 DEF GcSealStaged, Goto, TypeOK
  <2>2. RaceGcPhase(g)'
    BY <1>1, <1>2, <2>1 DEF RaceGcPhase
  <2> QED
    BY <1>2, <2>1, <2>2, LossKept DEF RaceCore, Retrievable, Store
<1> DEFINE Moves == \/ GcClearBackups(g) \/ GcMovePacks(g) \/ GcMoveActive(g)
                    \/ GcPlacePacks(g) \/ GcPlaceActive(g) \/ GcCleanup(g)
<1>9. CASE Moves
  <2>1. /\ pc[g] \in {"clear"} \union Swap
        /\ \A m \in Present \ overlapped : Blocks[m] \subseteq live[g]
    BY <1>1, <1>9 DEF RaceGcPhase, GcClearBackups, GcMovePacks, GcMoveActive,
                      GcPlacePacks, GcPlaceActive, GcCleanup
  <2>2. ASSUME live[g] \subseteq files'["packs"] \union files'["packs.pre-gc"]
        PROVE  LossNeedsOverlap'
    BY <1>2, <2>1, <2>2 DEF LossNeedsOverlap, Retrievable, Store
  <2>3. CASE GcClearBackups(g)
    <3>1. pc[g] = "clear" /\ pc'[g] = "movePacks" /\ live' = live
      BY <1>1, <2>3 DEF GcClearBackups, Goto, TypeOK
    <3>2. \A d \in Dir \ {"packs.pre-gc", "active.pre-gc"} :
             files'[d] = files[d]
      BY <1>1, <2>3, RemoveBackupsType DEF GcClearBackups, TypeOK
    <3> QED
      BY <1>1, <1>2, <2>2, <3>1, <3>2 DEF RaceGcPhase
  <2>4. CASE GcMovePacks(g)
    <3>1. pc[g] = "movePacks" /\ pc'[g] = "moveActive" /\ live' = live
      BY <1>1, <2>4 DEF GcMovePacks, Goto, TypeOK
    <3>2. /\ files["packs"] \subseteq files'["packs.pre-gc"]
          /\ \A d \in Dir \ {"packs", "packs.pre-gc"} : files'[d] = files[d]
      BY <1>1, <2>4 DEF GcMovePacks, MoveAside, Renamed, TypeOK
    <3> QED
      BY <1>1, <1>2, <2>2, <3>1, <3>2 DEF RaceGcPhase
  <2>5. CASE GcMoveActive(g)
    <3>1. pc[g] = "moveActive" /\ pc'[g] = "placePacks" /\ live' = live
      BY <1>1, <2>5 DEF GcMoveActive, Goto, TypeOK
    <3>2. \A d \in Dir \ {"active", "active.pre-gc"} : files'[d] = files[d]
      BY <1>1, <2>5 DEF GcMoveActive, MoveAside, Renamed, TypeOK
    <3> QED
      BY <1>1, <1>2, <2>2, <3>1, <3>2 DEF RaceGcPhase
  <2>6. CASE GcPlacePacks(g)
    <3>1. pc[g] = "placePacks" /\ pc'[g] = "placeActive" /\ live' = live
      BY <1>1, <2>6 DEF GcPlacePacks, Goto, TypeOK
    <3>2. files'["packs"] = files["staged packs"]
      BY <1>1, <2>6 DEF GcPlacePacks, Renamed, TypeOK
    <3> QED
      BY <1>1, <1>2, <2>2, <3>1, <3>2 DEF RaceGcPhase
  <2>7. CASE GcPlaceActive(g)
    <3>1. pc[g] = "placeActive" /\ pc'[g] = "cleanup" /\ live' = live
      BY <1>1, <2>7 DEF GcPlaceActive, Goto, TypeOK
    <3>2. files'["packs"] = files["packs"]
      BY <1>1, <2>7 DEF GcPlaceActive, Renamed, TypeOK
    <3> QED
      BY <1>1, <1>2, <2>2, <3>1, <3>2 DEF RaceGcPhase
  <2>8. CASE GcCleanup(g)
    <3>1. pc[g] = "cleanup" /\ pc'[g] = "idle"
      BY <1>1, <2>8 DEF GcCleanup, Exit, Goto, TypeOK
    <3> DEFINE rest == [files EXCEPT !["staged packs"] = {},
                                     !["staged active"] = {}]
    <3>2. rest \in [Dir -> SUBSET Hash] /\ rest["packs"] = files["packs"]
      BY <1>1 DEF TypeOK
    <3>3. RemoveBackups(rest)
      BY <2>8 DEF GcCleanup
    <3> HIDE DEF rest
    <3>4. files'["packs"] = files["packs"]
      BY <1>1, <3>2, <3>3, RemoveBackupsType DEF TypeOK
    <3> QED
      BY <1>1, <2>2, <3>1, <3>4, RaceIdleGc DEF RaceGcPhase
  <2> QED
    BY <1>9, <2>3, <2>4, <2>5, <2>6, <2>7, <2>8
<1> QED
  BY <1>3, <1>4, <1>5, <1>6, <1>7, <1>8, <1>9 DEF GcStep

\* The steps of gc: until it has marked it takes no block away; from then on
\* every other gc is before its open, and the packs beside it are exposed.
LEMMA RaceGcSteps ==
    ASSUME RaceInv, RaceCore, NEW g \in GcProc,
           GcGoAhead(g) \/ GcStep(g),
           overlapped \subseteq overlapped',
           overlapped # Manifest, overlapped \subseteq Manifest
    PROVE  RaceCore'
<1>0. TypeOK /\ Overlapping \subseteq overlapped
  BY DEF RaceInv
<1>1. RaceGcPhase(g)' /\ LossNeedsOverlap'
  BY RaceGcOwn
<1>2. UNCHANGED <<manifests, man>> /\ Present' = Present
  BY DEF GcGoAhead, GcStep, GcOpen, GcMark, GcStage, GcCopy, GcSealStaged,
         GcClearBackups, GcMovePacks, GcMoveActive, GcPlacePacks,
         GcPlaceActive, GcCleanup, GcError, Exit, Present
<1>3. g \in Proc /\ \A p \in PackProc : p \in Proc /\ p # g
  BY Disjoint
<1>4. \A q \in Proc \ {g} :
        pc'[q] = pc[q] /\ index'[q] = index[q] /\ todo'[q] = todo[q]
  <2>1. CASE GcError(g) \/ GcCleanup(g)
    BY <1>0, <2>1 DEF GcError, GcCleanup, Exit, Goto, TypeOK
  <2>2. CASE ~(GcError(g) \/ GcCleanup(g))
    BY <1>0, <2>2 DEF GcGoAhead, GcStep, GcOpen, GcMark, GcStage, GcCopy,
       GcSealStaged, GcClearBackups, GcMovePacks, GcMoveActive, GcPlacePacks,
       GcPlaceActive, Goto, TypeOK
  <2> QED
    BY <2>1, <2>2
<1>5. \A k \in GcProc \ {g} : live'[k] = live[k]
  <2>1. CASE GcError(g) \/ GcCleanup(g)
    BY <1>0, <2>1 DEF GcError, GcCleanup, Exit, TypeOK
  <2>2. CASE ~(GcError(g) \/ GcCleanup(g))
    BY <1>0, <2>2 DEF GcGoAhead, GcStep, GcOpen, GcMark, GcStage, GcCopy,
       GcSealStaged, GcClearBackups, GcMovePacks, GcMoveActive, GcPlacePacks,
       GcPlaceActive, TypeOK
  <2> QED
    BY <2>1, <2>2
<1>6. CASE g \notin Committed
  <2>1. GcGoAhead(g) \/ GcOpen(g) \/ GcMark(g) \/ GcError(g)
    BY <1>6 DEF Committed, GcStep, GcStage, GcCopy, GcSealStaged,
       GcClearBackups, GcMovePacks, GcMoveActive, GcPlacePacks,
       GcPlaceActive, GcCleanup
  <2>2. files' = files \/ files' = Sealed
    BY <2>1 DEF GcGoAhead, GcOpen, GcMark, GcError
  <2>3. /\ files["packs"] \subseteq files'["packs"]
        /\ files'["staged packs"] = files["staged packs"]
        /\ files'["staged active"] = files["staged active"]
        /\ files'["packs.pre-gc"] = files["packs.pre-gc"]
        /\ Store \subseteq Store'
    BY <1>0, <2>2 DEF TypeOK, Sealed, Store
  <2>4. ASSUME NEW k \in GcProc, k # g
        PROVE  RaceGcPhase(k)'
    BY <1>2, <1>4, <1>5, <2>3, <2>4, RaceGcKept DEF RaceCore
  <2>5. ASSUME NEW p \in PackProc, man'[p] \notin overlapped'
        PROVE  PackPhase(p)'
    BY <1>2, <1>3, <1>4, <2>3, <2>5, RacePackKept DEF RaceCore
  <2> QED
    BY <1>1, <2>4, <2>5 DEF RaceCore
<1>7. CASE g \in Committed
  <2>1. /\ \A k \in GcProc \ {g} : pc[k] \in {"idle", "open"}
        /\ \A p \in PackProc : pc[p] # "idle" => man[p] \in overlapped
    BY <1>0, <1>7, GcsApart
  <2>2. ASSUME NEW k \in GcProc, k # g
        PROVE  RaceGcPhase(k)'
    BY <1>4, <2>1, <2>2, RaceIdleGc
  <2>3. ASSUME NEW p \in PackProc, man'[p] \notin overlapped'
        PROVE  PackPhase(p)'
    <3>1. pc'[p] = "idle"
      BY <1>2, <1>3, <1>4, <2>1, <2>3
    <3> QED
      BY <3>1 DEF PackPhase
  <2> QED
    BY <1>1, <2>2, <2>3 DEF RaceCore
<1> QED
  BY <1>6, <1>7

\* A crash, a deleted manifest, a gc that skips or cannot measure.
LEMMA RaceOthers ==
    ASSUME RaceInv, RaceCore, overlapped \subseteq overlapped',
           \/ \E p \in Proc : Crash(p)
           \/ \E m \in Manifest : Forget(m)
           \/ \E g \in GcProc : GcSkip(g) \/ GcUtilizationError(g)
    PROVE  RaceCore'
<1>0. TypeOK
  BY DEF RaceInv
<1>1. UNCHANGED <<files, man>> /\ Present' \subseteq Present
  BY <1>0 DEF Crash, Forget, GcSkip, GcUtilizationError, Exit, Present, TypeOK
<1>2. LossNeedsOverlap'
  BY <1>1, LossKept DEF RaceCore, Retrievable, Store
<1>3. ASSUME NEW p \in Proc, Crash(p)
      PROVE  RaceCore'
  <2>1. /\ Goto(p, "idle")
        /\ index' = [index EXCEPT ![p] = {}] /\ todo' = [todo EXCEPT ![p] = {}]
        /\ live' = [g \in GcProc |-> IF g = p THEN {} ELSE live[g]]
    BY <1>3 DEF Crash, Exit
  <2>2. pc'[p] = "idle"
    BY <1>0, <2>1 DEF Goto, TypeOK
  <2>3. /\ \A q \in Proc \ {p} :
              pc'[q] = pc[q] /\ index'[q] = index[q] /\ todo'[q] = todo[q]
        /\ \A g \in GcProc \ {p} : live'[g] = live[g]
    BY <1>0, <2>1 DEF Goto, TypeOK
  <2>4. ASSUME NEW g \in GcProc
        PROVE  RaceGcPhase(g)'
    <3>1. CASE g = p
      BY <2>2, <3>1, RaceIdleGc
    <3>2. CASE g # p
      BY <1>1, <2>3, <3>2, RaceGcKept DEF RaceCore
    <3> QED
      BY <3>1, <3>2
  <2>5. ASSUME NEW q \in PackProc, man'[q] \notin overlapped'
        PROVE  PackPhase(q)'
    <3>1. CASE q = p
      BY <2>2, <3>1 DEF PackPhase
    <3>2. CASE q # p
      BY <1>1, <2>3, <2>5, <3>2, RacePackKept DEF RaceCore, Store
    <3> QED
      BY <3>1, <3>2
  <2> QED
    BY <1>2, <2>4, <2>5 DEF RaceCore
<1>4. CASE UNCHANGED <<pc, index, todo, live>>
  <2>1. ASSUME NEW g \in GcProc
        PROVE  RaceGcPhase(g)'
    BY <1>1, <1>4, RaceGcKept DEF RaceCore
  <2>2. ASSUME NEW q \in PackProc, man'[q] \notin overlapped'
        PROVE  PackPhase(q)'
    BY <1>1, <1>4, <2>2, RacePackKept DEF RaceCore, Store
  <2> QED
    BY <1>2, <2>1, <2>2 DEF RaceCore
<1> QED
  BY <1>3, <1>4 DEF Forget, GcSkip, GcUtilizationError

-----------------------------------------------------------------------------
(* The theorems.                                                           *)

\* No step breaks the invariant.
LEMMA RaceInvStep ==
    ASSUME RaceInv, [RaceStep]_raceVars
    PROVE  RaceInv'
<1>0. TypeOK /\ overlapped \subseteq Manifest
  BY DEF RaceInv
<1>1. CASE UNCHANGED raceVars
  <2>1. /\ Present' = Present /\ Store' = Store /\ Retrievable' = Retrievable
        /\ Overlapping' = Overlapping
    BY <1>1 DEF Present, Store, Retrievable, Overlapping, TwoGcs, Committed
  <2>2. TypeOK'
    BY <1>0, <1>1 DEF TypeOK
  <2>3. (\A p \in PackProc : PackPhase(p)' <=> PackPhase(p))
    BY <1>1, <2>1 DEF PackPhase
  <2>4. \A g \in GcProc : RaceGcPhase(g)' <=> RaceGcPhase(g)
    BY <1>1, <2>1 DEF RaceGcPhase
  <2>5. LossNeedsOverlap' <=> LossNeedsOverlap
    BY <1>1, <2>1 DEF LossNeedsOverlap
  <2> QED
    BY <1>1, <2>1, <2>2, <2>3, <2>4, <2>5 DEF RaceInv, AllExposed
<1>2. CASE RaceStep
  <2>1. TypeOK'
    BY <1>0, <1>2, TypeStep DEF RaceStep
  <2>2. overlapped' = overlapped \union Overlapping'
    BY <1>2 DEF RaceStep
  <2>3. overlapped' \subseteq Manifest /\ Overlapping' \subseteq overlapped'
    BY <1>0, <2>2 DEF Overlapping
  <2>4. ASSUME overlapped' # Manifest
        PROVE  RaceCore'
    <3>1. RaceCore
      BY <1>0, <2>2, <2>3, <2>4 DEF RaceInv, RaceCore, AllExposed
    <3> QED
      BY <1>2, <2>1, <2>2, <2>3, <2>4, <3>1, RacePackSteps, RaceGcSteps,
         RaceOthers DEF RaceStep, Next
  <2> QED
    BY <2>1, <2>3, <2>4 DEF RaceInv, RaceCore, AllExposed
<1> QED
  BY <1>1, <1>2

\* The invariant, however many packs and gcs there are and overlap: nothing is
\* assumed of what keeps them apart.
THEOREM RaceInductive ==
    FreeRaceSpec => []RaceInv
<1>1. RaceInit => RaceInv
  <2> SUFFICES ASSUME RaceInit
               PROVE  RaceInv
    OBVIOUS
  <2>1. TypeOK /\ overlapped = {}
    BY InitType DEF RaceInit
  <2>2. \A p \in Proc : pc[p] = "idle"
    BY DEF RaceInit, Init
  <2>3. Overlapping = {}
    BY <2>2 DEF Overlapping, TwoGcs, Committed
  <2>4. \A p \in PackProc : PackPhase(p)
    BY <2>2 DEF PackPhase
  <2>5. \A g \in GcProc : RaceGcPhase(g)
    BY <2>2 DEF RaceGcPhase
  <2>6. LossNeedsOverlap
    BY DEF LossNeedsOverlap, RaceInit, Init, Present
  <2> QED
    BY <2>1, <2>3, <2>4, <2>5, <2>6 DEF RaceInv
<1>2. RaceInv /\ [RaceStep]_raceVars => RaceInv'
  BY RaceInvStep
<1> QED
  BY <1>1, <1>2, PTL DEF FreeRaceSpec

\* A manifest whose pack ran beside no gc that had marked, while no gc that had
\* marked met another past its open, has lost nothing.
THEOREM LossIsExplained ==
    FreeRaceSpec => []LossNeedsOverlap
<1>1. RaceInv => LossNeedsOverlap
  BY DEF RaceInv, AllExposed, LossNeedsOverlap, Present
<1> QED
  BY <1>1, RaceInductive, PTL

\* The same of the bounded specification, which TLC checks.
THEOREM BoundedLossIsExplained ==
    RaceSpec => [](RaceInv /\ LossNeedsOverlap)
<1>1. RaceSpec => FreeRaceSpec
  <2>1. [RaceNext]_raceVars => [RaceStep]_raceVars
    BY DEF RaceNext
  <2> QED
    BY <2>1, PTL DEF RaceSpec, FreeRaceSpec
<1> QED
  BY <1>1, RaceInductive, LossIsExplained, PTL
=============================================================================
