-------------------------- MODULE PartitionGcProofs --------------------------
(***************************************************************************)
(* Proofs about PartitionGc, for every set of blocks, manifests and        *)
(* processes.                                                              *)
(***************************************************************************)
EXTENDS PartitionGc, TLAPS

USE DEF Proc, Dir, PC, Swap, vars, memory

-----------------------------------------------------------------------------
(* The blocks the manifests need are blocks.                               *)

LEMMA ReferencedType == Referenced \subseteq Hash
<1>1. \A m \in Whole : Blocks[m] \in SUBSET Hash
  BY StoreAssumption DEF Whole
<1>2. QED
  BY <1>1 DEF Referenced

-----------------------------------------------------------------------------
(* The file-system calls of the swap keep directories directories.         *)

\* A rename of packs/ or active/, or none, keeps sets of blocks.
LEMMA MoveAsideType ==
    ASSUME files \in [Dir -> SUBSET Hash],
           NEW src \in Dir, NEW dst \in Dir, MoveAside(src, dst)
    PROVE  files' \in [Dir -> SUBSET Hash]
<1>1. CASE UNCHANGED files
  BY <1>1
<1>2. CASE files' = Renamed(src, dst)
  BY <1>2 DEF Renamed
<1> QED
  BY <1>1, <1>2 DEF MoveAside

\* Whatever remove_dir_all leaves of the backups is a set of blocks.
LEMMA RemoveBackupsType ==
    ASSUME files \in [Dir -> SUBSET Hash],
           NEW rest \in [Dir -> SUBSET Hash], RemoveBackups(rest)
    PROVE  /\ files' \in [Dir -> SUBSET Hash]
           /\ files'["packs.pre-gc"] \subseteq files["packs.pre-gc"]
           /\ \A d \in Dir \ {"packs.pre-gc", "active.pre-gc"} :
                 files'[d] = rest[d]
<1>1. PICK a \in SUBSET files["packs.pre-gc"],
           b \in SUBSET files["active.pre-gc"] :
             files' = [d \in Dir |-> CASE d = "packs.pre-gc" -> a
                                       [] d = "active.pre-gc" -> b
                                       [] OTHER -> rest[d]]
  BY DEF RemoveBackups
<1>2. a \in SUBSET Hash /\ b \in SUBSET Hash
  BY <1>1
<1>3. /\ files'["packs.pre-gc"] = a
      /\ files'["active.pre-gc"] = b
      /\ \A d \in Dir \ {"packs.pre-gc", "active.pre-gc"} :
            files'[d] = rest[d]
  BY <1>1
<1>4. files' \in [Dir -> SUBSET Hash]
  BY <1>1, <1>2, <1>3
<1> QED
  BY <1>1, <1>3, <1>4

-----------------------------------------------------------------------------
(* Type correctness, under any isolation of the commands.                  *)

\* Every step of either command, a crash or a deleted manifest keeps the
\* types of the directory tree and of the processes' memory.
LEMMA TypeStep == TypeOK /\ [Next]_vars => TypeOK'
<1> SUFFICES ASSUME TypeOK, [Next]_vars PROVE TypeOK'
  OBVIOUS
<1> USE StoreAssumption, ProcAssumption DEF TypeOK, Goto, Exit, Store
<1>1. CASE UNCHANGED vars
  BY <1>1
<1>2. ASSUME NEW p \in PackProc, NEW m \in Manifest, PackOpen(p, m)
      PROVE TypeOK'
  BY <1>2 DEF PackOpen
<1>3. ASSUME NEW p \in PackProc, PackStep(p)
      PROVE TypeOK'
  <2>1. ASSUME NEW h \in Hash, PackPut(p, h) PROVE TypeOK'
    <3>1. files' \in [Dir -> SUBSET Hash]
      <4>1. CASE h \in index[p]
        BY <2>1, <4>1 DEF PackPut
      <4>2. CASE h \notin index[p]
        BY <2>1, <4>2 DEF PackPut
      <4> QED
        BY <4>1, <4>2
    <3>2. index' \in [Proc -> SUBSET Hash] /\ todo' \in [Proc -> SUBSET Hash]
      BY <2>1 DEF PackPut
    <3>3. UNCHANGED <<manifests, pc, man, live, outcome>>
      BY <2>1 DEF PackPut
    <3> QED
      BY <3>1, <3>2, <3>3
  <2>2. CASE PackSeal(p)
    BY <2>2 DEF PackSeal, Sealed
  <2>3. CASE PackManifest(p)
    BY <2>3 DEF PackManifest
  <2> QED
    BY <1>3, <2>1, <2>2, <2>3 DEF PackStep
<1>4. ASSUME NEW p \in PackProc, PackTearsManifest(p)
      PROVE TypeOK'
  BY <1>4 DEF PackTearsManifest
<1>5. ASSUME NEW g \in GcProc, GcSkip(g) \/ GcGoAhead(g) \/ GcUtilizationError(g)
      PROVE TypeOK'
  BY <1>5 DEF GcSkip, GcGoAhead, GcUtilizationError
<1>6. ASSUME NEW g \in GcProc, GcStep(g)
      PROVE TypeOK'
  <2>1. CASE GcOpen(g)
    BY <2>1 DEF GcOpen, Sealed
  <2>2. CASE GcMark(g)
    <3>1. Referenced \in SUBSET Hash
      BY ReferencedType
    <3> QED
      BY <2>2, <3>1 DEF GcMark
  <2>3. CASE GcStage(g)
    BY <2>3 DEF GcStage
  <2>4. ASSUME NEW h \in Hash, GcCopy(g, h) PROVE TypeOK'
    BY <2>4 DEF GcCopy
  <2>5. CASE GcSealStaged(g)
    BY <2>5 DEF GcSealStaged
  <2>6. CASE GcClearBackups(g)
    BY <2>6, RemoveBackupsType DEF GcClearBackups
  <2>7. CASE GcMovePacks(g)
    BY <2>7, MoveAsideType DEF GcMovePacks
  <2>8. CASE GcMoveActive(g)
    BY <2>8, MoveAsideType DEF GcMoveActive
  <2>9. CASE GcPlacePacks(g)
    BY <2>9 DEF GcPlacePacks, Renamed
  <2>10. CASE GcPlaceActive(g)
    BY <2>10 DEF GcPlaceActive, Renamed
  <2>11. CASE GcCleanup(g)
    <3>1. files' \in [Dir -> SUBSET Hash]
      BY <2>11, RemoveBackupsType DEF GcCleanup
    <3> QED
      BY <2>11, <3>1 DEF GcCleanup
  <2>12. CASE GcError(g)
    BY <2>12 DEF GcError
  <2> QED
    BY <1>6, <2>1, <2>2, <2>3, <2>4, <2>5, <2>6, <2>7, <2>8, <2>9, <2>10,
       <2>11, <2>12 DEF GcStep
<1>7. ASSUME NEW p \in Proc, Crash(p)
      PROVE TypeOK'
  BY <1>7 DEF Crash
<1>8. ASSUME NEW m \in Manifest, Forget(m)
      PROVE TypeOK'
  BY <1>8 DEF Forget
<1> QED
  BY <1>1, <1>2, <1>3, <1>4, <1>5, <1>6, <1>7, <1>8 DEF Next

\* A partition just provisioned has its types.
LEMMA InitType == Init => TypeOK
<1>1. (CHOOSE m \in Manifest : TRUE) \in Manifest
  BY StoreAssumption
<1> SUFFICES ASSUME Init PROVE TypeOK
  OBVIOUS
<1>2. /\ files \in [Dir -> SUBSET Hash]
      /\ manifests \in [Manifest -> {"absent", "whole", "torn"}]
      /\ pc \in [Proc -> PC]
  BY DEF Init
<1>3. man \in [PackProc -> Manifest]
  BY <1>1 DEF Init
<1>4. /\ index \in [Proc -> SUBSET Hash]
      /\ todo \in [Proc -> SUBSET Hash]
      /\ live \in [GcProc -> SUBSET Hash]
  BY DEF Init
<1>5. outcome \in
        [Proc -> {"none", "packed", "skipped", "collected", "failed"}]
  BY DEF Init
<1> QED
  BY <1>2, <1>3, <1>4, <1>5 DEF TypeOK

\* Type correctness of the whole specification, whatever overlaps.
THEOREM TypeCorrect == Spec => []TypeOK
  BY InitType, TypeStep, PTL DEF Spec

-----------------------------------------------------------------------------
(* One command at a time: what the other processes may rely on.            *)

\* A gc process is a process, and not a pack process.
LEMMA Disjoint ==
    \A p \in PackProc, g \in GcProc : p \in Proc \ {g} /\ g \in Proc \ {p}
<1> SUFFICES ASSUME NEW p \in PackProc, NEW g \in GcProc, p = g PROVE FALSE
  OBVIOUS
<1>1. p \in PackProc \intersect GcProc
  OBVIOUS
<1> QED
  BY <1>1, ProcAssumption

\* The phase of a gc that is in no command asks nothing.
LEMMA IdleGc ==
    ASSUME NEW g \in GcProc, pc'[g] = "idle"
    PROVE  GcPhase(g)'
<1>1. pc'[g] \notin {"mark", "stage", "copy", "clear"} \union Swap
  OBVIOUS
<1>2. /\ pc'[g] \notin {"mark", "stage", "copy", "clear", "movePacks"}
      /\ pc'[g] \notin {"stage", "copy", "clear"} \union Swap
      /\ pc'[g] \notin {"clear", "movePacks", "moveActive", "placePacks"}
      /\ pc'[g] \notin {"clear"} \union Swap
      /\ pc'[g] \notin {"moveActive", "placePacks"}
      /\ pc'[g] \notin {"placeActive", "cleanup"}
      /\ pc'[g] # "copy"
  OBVIOUS
<1> QED
  BY <1>1, <1>2, Zenon DEF GcPhase

\* While one process is the only one in a command, the phases of all others
\* say nothing, and stay so when it moves its own program counter.
LEMMA PackAlone ==
    ASSUME TypeOK, NEW p \in PackProc, \A q \in Proc \ {p} : pc[q] = "idle",
           NEW l, Goto(p, l), PackPhase(p)'
    PROVE  OneCommand' /\ PackInv' /\ GcInv'
<1> USE ProcAssumption DEF Goto, TypeOK
<1>1. \A q \in Proc \ {p} : pc'[q] = "idle"
  OBVIOUS
<1>2. OneCommand'
  BY <1>1 DEF OneCommand
<1>3. PackInv'
  <2> SUFFICES ASSUME NEW q \in PackProc, q # p PROVE PackPhase(q)'
    BY DEF PackInv
  <2>1. pc'[q] = "idle"
    BY <1>1
  <2> QED
    BY <2>1 DEF PackPhase
<1>4. GcInv'
  <2> SUFFICES ASSUME NEW g \in GcProc PROVE GcPhase(g)'
    BY DEF GcInv
  <2>1. pc'[g] = "idle"
    BY <1>1, Disjoint
  <2> QED
    BY <2>1, IdleGc
<1> QED
  BY <1>2, <1>3, <1>4

\* The same for gc: while it runs, no other process has a phase.
LEMMA GcAlone ==
    ASSUME TypeOK, NEW g \in GcProc, \A q \in Proc \ {g} : pc[q] = "idle",
           NEW l, Goto(g, l), GcPhase(g)'
    PROVE  OneCommand' /\ PackInv' /\ GcInv'
<1> USE ProcAssumption DEF Goto, TypeOK
<1>1. \A q \in Proc \ {g} : pc'[q] = "idle"
  OBVIOUS
<1>2. OneCommand'
  BY <1>1 DEF OneCommand
<1>3. PackInv'
  <2> SUFFICES ASSUME NEW p \in PackProc PROVE PackPhase(p)'
    BY DEF PackInv
  <2>1. pc'[p] = "idle"
    BY <1>1, Disjoint
  <2> QED
    BY <2>1 DEF PackPhase
<1>4. GcInv'
  <2> SUFFICES ASSUME NEW q \in GcProc, q # g PROVE GcPhase(q)'
    BY DEF GcInv
  <2>1. pc'[q] = "idle"
    BY <1>1
  <2> QED
    BY <2>1, IdleGc
<1> QED
  BY <1>2, <1>3, <1>4

\* A process inside a command is the only one.
LEMMA Alone ==
    ASSUME OneCommand, NEW p \in Proc, pc[p] # "idle"
    PROVE  \A q \in Proc \ {p} : pc[q] = "idle"
  BY DEF OneCommand

\* A step that publishes no manifest and drops no block keeps Recoverable.
LEMMA RecoverableKept ==
    ASSUME Recoverable, Present' \subseteq Present,
           Retrievable \subseteq Retrievable'
    PROVE  Recoverable'
  BY DEF Recoverable

-----------------------------------------------------------------------------
(* The steps of pack.                                                      *)

\* Opening the store, putting a block, sealing and writing the manifest, or
\* being cut short in the last: a manifest appears only when all its blocks
\* are in packs/ or active/.
LEMMA PackSteps ==
    ASSUME Isolation = "command", IInv, NEW p \in PackProc,
           \/ \E m \in Manifest : PackOpen(p, m)
           \/ PackStep(p)
           \/ PackTearsManifest(p)
    PROVE  OneCommand' /\ PackInv' /\ GcInv' /\ Recoverable'
<1> USE StoreAssumption DEF IInv
<1>1. p \in Proc
  OBVIOUS
<1>2. PackPhase(p)
  BY DEF PackInv
<1>3. ASSUME NEW m \in Manifest, PackOpen(p, m)
      PROVE OneCommand' /\ PackInv' /\ GcInv' /\ Recoverable'
  <2>1. \A q \in Proc \ {p} : pc[q] = "idle"
    BY <1>3 DEF PackOpen, MayOpen
  <2>2. PackPhase(p)'
    BY <1>1, <1>3 DEF PackOpen, PackPhase, TypeOK, Goto, Store
  <2>3. Recoverable'
    BY <1>3, RecoverableKept DEF PackOpen, Present, Retrievable, Store
  <2> QED
    BY <1>3, <2>1, <2>2, <2>3, PackAlone DEF PackOpen
<1>4. ASSUME pc[p] # "idle" PROVE \A q \in Proc \ {p} : pc[q] = "idle"
  BY <1>1, <1>4, Alone
<1>5. ASSUME NEW h \in Hash, PackPut(p, h)
      PROVE OneCommand' /\ PackInv' /\ GcInv' /\ Recoverable'
  <2>1. pc[p] = "put" /\ Goto(p, "put")
    BY <1>5 DEF PackPut, Goto, TypeOK
  <2>2. /\ index'[p] = index[p] \union {h}
        /\ todo'[p] = todo[p] \ {h}
        /\ man'[p] = man[p] /\ pc'[p] = "put"
    BY <1>1, <1>5 DEF PackPut, TypeOK
  <2>3. Store' = Store \union (IF h \in index[p] THEN {} ELSE {h})
    BY <1>5 DEF PackPut, TypeOK, Store
  <2>4. PackPhase(p)'
    BY <1>2, <2>1, <2>2, <2>3 DEF PackPhase
  <2>5. Retrievable \subseteq Retrievable'
    BY <1>5, <2>3 DEF PackPut, TypeOK, Retrievable
  <2>6. Recoverable'
    BY <1>5, <2>5, RecoverableKept DEF PackPut, Present
  <2> QED
    BY <1>4, <2>1, <2>4, <2>6, PackAlone
<1>6. CASE PackSeal(p)
  <2>1. pc[p] = "put" /\ Goto(p, "manifest") /\ todo[p] = {}
    BY <1>6 DEF PackSeal
  <2>2. Store' = Store /\ Retrievable' = Retrievable
    BY <1>6 DEF PackSeal, Sealed, TypeOK, Store, Retrievable
  <2>3. man'[p] = man[p] /\ pc'[p] = "manifest"
    BY <1>1, <1>6 DEF PackSeal, TypeOK, Goto
  <2>4. PackPhase(p)'
    BY <1>2, <2>1, <2>2, <2>3 DEF PackPhase
  <2>5. Recoverable'
    BY <1>6, <2>2, RecoverableKept DEF PackSeal, Present
  <2> QED
    BY <1>4, <2>1, <2>4, <2>5, PackAlone
<1>7. CASE PackManifest(p) \/ PackTearsManifest(p)
  <2>1. pc[p] = "manifest" /\ Goto(p, "idle")
    BY <1>7 DEF PackManifest, PackTearsManifest, Exit
  <2>2. PackPhase(p)'
    BY <1>1, <2>1 DEF PackPhase, Goto, TypeOK
  <2>3. Present' \subseteq Present \union {man[p]}
    BY <1>7 DEF PackManifest, PackTearsManifest, TypeOK, Present
  <2>4. Blocks[man[p]] \subseteq Retrievable
    BY <1>2, <2>1 DEF PackPhase, Retrievable
  <2>5. Retrievable' = Retrievable
    BY <1>7 DEF PackManifest, PackTearsManifest, Retrievable, Store
  <2>6. Recoverable'
    BY <2>3, <2>4, <2>5 DEF Recoverable
  <2> QED
    BY <1>4, <2>1, <2>2, <2>6, PackAlone
<1> QED
  BY <1>3, <1>5, <1>6, <1>7 DEF PackStep

-----------------------------------------------------------------------------
(* The steps of gc.                                                        *)

\* Up to the end of the copy nothing but the staging directory and the
\* active pack changes, so every block stays retrievable.
LEMMA GcPrepares ==
    ASSUME IInv, NEW g \in GcProc,
           \/ GcOpen(g) /\ Isolation = "command"
           \/ GcMark(g)
           \/ GcStage(g)
           \/ \E h \in Hash : GcCopy(g, h)
           \/ GcSealStaged(g)
    PROVE  GcPhase(g)' /\ Recoverable'
<1> USE StoreAssumption DEF IInv
<1>1. g \in Proc
  OBVIOUS
<1>2. GcPhase(g)
  BY DEF GcInv
<1>3. CASE GcOpen(g)
  <2>1. /\ pc'[g] = "mark" /\ index'[g] = Store
        /\ files'["packs"] = Store /\ files'["active"] = {}
        /\ files'["packs.pre-gc"] = files["packs.pre-gc"]
    BY <1>1, <1>3 DEF GcOpen, Goto, Sealed, TypeOK
  <2>2. GcPhase(g)'
    BY <2>1 DEF GcPhase
  <2>3. Retrievable' = Retrievable
    BY <2>1 DEF Retrievable, Store
  <2> QED
    BY <1>3, <2>2, <2>3, RecoverableKept DEF GcOpen, Present
<1>4. CASE GcMark(g)
  <2>1. /\ pc[g] = "mark" /\ pc'[g] = "stage"
        /\ files' = files /\ index' = index /\ manifests' = manifests
        /\ live'[g] = Referenced
    BY <1>1, <1>4 DEF GcMark, Goto, TypeOK
  <2>2. \A m \in Present : Blocks[m] \subseteq Referenced
    BY <1>4 DEF GcMark, CanMark, Referenced
  <2>3. Present' = Present
    BY <2>1 DEF Present
  <2>4. GcPhase(g)'
    BY <1>2, <2>1, <2>2, <2>3 DEF GcPhase
  <2> QED
    BY <2>1, <2>3, <2>4, RecoverableKept DEF Retrievable, Store
<1>5. CASE GcStage(g)
  <2>1. /\ pc[g] = "stage" /\ pc'[g] = "copy"
        /\ index' = index /\ live' = live /\ manifests' = manifests
        /\ todo'[g] = live[g]
        /\ files'["staged packs"] = {} /\ files'["staged active"] = {}
        /\ \A d \in Dir \ {"staged packs", "staged active"} :
              files'[d] = files[d]
    BY <1>1, <1>5 DEF GcStage, Goto, TypeOK
  <2>2. Present' = Present
    BY <2>1 DEF Present
  <2>3. GcPhase(g)'
    BY <1>2, <2>1, <2>2 DEF GcPhase
  <2> QED
    BY <2>1, <2>2, <2>3, RecoverableKept DEF Retrievable, Store
<1>6. ASSUME NEW h \in Hash, GcCopy(g, h)
      PROVE GcPhase(g)' /\ Recoverable'
  <2>1. /\ pc[g] = "copy" /\ pc' = pc
        /\ index' = index /\ live' = live /\ manifests' = manifests
        /\ h \in todo[g] /\ h \in index[g]
        /\ todo'[g] = todo[g] \ {h}
        /\ files'["staged active"] = files["staged active"] \union {h}
        /\ \A d \in Dir \ {"staged active"} : files'[d] = files[d]
    BY <1>1, <1>6 DEF GcCopy, Readable, TypeOK
  <2>2. Present' = Present
    BY <2>1 DEF Present
  <2>3. GcPhase(g)'
    BY <1>2, <2>1, <2>2 DEF GcPhase
  <2> QED
    BY <2>1, <2>2, <2>3, RecoverableKept DEF Retrievable, Store
<1>7. CASE GcSealStaged(g)
  <2>1. /\ pc[g] = "copy" /\ pc'[g] = "clear" /\ todo[g] = {}
        /\ index' = index /\ live' = live /\ manifests' = manifests
        /\ files'["staged packs"] =
             files["staged packs"] \union files["staged active"]
        /\ files'["staged active"] = {}
        /\ \A d \in Dir \ {"staged packs", "staged active"} :
              files'[d] = files[d]
    BY <1>1, <1>7 DEF GcSealStaged, Goto, TypeOK
  <2>2. Present' = Present
    BY <2>1 DEF Present
  <2>3. GcPhase(g)'
    BY <1>2, <2>1, <2>2 DEF GcPhase
  <2> QED
    BY <2>1, <2>2, <2>3, RecoverableKept DEF Retrievable, Store
<1> QED
  BY <1>3, <1>4, <1>5, <1>6, <1>7

\* A swap step that leaves the live set in packs/ or in its backup keeps
\* every block of every manifest: the mark covers them all.
LEMMA LiveIsEnough ==
    ASSUME NEW g \in GcProc, \A m \in Present : Blocks[m] \subseteq live[g],
           live[g] \subseteq Retrievable', Present' = Present
    PROVE  Recoverable'
  BY DEF Recoverable

\* The swap: at every call the live set is in packs/ or in packs.pre-gc/.
LEMMA GcSwaps ==
    ASSUME IInv, NEW g \in GcProc,
           \/ GcClearBackups(g)
           \/ GcMovePacks(g)
           \/ GcMoveActive(g)
           \/ GcPlacePacks(g)
           \/ GcPlaceActive(g)
    PROVE  GcPhase(g)' /\ Recoverable'
<1> USE StoreAssumption DEF IInv
<1>1. g \in Proc
  OBVIOUS
<1>2. GcPhase(g)
  BY DEF GcInv
<1>3. /\ Present' = Present
      /\ index' = index /\ live' = live
  BY DEF GcClearBackups, GcMovePacks, GcMoveActive, GcPlacePacks,
         GcPlaceActive, Present
<1>4. CASE GcClearBackups(g)
  <2>1. pc[g] = "clear" /\ pc'[g] = "movePacks"
    BY <1>1, <1>4 DEF GcClearBackups, Goto, TypeOK
  <2>2. \A d \in Dir \ {"packs.pre-gc", "active.pre-gc"} :
           files'[d] = files[d]
    BY <1>4, RemoveBackupsType DEF GcClearBackups, TypeOK
  <2>3. GcPhase(g)'
    BY <1>2, <1>3, <2>1, <2>2 DEF GcPhase
  <2>4. live[g] \subseteq Retrievable'
    BY <1>2, <2>1, <2>2 DEF GcPhase, Retrievable, Store
  <2> QED
    BY <1>2, <1>3, <2>1, <2>3, <2>4, LiveIsEnough DEF GcPhase
<1>5. CASE GcMovePacks(g)
  <2>1. pc[g] = "movePacks" /\ pc'[g] = "moveActive"
    BY <1>1, <1>5 DEF GcMovePacks, Goto, TypeOK
  <2>2. /\ files["packs"] \subseteq files'["packs.pre-gc"]
        /\ \A d \in Dir \ {"packs", "packs.pre-gc"} : files'[d] = files[d]
    BY <1>5 DEF GcMovePacks, MoveAside, Renamed, TypeOK
  <2>3. GcPhase(g)'
    BY <1>2, <1>3, <2>1, <2>2 DEF GcPhase
  <2>4. live[g] \subseteq Retrievable'
    BY <1>2, <2>1, <2>2 DEF GcPhase, Retrievable
  <2> QED
    BY <1>2, <1>3, <2>1, <2>3, <2>4, LiveIsEnough DEF GcPhase
<1>6. CASE GcMoveActive(g)
  <2>1. pc[g] = "moveActive" /\ pc'[g] = "placePacks"
    BY <1>1, <1>6 DEF GcMoveActive, Goto, TypeOK
  <2>2. files' = files
    BY <1>2, <1>6, <2>1 DEF GcMoveActive, MoveAside, GcPhase
  <2>3. GcPhase(g)'
    BY <1>2, <1>3, <2>1, <2>2 DEF GcPhase
  <2>4. live[g] \subseteq Retrievable'
    BY <1>2, <2>1, <2>2 DEF GcPhase, Retrievable
  <2> QED
    BY <1>2, <1>3, <2>1, <2>3, <2>4, LiveIsEnough DEF GcPhase
<1>7. CASE GcPlacePacks(g)
  <2>1. pc[g] = "placePacks" /\ pc'[g] = "placeActive"
    BY <1>1, <1>7 DEF GcPlacePacks, Goto, TypeOK
  <2>2. /\ files'["packs"] = files["staged packs"]
        /\ \A d \in Dir \ {"packs", "staged packs"} : files'[d] = files[d]
    BY <1>7 DEF GcPlacePacks, Renamed, TypeOK
  <2>3. GcPhase(g)'
    BY <1>2, <1>3, <2>1, <2>2 DEF GcPhase
  <2>4. live[g] \subseteq Retrievable'
    BY <1>2, <2>1, <2>2 DEF GcPhase, Retrievable, Store
  <2> QED
    BY <1>2, <1>3, <2>1, <2>3, <2>4, LiveIsEnough DEF GcPhase
<1>8. CASE GcPlaceActive(g)
  <2>1. pc[g] = "placeActive" /\ pc'[g] = "cleanup"
    BY <1>1, <1>8 DEF GcPlaceActive, Goto, TypeOK
  <2>2. files' = files
    BY <1>2, <1>8, <2>1 DEF GcPlaceActive, GcPhase
  <2>3. GcPhase(g)'
    BY <1>2, <1>3, <2>1, <2>2 DEF GcPhase
  <2>4. live[g] \subseteq Retrievable'
    BY <1>2, <2>1, <2>2 DEF GcPhase, Retrievable, Store
  <2> QED
    BY <1>2, <1>3, <2>1, <2>3, <2>4, LiveIsEnough DEF GcPhase
<1> QED
  BY <1>4, <1>5, <1>6, <1>7, <1>8

\* A gc process that is idle, or about to open the store, promises nothing.
LEMMA OpenGc ==
    ASSUME NEW g \in GcProc, pc'[g] = "open"
    PROVE  GcPhase(g)'
  BY DEF GcPhase

\* The start of gc, its end and its early returns.  Only the end removes
\* anything: the backups, when packs/ already is the live set.
LEMMA GcStartsAndEnds ==
    ASSUME IInv, NEW g \in GcProc,
           GcGoAhead(g) \/ GcCleanup(g) \/ GcError(g)
    PROVE  GcPhase(g)' /\ Recoverable'
<1> USE StoreAssumption DEF IInv
<1>1. g \in Proc
  OBVIOUS
<1>2. CASE GcGoAhead(g)
  <2>1. pc'[g] = "open"
    BY <1>1, <1>2 DEF GcGoAhead, Goto, TypeOK
  <2> QED
    BY <1>2, <2>1, OpenGc, RecoverableKept
    DEF GcGoAhead, Present, Retrievable, Store
<1>3. CASE GcCleanup(g)
  <2>1. pc[g] = "cleanup" /\ pc'[g] = "idle"
    BY <1>1, <1>3 DEF GcCleanup, Exit, Goto, TypeOK
  <2>2. files'["packs"] = files["packs"]
    <3> DEFINE rest == [files EXCEPT !["staged packs"] = {},
                                     !["staged active"] = {}]
    <3>1. rest \in [Dir -> SUBSET Hash] /\ rest["packs"] = files["packs"]
      BY DEF TypeOK
    <3>2. RemoveBackups(rest)
      BY <1>3 DEF GcCleanup
    <3> HIDE DEF rest
    <3> QED
      BY <3>1, <3>2, RemoveBackupsType DEF TypeOK
  <2>3. /\ \A m \in Present : Blocks[m] \subseteq live[g]
        /\ files["packs"] = live[g]
    BY <2>1 DEF GcInv, GcPhase
  <2>4. Present' = Present
    BY <1>3 DEF GcCleanup, Present
  <2> QED
    BY <2>1, <2>2, <2>3, <2>4, IdleGc, LiveIsEnough DEF Retrievable, Store
<1>4. CASE GcError(g)
  <2>1. pc'[g] = "idle"
    BY <1>1, <1>4 DEF GcError, Exit, Goto, TypeOK
  <2> QED
    BY <1>4, <2>1, IdleGc, RecoverableKept
    DEF GcError, Present, Retrievable, Store
<1> QED
  BY <1>2, <1>3, <1>4

-----------------------------------------------------------------------------
(* The environment, and the invariant of the whole specification.          *)

\* A crash forgets the memory of the process and leaves the disk alone.
LEMMA CrashStep ==
    ASSUME IInv, NEW p \in Proc, Crash(p)
    PROVE  OneCommand' /\ PackInv' /\ GcInv' /\ Recoverable'
<1> USE DEF IInv
<1>1. \A q \in Proc : pc'[q] = "idle"
  BY Alone DEF Crash, Exit, Goto, TypeOK
<1>2. OneCommand' /\ PackInv'
  BY <1>1 DEF OneCommand, PackInv, PackPhase
<1>3. GcInv'
  BY <1>1, IdleGc DEF GcInv
<1>4. Recoverable'
  BY RecoverableKept DEF Crash, Present, Retrievable, Store
<1> QED
  BY <1>2, <1>3, <1>4

\* Deleting a manifest file asks less of the blocks.
LEMMA ForgetStep ==
    ASSUME IInv, NEW m \in Manifest, Forget(m)
    PROVE  OneCommand' /\ PackInv' /\ GcInv' /\ Recoverable'
<1> USE DEF IInv
<1>1. Present' \subseteq Present
  BY DEF Forget, Present, TypeOK
<1>2. UNCHANGED <<files, pc, man, index, todo, live>>
  BY DEF Forget
<1>3. OneCommand' /\ PackInv'
  BY <1>2 DEF OneCommand, PackInv, PackPhase, Store
<1>4. ASSUME NEW g \in GcProc PROVE GcPhase(g)'
  <2>1. GcPhase(g)
    BY DEF GcInv
  <2> QED
    BY <1>1, <1>2, <2>1 DEF GcPhase
<1>5. Recoverable'
  BY <1>1, <1>2, RecoverableKept DEF Retrievable, Store
<1> QED
  BY <1>3, <1>4, <1>5 DEF GcInv

\* A gc step, by the only command that runs.
LEMMA GcSteps ==
    ASSUME Isolation = "command", IInv, NEW g \in GcProc,
           GcGoAhead(g) \/ GcStep(g)
    PROVE  OneCommand' /\ PackInv' /\ GcInv' /\ Recoverable'
<1>1. GcPhase(g)' /\ Recoverable'
  BY GcPrepares, GcSwaps, GcStartsAndEnds DEF GcStep
<1>2. \A q \in Proc \ {g} : pc[q] = "idle"
  <2>1. CASE GcGoAhead(g)
    BY <2>1 DEF GcGoAhead, MayOpen
  <2>2. CASE GcStep(g)
    <3>1. g \in Proc /\ pc[g] # "idle"
      BY <2>2 DEF GcStep, GcOpen, GcMark, GcStage, GcCopy, GcSealStaged,
         GcClearBackups, GcMovePacks, GcMoveActive, GcPlacePacks,
         GcPlaceActive, GcCleanup, GcError, Blocked
    <3> QED
      BY <3>1, Alone DEF IInv
  <2> QED
    BY <2>1, <2>2
<1>3. \E l \in PC : Goto(g, l)
  <2>1. pc = [pc EXCEPT ![g] = pc[g]] /\ pc[g] \in PC
    BY DEF IInv, TypeOK
  <2> QED
    BY <2>1 DEF GcGoAhead, GcStep, GcOpen, GcMark, GcStage, GcCopy,
       GcSealStaged, GcClearBackups, GcMovePacks, GcMoveActive,
       GcPlacePacks, GcPlaceActive, GcCleanup, GcError, Exit, Goto
<1> QED
  BY <1>1, <1>2, <1>3, GcAlone DEF IInv

\* A step that leaves disk, manifests, program counters and memory as they
\* are, as a skipped gc does, keeps the invariant.
LEMMA SameState ==
    ASSUME IInv, UNCHANGED <<files, manifests, pc, man, memory>>
    PROVE  OneCommand' /\ PackInv' /\ GcInv' /\ Recoverable'
<1> USE DEF IInv
<1>1. Present' = Present /\ Store' = Store /\ Retrievable' = Retrievable
  BY DEF Present, Store, Retrievable
<1>2. OneCommand' /\ Recoverable'
  BY <1>1 DEF OneCommand, Recoverable
<1>3. PackInv'
  BY <1>1 DEF PackInv, PackPhase
<1>4. ASSUME NEW g \in GcProc PROVE GcPhase(g)'
  <2>1. GcPhase(g)
    BY DEF GcInv
  <2> QED
    BY <1>1, <2>1 DEF GcPhase
<1> QED
  BY <1>2, <1>3, <1>4 DEF GcInv

\* Every step keeps the inductive invariant: pack, gc, crash, deletion.
LEMMA InductiveStep ==
    ASSUME Isolation = "command"
    PROVE  IInv /\ [Next]_vars => IInv'
<1> SUFFICES ASSUME IInv, [Next]_vars PROVE IInv'
  OBVIOUS
<1>1. TypeOK'
  BY TypeStep DEF IInv
<1>2. CASE UNCHANGED vars
  BY <1>1, <1>2, SameState DEF IInv
<1>3. ASSUME NEW g \in GcProc, GcSkip(g) \/ GcUtilizationError(g)
      PROVE  OneCommand' /\ PackInv' /\ GcInv' /\ Recoverable'
  <2>1. UNCHANGED <<files, manifests, pc, man, memory>>
    BY <1>3 DEF GcSkip, GcUtilizationError
  <2> QED
    BY <2>1, SameState
<1>4. CASE Next
  BY <1>1, <1>3, <1>4, PackSteps, GcSteps, CrashStep, ForgetStep DEF Next, IInv
<1> QED
  BY <1>2, <1>4

\* A partition just provisioned satisfies the inductive invariant.
LEMMA InductiveInit == Init => IInv
<1> SUFFICES ASSUME Init PROVE IInv
  OBVIOUS
<1>1. TypeOK
  BY InitType
<1>2. \A p \in Proc : pc[p] = "idle"
  BY DEF Init
<1>3. OneCommand /\ PackInv
  BY <1>2 DEF OneCommand, PackInv, PackPhase
<1>4. GcInv
  BY <1>2 DEF GcInv, GcPhase
<1>5. Recoverable
  BY DEF Init, Recoverable, Present
<1> QED
  BY <1>1, <1>3, <1>4, <1>5 DEF IInv

\* The strengthening is an invariant of commands that run one at a time.
THEOREM Inductive ==
    ASSUME Isolation = "command"
    PROVE  Spec => []IInv
<1> QED
  BY InductiveInit, InductiveStep, PTL DEF Spec

\* No crash, I/O error, retry or deleted manifest ever makes gc destroy a
\* block that a manifest of the partition needs, provided the commands on
\* the partition run one at a time.
THEOREM NothingReferencedIsDestroyed ==
    ASSUME Isolation = "command"
    PROVE  Spec => []Recoverable
<1>1. IInv => Recoverable
  BY DEF IInv
<1> QED
  BY <1>1, Inductive, PTL

\* Under the same condition a swap replaces exactly the indexed blocks by
\* exactly the live ones.
THEOREM SwapReplacesIndexByLive ==
    ASSUME Isolation = "command"
    PROVE  Spec => []SwapIsExact
<1>1. IInv => SwapIsExact
  <2> SUFFICES ASSUME IInv, NEW g \in GcProc
               PROVE  /\ pc[g] = "movePacks" => Store = index[g]
                      /\ pc[g] = "cleanup" =>
                           Store = live[g] /\ Referenced \subseteq Store
    BY DEF SwapIsExact
  <2>1. GcPhase(g)
    BY DEF IInv, GcInv
  <2>2. (\A m \in Present : Blocks[m] \subseteq live[g])
          => Referenced \subseteq live[g]
    BY DEF Referenced, Whole, Present
  <2> QED
    BY <2>1, <2>2 DEF GcPhase, Store
<1> QED
  BY <1>1, Inductive, PTL
=============================================================================
