--------------------- MODULE PartitionGcRefinementProofs ---------------------
(***************************************************************************)
(* Commands that run one at a time implement ContentStore, and the report  *)
(* of gc is true of what it did.  Both rest on IInv.                       *)
(***************************************************************************)
EXTENDS PartitionGcProofs, FiniteSetTheorems

USE DEF Proc, Dir, PC, Swap, vars, memory

-----------------------------------------------------------------------------
(* The shapes of a step as the abstract store sees it.                     *)

\* What can be found in the partition is a set of blocks.
LEMMA RetrievableType ==
    ASSUME TypeOK PROVE Retrievable \in SUBSET Hash
  BY DEF TypeOK, Retrievable, Store

\* A step that only removes blocks from disk leaves fewer to be found.
LEMMA FewerOnDisk ==
    ASSUME files'["packs"] \subseteq files["packs"],
           files'["active"] \subseteq files["active"],
           files'["packs.pre-gc"] \subseteq files["packs.pre-gc"]
    PROVE  Retrievable' \subseteq Retrievable
  BY DEF Retrievable, Store

\* Blocks appear: AddBlocks.
LEMMA StoredGrows ==
    ASSUME TypeOK', Present' = Present, Retrievable \subseteq Retrievable'
    PROVE  Abstract!Next
<1>1. Retrievable' \in SUBSET Hash
  BY DEF TypeOK, Retrievable, Store
<1>2. Abstract!AddBlocks(Retrievable')
  BY DEF Abstract!AddBlocks
<1> QED
  BY <1>1, <1>2 DEF Abstract!Next

\* Blocks go, and every manifest still has its own: Reclaim.
LEMMA StoredShrinks ==
    ASSUME TypeOK, Recoverable', Present' = Present,
           Retrievable' \subseteq Retrievable
    PROVE  Abstract!Next
<1> DEFINE S == Retrievable \ Retrievable'
<1>1. S \in SUBSET Hash
  BY RetrievableType
<1>2. \A m \in Present : Blocks[m] \subseteq Retrievable'
  BY DEF Recoverable
<1>3. S \intersect Abstract!Kept(Present) = {}
  BY <1>2 DEF Abstract!Kept
<1>4. Abstract!Reclaim(S)
  BY <1>3 DEF Abstract!Reclaim
<1> QED
  BY <1>1, <1>4 DEF Abstract!Next

-----------------------------------------------------------------------------
(* Every step is one of them, publishes a manifest, or drops one.          *)

\* A step of pack puts blocks or publishes a manifest over stored ones.
LEMMA PackStepsImplement ==
    ASSUME IInv, IInv', NEW p \in PackProc,
           \/ \E m \in Manifest : PackOpen(p, m)
           \/ PackStep(p)
           \/ PackTearsManifest(p)
    PROVE  Abstract!Next
<1> USE DEF IInv
<1>1. ASSUME NEW m \in Manifest, PackOpen(p, m) PROVE Abstract!Next
  BY <1>1, StoredGrows DEF PackOpen, Present, Retrievable, Store
<1>2. ASSUME NEW h \in Hash, PackPut(p, h) PROVE Abstract!Next
  <2>1. Retrievable \subseteq Retrievable'
    BY <1>2 DEF PackPut, TypeOK, Retrievable, Store
  <2> QED
    BY <1>2, <2>1, StoredGrows DEF PackPut, Present
<1>3. CASE PackSeal(p)
  <2>1. Retrievable' = Retrievable
    BY <1>3 DEF PackSeal, Sealed, TypeOK, Store, Retrievable
  <2> QED
    BY <1>3, <2>1, StoredGrows DEF PackSeal, Present
<1>4. CASE PackManifest(p) \/ PackTearsManifest(p)
  <2>1. man[p] \in Manifest
    BY DEF TypeOK
  <2>2. Present' = Present \union {man[p]}
    <3>0. PICK s \in {"whole", "torn"} :
            manifests' = [manifests EXCEPT ![man[p]] = s]
      BY <1>4 DEF PackManifest, PackTearsManifest
    <3>1. /\ manifests'[man[p]] # "absent"
          /\ \A m \in Manifest \ {man[p]} : manifests'[m] = manifests[m]
      <4>1. manifests \in [Manifest -> {"absent", "whole", "torn"}]
        BY DEF TypeOK
      <4>2. s # "absent"
        OBVIOUS
      <4> HIDE DEF IInv
      <4> QED
        BY <2>1, <3>0, <4>1, <4>2
    <3>2. \A m \in Manifest : m \in Present' <=> m \in Present \union {man[p]}
      BY <3>1, <2>1 DEF Present
    <3>3. Present' \subseteq Manifest /\ Present \union {man[p]} \subseteq Manifest
      BY <2>1 DEF Present
    <3> QED
      BY <3>2, <3>3
  <2>3. Retrievable' = Retrievable
    BY <1>4 DEF PackManifest, PackTearsManifest, Retrievable, Store
  <2>4. Blocks[man[p]] \subseteq Retrievable
    BY <1>4 DEF PackManifest, PackTearsManifest, PackInv, PackPhase, Retrievable
  <2>5. Abstract!AddRef(man[p])
    BY <2>2, <2>3, <2>4 DEF Abstract!AddRef
  <2> QED
    BY <2>1, <2>5 DEF Abstract!Next
<1> QED
  BY <1>1, <1>2, <1>3, <1>4 DEF PackStep

\* No step of gc adds a block to what can be found in the partition.
LEMMA GcStepsImplement ==
    ASSUME IInv, IInv', NEW g \in GcProc, GcStep(g)
    PROVE  Abstract!Next
<1> USE DEF IInv
<1>1. Present' = Present
  BY DEF GcStep, GcOpen, GcMark, GcStage, GcCopy, GcSealStaged,
     GcClearBackups, GcMovePacks, GcMoveActive, GcPlacePacks, GcPlaceActive,
     GcCleanup, GcError, Present
<1>2. GcPhase(g)
  BY DEF GcInv
<1>3. Retrievable' \subseteq Retrievable
  <2>1. CASE GcOpen(g)
    BY <2>1 DEF GcOpen, Sealed, TypeOK, Retrievable, Store
  <2>2. CASE GcMark(g) \/ GcError(g)
    BY <2>2 DEF GcMark, GcError, Retrievable, Store
  <2>3. CASE GcStage(g) \/ GcSealStaged(g) \/ \E h \in Hash : GcCopy(g, h)
    <3>1. /\ files'["packs"] = files["packs"]
          /\ files'["active"] = files["active"]
          /\ files'["packs.pre-gc"] = files["packs.pre-gc"]
      BY <2>3 DEF GcStage, GcSealStaged, GcCopy, TypeOK
    <3> QED
      BY <3>1, FewerOnDisk
  <2>4. CASE GcClearBackups(g)
    <3>1. /\ files'["packs"] = files["packs"]
          /\ files'["active"] = files["active"]
          /\ files'["packs.pre-gc"] \subseteq files["packs.pre-gc"]
      BY <2>4, RemoveBackupsType DEF GcClearBackups, TypeOK
    <3> QED
      BY <3>1, FewerOnDisk
  <2>5. CASE GcMovePacks(g)
    BY <2>5 DEF GcMovePacks, MoveAside, CanRename, Renamed, TypeOK,
       Retrievable, Store
  <2>6. CASE GcMoveActive(g)
    <3>1. files' = files
      BY <1>2, <2>6 DEF GcMoveActive, MoveAside, GcPhase
    <3> QED
      BY <3>1 DEF Retrievable, Store
  <2>7. CASE GcPlacePacks(g)
    <3>1. files["staged packs"] \subseteq files["packs.pre-gc"]
      BY <1>2, <2>7 DEF GcPlacePacks, GcPhase
    <3> QED
      BY <2>7, <3>1 DEF GcPlacePacks, Renamed, TypeOK, Retrievable, Store
  <2>8. CASE GcPlaceActive(g)
    <3>1. files' = files
      BY <1>2, <2>8 DEF GcPlaceActive, GcPhase
    <3> QED
      BY <3>1 DEF Retrievable, Store
  <2>9. CASE GcCleanup(g)
    <3> DEFINE rest == [files EXCEPT !["staged packs"] = {},
                                     !["staged active"] = {}]
    <3>1. /\ rest \in [Dir -> SUBSET Hash]
          /\ rest["packs"] = files["packs"] /\ rest["active"] = files["active"]
      BY DEF TypeOK
    <3>2. RemoveBackups(rest)
      BY <2>9 DEF GcCleanup
    <3> HIDE DEF rest
    <3>3. /\ files'["packs"] = files["packs"]
          /\ files'["active"] = files["active"]
          /\ files'["packs.pre-gc"] \subseteq files["packs.pre-gc"]
      BY <3>1, <3>2, RemoveBackupsType DEF TypeOK
    <3> QED
      BY <3>3, FewerOnDisk
  <2> QED
    BY <2>1, <2>2, <2>3, <2>4, <2>5, <2>6, <2>7, <2>8, <2>9 DEF GcStep
<1> QED
  BY <1>1, <1>3, StoredShrinks

\* Every step of the commands is a step of the abstract store or a stutter.
LEMMA StepImplements ==
    IInv /\ IInv' /\ [Next]_vars => [Abstract!Next]_(Abstract!vars)
<1> SUFFICES ASSUME IInv, IInv', [Next]_vars
             PROVE  Abstract!Next \/ UNCHANGED <<Present, Retrievable>>
  BY DEF Abstract!vars
<1>1. ASSUME UNCHANGED <<files, manifests>>
      PROVE  UNCHANGED <<Present, Retrievable>>
  BY <1>1 DEF Present, Retrievable, Store
<1>2. CASE UNCHANGED vars
  BY <1>1, <1>2
<1>3. ASSUME NEW g \in GcProc, GcSkip(g) \/ GcGoAhead(g) \/ GcUtilizationError(g)
      PROVE  UNCHANGED <<files, manifests>>
  BY <1>3 DEF GcSkip, GcGoAhead, GcUtilizationError
<1>4. ASSUME NEW p \in Proc, Crash(p)
      PROVE  UNCHANGED <<files, manifests>>
  BY <1>4 DEF Crash
<1>5. ASSUME NEW m \in Manifest, Forget(m)
      PROVE  Abstract!Next
  <2>1. Present' = Present \ {m}
    BY <1>5 DEF Forget, Present, TypeOK, IInv
  <2>2. Retrievable' = Retrievable
    BY <1>5 DEF Forget, Retrievable, Store
  <2>3. Abstract!DropRef(m)
    BY <2>1, <2>2 DEF Abstract!DropRef
  <2> QED
    BY <2>3 DEF Abstract!Next
<1> QED
  BY <1>1, <1>2, <1>3, <1>4, <1>5, PackStepsImplement, GcStepsImplement DEF Next

\* A partition just provisioned is an empty abstract store.
LEMMA InitImplements == Init => Abstract!Init
<1> SUFFICES ASSUME Init PROVE Present = {} /\ Retrievable = {}
  BY DEF Abstract!Init
<1>1. Present = {}
  BY DEF Init, Present
<1>2. Retrievable = {}
  BY DEF Init, Retrievable, Store
<1> QED
  BY <1>1, <1>2

\* pack, gc, their crashes and the deletion of manifests implement the
\* abstract store when the commands on a partition run one at a time.
THEOREM Implements ==
    ASSUME Isolation = "command"
    PROVE  Spec => ImplementsContentStore
<1> QED
  BY InitImplements, StepImplements, Inductive, PTL
  DEF Spec, ImplementsContentStore, Abstract!Spec

-----------------------------------------------------------------------------
(* The report.                                                             *)

\* Live plus reclaimed is what the index held: the subtraction that collect
\* saturates never goes below zero.
THEOREM ReportAddsUp ==
    ASSUME Isolation = "command"
    PROVE  Spec => []ReportIsTrue
<1>1. IInv => ReportIsTrue
  <2> SUFFICES ASSUME IInv, NEW g \in GcProc, pc[g] = "cleanup"
               PROVE  ReclaimedCount(g) + Cardinality(Store)
                        = Cardinality(index[g])
    BY DEF ReportIsTrue
  <2>1. Store = live[g] /\ live[g] \subseteq index[g]
    BY DEF IInv, GcInv, GcPhase, Store
  <2>2. index[g] \subseteq Hash
    BY DEF IInv, TypeOK
  <2>3. IsFiniteSet(index[g])
    BY <2>2, StoreAssumption, FS_Subset
  <2>4. /\ IsFiniteSet(live[g])
        /\ Cardinality(live[g]) <= Cardinality(index[g])
    BY <2>1, <2>3, FS_Subset
  <2>5. Cardinality(live[g]) \in Nat /\ Cardinality(index[g]) \in Nat
    BY <2>3, <2>4, FS_CardinalityType
  <2> QED
    BY <2>1, <2>4, <2>5 DEF ReclaimedCount
<1> QED
  BY <1>1, Inductive, PTL
=============================================================================
