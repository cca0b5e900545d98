-------------------------- MODULE ReplicationProofs --------------------------
(***************************************************************************)
(* Proofs about Replication, for every set of blocks and manifests.        *)
(***************************************************************************)
EXTENDS Replication, TLAPS

USE DEF vars, source, files, transfer, FileState

-----------------------------------------------------------------------------
(* The operators of the model.                                             *)

\* What manifests keep are blocks, and more manifests keep more.
LEMMA KeptGrows ==
    ASSUME NEW M, NEW N, M \subseteq N
    PROVE  Kept(M) \subseteq Kept(N)
  BY DEF Kept

\* One more manifest keeps its own blocks more.
LEMMA KeptAdds ==
    ASSUME NEW M, NEW m
    PROVE  Kept(M \union {m}) = Kept(M) \union Blocks[m]
  BY DEF Kept

\* The blocks of manifests are a set of blocks.
LEMMA KeptType ==
    ASSUME NEW M \in SUBSET Manifest
    PROVE  Kept(M) \in SUBSET Hash
<1>1. \A m \in M : Blocks[m] \in SUBSET Hash
  BY BlocksAssumption
<1> QED
  BY <1>1 DEF Kept

\* A set of blocks is a pack unless it is empty.
LEMMA PackIfAny ==
    ASSUME NEW S \in SUBSET Hash
    PROVE  {S} \ {{}} \subseteq Pack
  BY DEF Pack

\* What a file becomes when its copy ends or dies.
LEMMA CopyEnds ==
    ASSUME NEW s \in FileState
    PROVE  /\ Ended(s) \in FileState \ {"copying"}
           /\ Died(s) \in FileState \ {"copying"}
           /\ s = "whole" => Ended(s) = "whole" /\ Died(s) = "whole"
           /\ s = "copying" => Ended(s) = "whole"
  BY DEF Ended, Died

\* A listing under way meets only files that were left or are there, and
\* nothing else of the transfer changes.
LEMMA RelistedMeets ==
    ASSUME Relisted
    PROVE  /\ packsLeft' \subseteq packsLeft \union srcPacks'
           /\ manifestsLeft' \subseteq manifestsLeft \union srcManifests'
           /\ phase # "packs" => packsLeft' = packsLeft
           /\ phase # "manifests" => manifestsLeft' = manifestsLeft
           /\ UNCHANGED <<phase, outcome>>
  BY DEF Relisted, Met

-----------------------------------------------------------------------------
(* Type correctness.                                                       *)

\* Every step of the transfer, and every command beside it, keeps the types.
LEMMA TypeStep == TypeOK /\ [Next]_vars => TypeOK'
<1> SUFFICES ASSUME TypeOK, [Next]_vars PROVE TypeOK'
  OBVIOUS
<1> USE DEF TypeOK
<1>1. CASE UNCHANGED vars
  BY <1>1
<1>2. ASSUME NEW only \in SUBSET srcPacks, Start(only)
      PROVE  TypeOK'
  BY <1>2 DEF Start
<1>3. ASSUME NEW k \in Pack, CopyPack(k)
      PROVE  TypeOK'
  BY <1>3 DEF CopyPack
<1>4. CASE ListManifests
  BY <1>4 DEF ListManifests
<1>5. ASSUME NEW m \in Manifest, CopyManifest(m)
      PROVE  TypeOK'
  BY <1>5 DEF CopyManifest
<1>6. CASE EndCopy
  BY <1>6, CopyEnds DEF EndCopy
<1>7. CASE Finish
  BY <1>7 DEF Finish
<1>8. CASE Crash
  BY <1>8, CopyEnds DEF Crash
<1>9. ASSUME NEW m \in Manifest, SrcPack(m)
      PROVE  TypeOK'
  <2>1. (Blocks[m] \ UNION srcPacks) \in SUBSET Hash
    BY BlocksAssumption
  <2>2. srcPacks' \subseteq Pack
    BY <1>9, <2>1, PackIfAny DEF SrcPack
  <2>3. srcManifests' \subseteq Manifest /\ Relisted
    BY <1>9 DEF SrcPack
  <2> QED
    BY <1>9, <2>2, <2>3, RelistedMeets DEF SrcPack, Disturb
<1>10. ASSUME NEW m \in Manifest, SrcForget(m) \/ DstForget(m)
       PROVE  TypeOK'
  <2>1. CASE SrcForget(m)
    <3>1. UNCHANGED srcPacks /\ srcManifests' \subseteq Manifest /\ Relisted
      BY <2>1 DEF SrcForget
    <3> QED
      BY <2>1, <3>1, RelistedMeets DEF SrcForget, Disturb
  <2>2. CASE DstForget(m)
    BY <2>2 DEF DstForget, Disturb
  <2> QED
    BY <1>10, <2>1, <2>2
<1>11. CASE SrcGc
  <2>1. srcPacks' \subseteq Pack
    BY <1>11, KeptType, PackIfAny DEF SrcGc
  <2>2. UNCHANGED srcManifests /\ Relisted
    BY <1>11 DEF SrcGc
  <2> QED
    BY <1>11, <2>1, <2>2, RelistedMeets DEF SrcGc, Disturb
<1>12. CASE DstInit
  BY <1>12 DEF DstInit, Disturb
<1>13. CASE DstGc
  BY <1>13 DEF DstGc, Disturb
<1>14. ASSUME NEW s \in {"whole", "torn"}, NEW k \in Pack, RivalPack(k, s)
       PROVE  TypeOK'
  BY <1>14 DEF RivalPack, Disturb
<1>15. ASSUME NEW s \in {"whole", "torn"}, NEW m \in Manifest,
              RivalManifest(m, s)
       PROVE  TypeOK'
  BY <1>15 DEF RivalManifest, Disturb
<1> QED
  BY <1>1, <1>2, <1>3, <1>4, <1>5, <1>6, <1>7, <1>8, <1>9, <1>10, <1>11,
     <1>12, <1>13, <1>14, <1>15 DEF Next

\* Type correctness of every transfer and of all that happens around it.
THEOREM TypeCorrect == Spec => []TypeOK
<1>1. Init => TypeOK
  BY DEF Init, TypeOK
<1> QED
  BY <1>1, TypeStep, PTL DEF Spec

-----------------------------------------------------------------------------
(* The inductive invariant: the steps of the transfer.                     *)

\* A transfer begins in a store where nothing is being copied, so each pack
\* that was promised before is there, and the others are now listed.
LEMMA StartStep ==
    ASSUME IInv, NEW only \in SUBSET srcPacks, Start(only)
    PROVE  PhaseInv' /\ PromiseInv' /\ SourceInv' /\ ListingInv'
<1> USE DEF IInv, Start
<1>1. phase = "idle" /\ phase' = "packs"
  OBVIOUS
<1>2. PhaseInv'
  BY <1>1 DEF PhaseInv, NothingCopying
<1>3. PromiseInv'
  BY <1>1 DEF PhaseInv, PromiseInv
<1>4. SourceInv' /\ ListingInv'
  BY <1>1 DEF SourceInv, ListingInv
<1> QED
  BY <1>2, <1>3, <1>4

\* A pack leaves the list and its file is being filled.
LEMMA CopyPackStep ==
    ASSUME IInv, NEW k \in Pack, CopyPack(k)
    PROVE  PhaseInv' /\ PromiseInv' /\ SourceInv' /\ ListingInv'
<1> USE DEF IInv, CopyPack
<1>1. phase = "packs" /\ phase' = "packs"
  OBVIOUS
<1>2. PhaseInv'
  BY <1>1 DEF PhaseInv
<1>3. PromiseInv'
  BY DEF PromiseInv, TypeOK
<1>4. SourceInv' /\ ListingInv'
  BY <1>1 DEF SourceInv, ListingInv
<1> QED
  BY <1>2, <1>3, <1>4

\* The manifests are listed when no pack is left or being copied.
LEMMA ListManifestsStep ==
    ASSUME IInv, ListManifests
    PROVE  PhaseInv' /\ PromiseInv' /\ SourceInv' /\ ListingInv'
<1> USE DEF IInv, ListManifests
<1>1. PhaseInv'
  BY DEF PhaseInv, NothingCopying
<1>2. PromiseInv' /\ SourceInv'
  BY DEF PromiseInv, SourceInv
<1>3. ListingInv'
  BY DEF ListingInv, NothingCopying
<1> QED
  BY <1>1, <1>2, <1>3

\* A manifest leaves the list and its file is being filled.
LEMMA CopyManifestStep ==
    ASSUME IInv, NEW m \in Manifest, CopyManifest(m)
    PROVE  PhaseInv' /\ PromiseInv' /\ SourceInv' /\ ListingInv'
<1> USE DEF IInv, CopyManifest
<1>1. PhaseInv'
  BY DEF PhaseInv
<1>2. PromiseInv' /\ SourceInv'
  BY DEF PromiseInv, SourceInv
<1>3. ListingInv'
  BY DEF ListingInv, Complete, TypeOK
<1> QED
  BY <1>1, <1>2, <1>3

\* The file that is being copied becomes whole.
LEMMA EndCopyStep ==
    ASSUME IInv, EndCopy
    PROVE  PhaseInv' /\ PromiseInv' /\ SourceInv' /\ ListingInv'
<1> USE DEF IInv, EndCopy
<1>1. \A k \in Pack : packFile'[k] = Ended(packFile[k])
  OBVIOUS
<1>2. \A m \in Manifest : manifestFile'[m] = Ended(manifestFile[m])
  OBVIOUS
<1>3. NothingCopying'
  BY <1>1, <1>2, CopyEnds DEF NothingCopying, TypeOK
<1>4. PhaseInv'
  BY <1>3 DEF PhaseInv, NothingCopying
<1>5. PromiseInv'
  BY <1>1, CopyEnds DEF PromiseInv, TypeOK
<1>6. SourceInv'
  BY DEF SourceInv
<1>7. ListingInv'
  BY <1>2, <1>3, CopyEnds DEF ListingInv, NothingCopying, Complete, TypeOK
<1> QED
  BY <1>4, <1>5, <1>6, <1>7

\* The transfer ends with nothing left and nothing on its way.
LEMMA FinishStep ==
    ASSUME IInv, Finish
    PROVE  PhaseInv' /\ PromiseInv' /\ SourceInv' /\ ListingInv'
  BY DEF IInv, Finish, PhaseInv, NothingCopying, PromiseInv, SourceInv,
     ListingInv

\* A transfer that dies breaks its promise of what it did not get to.
LEMMA CrashStep ==
    ASSUME IInv, Crash
    PROVE  PhaseInv' /\ PromiseInv' /\ SourceInv' /\ ListingInv'
<1> USE DEF IInv, Crash
<1>1. \A k \in Pack : packFile'[k] = Died(packFile[k])
  OBVIOUS
<1>2. \A m \in Manifest : manifestFile'[m] = Died(manifestFile[m])
  OBVIOUS
<1>3. PhaseInv'
  BY <1>1, <1>2, CopyEnds DEF PhaseInv, NothingCopying, TypeOK
<1>4. PromiseInv'
  <2> SUFFICES ASSUME NEW k \in promised' PROVE packFile'[k] = "whole"
    BY DEF PromiseInv
  <2>1. k \in promised /\ k \in Pack /\ k \notin packsLeft
        /\ packFile[k] # "copying"
    BY DEF TypeOK
  <2> QED
    BY <1>1, <2>1, CopyEnds DEF PromiseInv, TypeOK
<1>5. SourceInv' /\ ListingInv'
  BY DEF SourceInv, ListingInv
<1> QED
  BY <1>3, <1>4, <1>5

-----------------------------------------------------------------------------
(* The inductive invariant: the other commands.                            *)

\* Nothing is promised after another command, so the transfer owes nothing.
LEMMA DisturbedOwesNothing ==
    ASSUME Disturb
    PROVE  PromiseInv' /\ ListingInv'
<1>1. ~Complete'
  BY DEF Disturb, Complete
<1> QED
  BY <1>1 DEF Disturb, PromiseInv, ListingInv

\* A pack of the source seals what it lacks before the manifest appears, and
\* a gc of the source keeps what the manifests need.
LEMMA SourceStep ==
    ASSUME IInv,
           \/ \E m \in Manifest : SrcPack(m) \/ SrcForget(m)
           \/ SrcGc
    PROVE  PhaseInv' /\ PromiseInv' /\ SourceInv' /\ ListingInv'
<1> USE DEF IInv
<1>1. PromiseInv' /\ ListingInv'
  BY DisturbedOwesNothing DEF SrcPack, SrcForget, SrcGc
<1>2. PhaseInv'
  <2>1. Relisted /\ UNCHANGED files
    BY DEF SrcPack, SrcForget, SrcGc
  <2> QED
    BY <2>1, RelistedMeets DEF PhaseInv, NothingCopying
<1>3. ASSUME NEW m \in Manifest, SrcPack(m)
      PROVE  SourceInv'
  <2> DEFINE fresh == Blocks[m] \ UNION srcPacks
  <2>1. UNION srcPacks' = (UNION srcPacks) \union fresh
    BY <1>3 DEF SrcPack
  <2>2. Kept(srcManifests') = Kept(srcManifests) \union Blocks[m]
    BY <1>3, KeptAdds DEF SrcPack
  <2> QED
    BY <2>1, <2>2 DEF SourceInv
<1>4. ASSUME NEW m \in Manifest, SrcForget(m)
      PROVE  SourceInv'
  <2>1. Kept(srcManifests') \subseteq Kept(srcManifests)
    BY <1>4, KeptGrows DEF SrcForget
  <2> QED
    BY <1>4, <2>1 DEF SourceInv, SrcForget
<1>5. ASSUME SrcGc
      PROVE  SourceInv'
  <2>1. UNION srcPacks' = Kept(srcManifests)
    BY <1>5 DEF SrcGc
  <2> QED
    BY <1>5, <2>1 DEF SourceInv, SrcGc
<1> QED
  BY <1>1, <1>2, <1>3, <1>4, <1>5

\* A command on the destination leaves no file that is being filled.
LEMMA DestinationStep ==
    ASSUME IInv,
           \/ DstInit
           \/ DstGc
           \/ \E m \in Manifest : DstForget(m)
           \/ \E s \in {"whole", "torn"}, k \in Pack : RivalPack(k, s)
           \/ \E s \in {"whole", "torn"}, m \in Manifest : RivalManifest(m, s)
    PROVE  PhaseInv' /\ PromiseInv' /\ SourceInv' /\ ListingInv'
<1> USE DEF IInv
<1>1. PromiseInv' /\ ListingInv'
  BY DisturbedOwesNothing
  DEF DstInit, DstGc, DstForget, RivalPack, RivalManifest
<1>2. UNCHANGED source /\ UNCHANGED transfer
  BY DEF DstInit, DstGc, DstForget, RivalPack, RivalManifest
<1>3. SourceInv'
  BY <1>2 DEF SourceInv
<1>4. /\ \A k \in Pack : packFile'[k] = "copying" => packFile[k] = "copying"
      /\ \A m \in Manifest :
            manifestFile'[m] = "copying" => manifestFile[m] = "copying"
  BY DEF DstInit, DstGc, DstForget, RivalPack, RivalManifest, TypeOK
<1>5. PhaseInv'
  BY <1>2, <1>4 DEF PhaseInv, NothingCopying
<1> QED
  BY <1>1, <1>3, <1>5

\* Every step keeps the inductive invariant.
LEMMA InductiveStep == IInv /\ [Next]_vars => IInv'
<1> SUFFICES ASSUME IInv, [Next]_vars PROVE IInv'
  OBVIOUS
<1>1. TypeOK'
  BY TypeStep DEF IInv
<1>2. CASE UNCHANGED vars
  BY <1>1, <1>2 DEF IInv, PhaseInv, NothingCopying, PromiseInv, SourceInv,
     ListingInv, Complete
<1>3. CASE Next
  BY <1>1, <1>3, StartStep, CopyPackStep, ListManifestsStep, CopyManifestStep,
     EndCopyStep, FinishStep, CrashStep, SourceStep, DestinationStep
  DEF Next, IInv
<1> QED
  BY <1>2, <1>3

\* Two empty stores satisfy it.
LEMMA InductiveInit == Init => IInv
<1> SUFFICES ASSUME Init PROVE IInv
  OBVIOUS
<1>1. TypeOK
  BY DEF Init, TypeOK
<1>2. PhaseInv /\ PromiseInv /\ ListingInv
  BY DEF Init, PhaseInv, NothingCopying, PromiseInv, ListingInv
<1>3. SourceInv
  BY DEF Init, SourceInv, Kept
<1> QED
  BY <1>1, <1>2, <1>3 DEF IInv

\* What the transfer has left, has on its way and has brought accounts for all
\* it promised, whatever happens on either side.
THEOREM Inductive == Spec => []IInv
  BY InductiveInit, InductiveStep, PTL DEF Spec

-----------------------------------------------------------------------------
(* What the transfer promises.                                             *)

\* Among the manifests, with the source covered, all its packs are there.
LEMMA PacksAreThere ==
    ASSUME IInv, phase = "manifests", Complete
    PROVE  /\ \A k \in srcPacks : k \in Pack /\ packFile[k] = "whole"
           /\ Kept(srcManifests) \subseteq Served
<1> USE DEF IInv
<1>1. \A k \in srcPacks : k \in Pack /\ packFile[k] = "whole"
  BY DEF Complete, TypeOK, PhaseInv, PromiseInv
<1>2. UNION srcPacks \subseteq Served
  BY <1>1 DEF Served
<1> QED
  BY <1>1, <1>2 DEF SourceInv

\* Packs go before manifests: a manifest file that becomes whole in a
\* transfer that covers the source becomes so over whole packs.
THEOREM ManifestsAreServed == Spec => ManifestsComeLast
<1> DEFINE A == \A m \in Manifest :
                  (Complete /\ manifestFile[m] = "copying"
                     /\ manifestFile'[m] = "whole")
                       => Blocks[m] \subseteq Served'
<1>1. IInv /\ [Next]_vars => [A]_vars
  <2> SUFFICES ASSUME IInv, Next, Complete, NEW m \in Manifest,
                      manifestFile[m] = "copying", manifestFile'[m] = "whole"
               PROVE  Blocks[m] \subseteq Served'
    OBVIOUS
  <2>1. phase = "manifests"
    BY DEF IInv, TypeOK, PhaseInv, NothingCopying
  <2>2. m \in srcManifests
    BY <2>1 DEF IInv, ListingInv
  <2>3. Blocks[m] \subseteq Served
    BY <2>1, <2>2, PacksAreThere DEF Kept
  <2>4. Served' = Served
    <3>1. CASE EndCopy
      <4>1. \A k \in Pack : packFile'[k] = packFile[k]
        BY <2>1, <3>1 DEF EndCopy, Ended, IInv, PhaseInv
      <4> QED
        BY <4>1 DEF Served
    <3>2. CASE UNCHANGED packFile
      BY <3>2 DEF Served
    <3>3. manifestFile' # manifestFile
      OBVIOUS
    <3>4. ~Crash
      <4>1. Died("copying") # "whole"
        BY DEF Died
      <4> QED
        BY <4>1 DEF Crash
    <3> QED
      BY <3>1, <3>2, <3>3, <3>4
      DEF Next, Start, CopyPack, ListManifests, CopyManifest, Finish,
          SrcPack, SrcForget, SrcGc, DstInit, DstForget, DstGc, RivalPack,
          RivalManifest
  <2> QED
    BY <2>3, <2>4
<1> QED
  BY <1>1, Inductive, PTL DEF Spec, ManifestsComeLast

\* When the last of the transfers that cover the source ends, the destination
\* has each manifest of the source, whole, and all its blocks.
THEOREM TransferRepairs == Spec => TransferMirrors
<1> DEFINE A == (Complete /\ outcome # "copied" /\ outcome' = "copied")
                  => /\ srcManifests \subseteq Whole
                     /\ Kept(srcManifests) \subseteq Served
<1>1. IInv /\ [Next]_vars => [A]_vars
  <2> SUFFICES ASSUME IInv, Next, Complete, outcome # "copied",
                      outcome' = "copied"
               PROVE  /\ srcManifests \subseteq Whole
                      /\ Kept(srcManifests) \subseteq Served
    OBVIOUS
  <2>1. Finish
    BY DEF Next, Start, CopyPack, ListManifests, CopyManifest, EndCopy, Crash,
       SrcPack, SrcForget, SrcGc, Relisted, DstInit, DstForget, DstGc,
       RivalPack, RivalManifest
  <2>2. phase = "manifests" /\ NothingCopying /\ manifestsLeft = {}
    BY <2>1 DEF Finish
  <2>3. srcManifests \subseteq Whole
    BY <2>2 DEF IInv, TypeOK, ListingInv, NothingCopying, Whole
  <2> QED
    BY <2>2, <2>3, PacksAreThere
<1> QED
  BY <1>1, Inductive, PTL DEF Spec, TransferMirrors
=============================================================================
