-------------------------- MODULE VerifyUnpackProofs --------------------------
(***************************************************************************)
(* Proofs about VerifyUnpack, for every set of hashes, partitions and      *)
(* manifests, every shape of their trees and every number of commands.     *)
(***************************************************************************)
EXTENDS VerifyUnpack, TLAPS

USE DEF vars, disk, Verdict, Parses, FileState

-----------------------------------------------------------------------------
(* The operators of the model.                                             *)

\* What manifests need are blocks.
LEMMA NeedsType ==
    /\ \A m \in Manifest : Needs(m) \in SUBSET Hash
    /\ \A p \in Partition : Referenced(p) \in SUBSET Hash
<1>1. \A m \in Manifest : \A e \in Entries[m] : Tree[e] \in SUBSET Hash
  BY ShapeAssumption
<1>2. \A m \in Manifest : Needs(m) \in SUBSET Hash
  BY <1>1 DEF Needs
<1> QED
  BY <1>2 DEF Referenced, Present

\* A report on m is about one of m's entries or m's name.
LEMMA BadType ==
    \A m \in Manifest :
        Bad(m) \in SUBSET ({m} \X (Entry \union {"name"}))
<1> SUFFICES ASSUME NEW m \in Manifest
             PROVE  Bad(m) \in SUBSET ({m} \X (Entry \union {"name"}))
  OBVIOUS
<1>1. Entries[m] \subseteq Entry
  BY ShapeAssumption
<1> QED
  BY <1>1 DEF Bad

-----------------------------------------------------------------------------
(* Type correctness.                                                       *)

\* A process that has ended is one.
LEMMA EndedTypes ==
    /\ \A asked \in SUBSET Partition, wanted \in Manifest \union {None},
          result \in Verdict \union {"none", "error"} :
          VerifyEnded(asked, wanted, result) \in VerifyProcess
    /\ \A vouched \in BOOLEAN,
          result \in {"none", "restored", "unreadable", "unwritable"} :
          UnpackEnded(vouched, result) \in UnpackProcess
  BY DEF VerifyEnded, UnpackEnded, VerifyProcess, UnpackProcess

\* Outdated readers are readers.
LEMMA OutdatedTypes ==
    ASSUME TypeOK, NEW p \in Partition
    PROVE  /\ OutdatedVerify(p) \in VerifyProcess
           /\ OutdatedVerify(p).scope = v.scope
           /\ OutdatedVerify(p).asked = v.asked
           /\ OutdatedUnpack(p) \in UnpackProcess
<1>1. v \in VerifyProcess /\ u \in UnpackProcess
  BY DEF TypeOK
<1> DEFINE vb == v.stale \/ v.at = p
           under == u.pc = "entries" /\ Home[u.m] = p
           ub == u.stale \/ under
           uv == u.vouched /\ ~under
<1>4. OutdatedVerify(p) = [v EXCEPT !.stale = vb]
  BY DEF OutdatedVerify
<1>5. OutdatedUnpack(p) = [u EXCEPT !.stale = ub, !.vouched = uv]
  BY DEF OutdatedUnpack
<1>6. vb \in BOOLEAN /\ ub \in BOOLEAN /\ uv \in BOOLEAN
  OBVIOUS
<1> HIDE DEF vb, under, ub, uv
<1>7. /\ OutdatedVerify(p) \in VerifyProcess
      /\ OutdatedVerify(p).scope = v.scope
      /\ OutdatedVerify(p).asked = v.asked
  BY <1>1, <1>4, <1>6 DEF VerifyProcess
<1>8. OutdatedUnpack(p) \in UnpackProcess
  BY <1>1, <1>5, <1>6 DEF UnpackProcess
<1> QED
  BY <1>7, <1>8

\* The steps of verify but those over entries.
LEMMA VerifyTypes ==
    ASSUME TypeOK, LoopInv,
           \/ \E a \in Args : VerifyStart(a.scope, a.hash)
           \/ \E p \in Partition : VerifyOpen(p)
           \/ \E m \in Manifest : VerifyManifest(m)
           \/ VerifyPacks \/ VerifyManifestDone
           \/ VerifyNextPartition \/ VerifyFinish \/ VerifyError
    PROVE  TypeOK'
<1> USE DEF TypeOK
<1>1. ASSUME NEW a \in Args, VerifyStart(a.scope, a.hash)
      PROVE  TypeOK'
  <2>1. a.scope \in SUBSET Partition /\ a.hash \in Manifest \union {None}
    BY ShapeAssumption
  <2>2. v' \in VerifyProcess /\ v'.scope \subseteq v'.asked
    BY <1>1, <2>1 DEF VerifyStart, VerifyProcess
  <2>3. u' \in UnpackProcess
    BY <1>1 DEF VerifyStart, UnpackProcess
  <2> QED
    BY <1>1, <2>2, <2>3 DEF VerifyStart, NoReport, Report
<1>2. ASSUME NEW p \in Partition, VerifyOpen(p)
      PROVE  TypeOK'
  <2>1. v' \in VerifyProcess /\ v'.scope = v.scope /\ v'.asked = v.asked
    BY <1>2 DEF VerifyOpen, VerifyProcess
  <2> QED
    BY <1>2, <2>1 DEF VerifyOpen
<1>3. ASSUME NEW m \in Manifest, VerifyManifest(m)
      PROVE  TypeOK'
  <2>1. Entries[m] \subseteq Entry
    BY ShapeAssumption
  <2>2. v' \in VerifyProcess /\ v'.scope = v.scope /\ v'.asked = v.asked
    BY <1>3, <2>1 DEF VerifyManifest, VerifyProcess
  <2> DEFINE fs == IF manifest[m] = "whole" THEN report.failures
                   ELSE report.failures \union {<<m, "name">>}
  <2>3. fs \in SUBSET (Manifest \X (Entry \union {"name"}))
    BY DEF Report
  <2>4. report' = [report EXCEPT !.checked = @ \union {m}, !.failures = fs]
    BY <1>3 DEF VerifyManifest
  <2>5. report' \in Report /\ report'.passed \subseteq report'.checked
    <3> HIDE DEF fs
    <3> QED
      BY <2>3, <2>4 DEF Report
  <2> QED
    BY <1>3, <2>2, <2>5 DEF VerifyManifest
<1>4. CASE VerifyPacks
  <2>1. v' \in VerifyProcess /\ v'.scope = v.scope /\ v'.asked = v.asked
    BY <1>4 DEF VerifyPacks, VerifyProcess, Present
  <2> QED
    BY <1>4, <2>1 DEF VerifyPacks
<1>5. CASE VerifyManifestDone
  <2>1. v' \in VerifyProcess /\ v'.scope = v.scope /\ v'.asked = v.asked
    BY <1>5 DEF VerifyManifestDone, VerifyProcess
  <2>2. v.m \in report.checked
    BY <1>5 DEF VerifyManifestDone, LoopInv
  <2> QED
    BY <1>5, <2>1, <2>2 DEF VerifyManifestDone, Report
<1>6. CASE VerifyNextPartition
  <2>1. v' \in VerifyProcess /\ v'.scope \subseteq v'.asked
    BY <1>6 DEF VerifyNextPartition, VerifyProcess
  <2> QED
    BY <1>6, <2>1 DEF VerifyNextPartition
<1>7. CASE VerifyFinish
  <2>1. v.asked \in SUBSET Partition /\ v.wanted \in Manifest \union {None}
    BY DEF VerifyProcess
  <2>2. v' \in VerifyProcess
    BY <1>7, <2>1, EndedTypes DEF VerifyFinish
  <2>3. v'.scope = {}
    BY <1>7 DEF VerifyFinish, VerifyEnded
  <2> QED
    BY <1>7, <2>2, <2>3 DEF VerifyFinish
<1>8. CASE VerifyError
  <2>1. v' \in VerifyProcess
    BY <1>8, EndedTypes DEF VerifyError
  <2>2. v'.scope = {}
    BY <1>8 DEF VerifyError, VerifyEnded
  <2> QED
    BY <1>8, <2>1, <2>2 DEF VerifyError, NoReport, Report
<1> QED
  BY <1>1, <1>2, <1>3, <1>4, <1>5, <1>6, <1>7, <1>8

\* What an entry that is done with changes.
LEMMA EntryEffect ==
    ASSUME TypeOK, NEW e \in Entry, NEW good \in BOOLEAN,
           NEW learnt \in SUBSET Hash, EntryEnds(e, good, learnt),
           v.m \in Manifest
    PROVE  /\ v' \in VerifyProcess
           /\ v'.pc = v.pc /\ v'.at = v.at /\ v'.m = v.m
           /\ v'.scope = v.scope /\ v'.asked = v.asked /\ v'.left = v.left
           /\ v'.wanted = v.wanted /\ v'.result = v.result
           /\ v'.loaded = v.loaded /\ v'.stale = v.stale
           /\ v'.entries = v.entries \ {e}
           /\ v'.index = v.index \union learnt
           /\ v'.ok <=> v.ok /\ good
           /\ report' \in Report
           /\ report'.checked = report.checked
           /\ report'.passed = report.passed
           /\ good => report'.failures = report.failures
           /\ ~good => report'.failures = report.failures \union {<<v.m, e>>}
<1> USE DEF TypeOK
<1> DEFINE fs == report.failures \union {<<v.m, e>>}
           ok == v.ok /\ good
<1>1. fs \in SUBSET (Manifest \X (Entry \union {"name"}))
  BY DEF Report
<1>2. ok \in BOOLEAN
  OBVIOUS
<1>3. report' = IF good THEN report ELSE [report EXCEPT !.failures = fs]
  BY DEF EntryEnds
<1>4. v' = [v EXCEPT !.entries = @ \ {e}, !.index = @ \union learnt,
                     !.ok = ok]
  BY DEF EntryEnds
<1>5. v'.ok = ok
  <2> HIDE DEF ok
  <2> QED
    BY <1>4 DEF VerifyProcess
<1>6. v'.ok <=> v.ok /\ good
  BY <1>5, Zenon
<1>7. /\ report' \in Report
      /\ report'.checked = report.checked
      /\ report'.passed = report.passed
      /\ good => report'.failures = report.failures
      /\ ~good => report'.failures = fs
  <2> HIDE DEF fs
  <2> QED
    BY <1>1, <1>3 DEF Report
<1> HIDE DEF ok
<1> QED
  BY <1>2, <1>4, <1>6, <1>7 DEF VerifyProcess

\* Verify is at entry e, and comes to its end in one way or another.
EntryStep(e) ==
    \/ VerifyUnreadable(e) \/ VerifyWrongLength(e) \/ VerifyRechunk(e)
    \/ \E S \in SUBSET Hash : VerifyRechunkError(e, S)

\* The bytes of e are chunked again, and S is put.
RechunkStep(e, S) ==
    /\ AtBytes(e) /\ S \subseteq Fresh(e)
    /\ Puts(S)
    /\ EntryEnds(e, ~Drifted(e), S)
    /\ UNCHANGED <<provisioned, damaged, manifest, u, since>>

\* A put of something new can fail only if the trees differ: all that the
\* recorded one has was there to be read.
LEMMA EntryIs ==
    ASSUME NEW e \in Entry, EntryStep(e)
    PROVE  \/ VerifyUnreadable(e) \/ VerifyWrongLength(e)
           \/ \E S \in SUBSET Hash : RechunkStep(e, S)
<1>1. Rebuilt[e] \in SUBSET Hash /\ Fresh(e) \in SUBSET Hash
  BY ShapeAssumption DEF Fresh
<1>2. VerifyRechunk(e) => RechunkStep(e, Fresh(e))
  BY DEF VerifyRechunk, RechunkStep
<1>3. ASSUME NEW S \in SUBSET Hash, VerifyRechunkError(e, S)
      PROVE  RechunkStep(e, S)
  <2>1. Drifted(e)
    BY <1>3 DEF VerifyRechunkError, AtBytes, Fresh, MayRead, Drifted
  <2>2. (~Drifted(e)) = FALSE
    BY <2>1
  <2> QED
    BY <1>3, <2>2 DEF VerifyRechunkError, RechunkStep
<1> QED
  BY <1>1, <1>2, <1>3 DEF EntryStep

\* With a tree that is the recorded one, nothing is put.
LEMMA NothingFresh ==
    ASSUME NEW e \in Entry, AtBytes(e), ~Drifted(e)
    PROVE  Fresh(e) = {}
  BY DEF AtBytes, Fresh, MayRead, Drifted

\* A step at an entry ends it, and does not touch the disk but to put S.
LEMMA EntryCases ==
    ASSUME TypeOK, LoopInv, NEW e \in Entry, EntryStep(e)
    PROVE  /\ v.pc = "entries" /\ v.m \in Manifest /\ v.at \in Partition
           /\ e \in v.entries
           /\ \E good \in BOOLEAN, learnt \in SUBSET Hash :
                 EntryEnds(e, good, learnt)
<1> USE DEF VerifyUnreadable, VerifyWrongLength, RechunkStep, AtBytes, AtEntry
<1>1. v.pc = "entries" /\ e \in v.entries
  BY EntryIs
<1>2. v.m \in Manifest /\ v.at \in Partition
  BY <1>1 DEF LoopInv, Report, AtPartition, TypeOK
<1>3. (~Drifted(e)) \in BOOLEAN
  OBVIOUS
<1>4. \E good \in BOOLEAN, learnt \in SUBSET Hash :
         EntryEnds(e, good, learnt)
  <2>1. CASE VerifyUnreadable(e) \/ VerifyWrongLength(e)
    <3>1. EntryEnds(e, FALSE, {})
      BY <2>1
    <3> QED
      BY <3>1
  <2>2. ASSUME NEW S \in SUBSET Hash, RechunkStep(e, S)
        PROVE  \E good \in BOOLEAN, learnt \in SUBSET Hash :
                  EntryEnds(e, good, learnt)
    BY <1>3, <2>2
  <2> QED
    BY <2>1, <2>2, EntryIs
<1> QED
  BY <1>1, <1>2, <1>4

\* What a step at an entry does to the disk.
LEMMA EntryDisk ==
    ASSUME TypeOK, LoopInv, NEW e \in Entry, EntryStep(e)
    PROVE  /\ UNCHANGED <<provisioned, manifest, damaged, u, since>>
           /\ blocks' \in [Partition -> SUBSET Hash]
           /\ \A q \in Partition : blocks[q] \subseteq blocks'[q]
           /\ wrote' \subseteq Hash
<1> USE DEF TypeOK
<1>1. CASE VerifyUnreadable(e) \/ VerifyWrongLength(e)
  BY <1>1 DEF VerifyUnreadable, VerifyWrongLength
<1>2. ASSUME NEW S \in SUBSET Hash, RechunkStep(e, S)
      PROVE  /\ UNCHANGED <<provisioned, manifest, damaged, u, since>>
             /\ blocks' \in [Partition -> SUBSET Hash]
             /\ \A q \in Partition : blocks[q] \subseteq blocks'[q]
             /\ wrote' \subseteq Hash
  BY <1>2, EntryCases DEF RechunkStep, Puts
<1> QED
  BY <1>1, <1>2, EntryIs

\* The steps of verify at an entry.
LEMMA EntryTypes ==
    ASSUME TypeOK, LoopInv, NEW e \in Entry, EntryStep(e)
    PROVE  TypeOK'
<1> USE DEF TypeOK
<1>1. PICK good \in BOOLEAN, learnt \in SUBSET Hash :
        EntryEnds(e, good, learnt)
  BY EntryCases
<1>2. /\ v' \in VerifyProcess
      /\ v'.scope = v.scope /\ v'.asked = v.asked
      /\ report' \in Report /\ report'.passed \subseteq report'.checked
  BY <1>1, EntryCases, EntryEffect
<1> QED
  BY <1>2, EntryDisk

\* The steps of unpack.
LEMMA UnpackTypes ==
    ASSUME TypeOK, LoopInv, UnpackNext
    PROVE  TypeOK'
<1> USE DEF TypeOK
<1>1. SUFFICES u' \in UnpackProcess
  BY DEF UnpackNext, UnpackLoad, UnpackPath, UnpackNoManifest, UnpackOpen,
         UnpackEntry, UnpackCannotWrite, UnpackDone, UnpackError
<1>2. \A m \in Manifest : Vouched(m) \in BOOLEAN
  BY DEF Vouched
<1>3. ASSUME NEW m \in Manifest, NEW p \in Partition, UnpackLoad(m, p)
      PROVE  u' \in UnpackProcess
  BY <1>2, <1>3 DEF UnpackLoad, UnpackProcess
<1>4. ASSUME NEW m \in Manifest, UnpackPath(m)
      PROVE  u' \in UnpackProcess
  BY <1>2, <1>4 DEF UnpackPath, UnpackProcess
<1>5. ASSUME NEW m \in Manifest, NEW p \in Partition, UnpackNoManifest(m, p)
      PROVE  u' \in UnpackProcess
  <2>1. (Home[m] = p /\ Vouched(m)) \in BOOLEAN
    BY <1>2
  <2> QED
    BY <1>5, <2>1, EndedTypes DEF UnpackNoManifest
<1>6. CASE UnpackOpen
  <2>1. u.m \in Manifest
    BY <1>6 DEF UnpackOpen, LoopInv
  <2>2. blocks[Home[u.m]] \in SUBSET Hash /\ Entries[u.m] \in SUBSET Entry
    BY <2>1, ShapeAssumption
  <2> QED
    BY <1>6, <2>2 DEF UnpackOpen, UnpackProcess
<1>7. ASSUME NEW e \in Entry, UnpackEntry(e)
      PROVE  u' \in UnpackProcess
  BY <1>7 DEF UnpackEntry, UnpackProcess
<1>8. CASE UnpackDone \/ UnpackError \/ UnpackCannotWrite
  <2>1. u.vouched \in BOOLEAN
    BY DEF UnpackProcess
  <2> QED
    BY <1>8, <2>1, EndedTypes DEF UnpackDone, UnpackError, UnpackCannotWrite
<1> QED
  BY <1>3, <1>4, <1>5, <1>6, <1>7, <1>8 DEF UnpackNext

-----------------------------------------------------------------------------
(* What the other commands do to the two readers.                          *)

\* Verify is where it was, perhaps with an old index.
VerifyGoesOn ==
    /\ v' \in VerifyProcess
    /\ v' = [v EXCEPT !.stale = v'.stale]
    /\ report' = report
    /\ wrote' = wrote

\* The verify that is over is forgotten.
VerifyForgotten ==
    /\ v' = VerifyEnded({}, None, "none")
    /\ report' = NoReport
    /\ wrote' = {}

\* An event that need not keep what verify vouches for.
LEMMA DisturbedStep ==
    ASSUME TypeOK, NEW verify \in VerifyProcess, Disturbed(verify),
           verify = [v EXCEPT !.stale = verify.stale]
    PROVE  (VerifyGoesOn \/ VerifyForgotten) /\ since' = "disturbed"
  BY DEF Disturbed, VerifyGoesOn, VerifyForgotten

\* The unpack, as w, is vouched for only if it was, and then it is the same.
StillVouched(w) == w.vouched => w = u

\* A gc touches nothing of the readers but which index they have, and with it
\* what verify vouched for.
LEMMA OutdatedKept ==
    ASSUME TypeOK, NEW p \in Partition
    PROVE  /\ OutdatedVerify(p) = [v EXCEPT !.stale = OutdatedVerify(p).stale]
           /\ OutdatedUnpack(p).pc = u.pc /\ OutdatedUnpack(p).m = u.m
           /\ StillVouched(OutdatedUnpack(p))
           /\ OutdatedVerify(p).stale <=> v.stale \/ v.at = p
<1>1. /\ OutdatedVerify(p) = [v EXCEPT !.stale = OutdatedVerify(p).stale]
      /\ OutdatedVerify(p).stale <=> v.stale \/ v.at = p
  BY DEF OutdatedVerify, TypeOK, VerifyProcess
<1> DEFINE under == u.pc = "entries" /\ Home[u.m] = p
           ub == u.stale \/ under
           uv == u.vouched /\ ~under
<1>2. OutdatedUnpack(p) = [u EXCEPT !.stale = ub, !.vouched = uv]
  BY DEF OutdatedUnpack
<1>3. under => uv = FALSE
  OBVIOUS
<1>4. ~under => ub = u.stale /\ uv = u.vouched
  <2>1. u.stale \in BOOLEAN /\ u.vouched \in BOOLEAN
    BY DEF TypeOK, UnpackProcess
  <2> QED
    BY <2>1
<1>5. u = [u EXCEPT !.stale = u.stale, !.vouched = u.vouched]
  BY DEF TypeOK, UnpackProcess
<1> HIDE DEF under, ub, uv
<1>6. /\ OutdatedUnpack(p).pc = u.pc /\ OutdatedUnpack(p).m = u.m
      /\ OutdatedUnpack(p).vouched = uv
  BY <1>2 DEF TypeOK, UnpackProcess
<1>7. StillVouched(OutdatedUnpack(p))
  BY <1>2, <1>3, <1>4, <1>5, <1>6 DEF StillVouched
<1> QED
  BY <1>1, <1>6, <1>7

\* A command that is neither a verify nor an unpack lets them go on, or the
\* verify that is over is forgotten.
LEMMA StoreStep ==
    ASSUME TypeOK, StoreNext
    PROVE  /\ VerifyGoesOn \/ VerifyForgotten
           /\ since' # "disturbed" => VerifyGoesOn /\ since # "disturbed"
           /\ u' \in UnpackProcess /\ u'.pc = u.pc /\ u'.m = u.m
           /\ StillVouched(u')
           /\ provisioned' = provisioned
           /\ since' # "alone"
           /\ since' \in {"shared", "disturbed"}
<1>1. v \in VerifyProcess /\ v = [v EXCEPT !.stale = v.stale]
  BY DEF TypeOK, VerifyProcess
<1>2. u \in UnpackProcess /\ StillVouched(u)
  BY DEF TypeOK, StillVouched
<1>3. Shared => since' \in {"shared", "disturbed"}
  BY DEF Shared, TypeOK
<1>4. ASSUME NEW m \in Manifest, NEW S \in SUBSET Hash, Arrive(m, S)
      PROVE  /\ VerifyGoesOn \/ VerifyForgotten
             /\ since' \in {"shared", "disturbed"}
  BY <1>1, <1>3, <1>4, DisturbedStep DEF Arrive, Shared, VerifyGoesOn
<1>5. ASSUME NEW p \in Partition, Gc(p)
      PROVE  /\ VerifyGoesOn
             /\ u' \in UnpackProcess /\ u'.pc = u.pc /\ u'.m = u.m
           /\ StillVouched(u')
             /\ since' \in {"shared", "disturbed"}
  BY <1>3, <1>5, OutdatedTypes, OutdatedKept DEF Gc, Shared, VerifyGoesOn
<1>6. ASSUME NEW p \in Partition, GcDies(p)
      PROVE  /\ VerifyGoesOn \/ VerifyForgotten
             /\ u' \in UnpackProcess /\ u'.pc = u.pc /\ u'.m = u.m
           /\ StillVouched(u')
             /\ since' = "disturbed"
  BY <1>6, OutdatedTypes, OutdatedKept, DisturbedStep DEF GcDies
<1>7. ASSUME NEW p \in Partition, NEW h \in Hash, Damage(p, h)
      PROVE  /\ VerifyGoesOn \/ VerifyForgotten
             /\ since' = "disturbed"
  BY <1>1, <1>7, DisturbedStep DEF Damage
<1>8. ASSUME NEW m \in Manifest, NEW how \in FileState \ {"whole"},
             Alter(m, how)
      PROVE  /\ VerifyGoesOn \/ VerifyForgotten
             /\ since' = "disturbed"
  BY <1>1, <1>8, DisturbedStep DEF Alter
<1>9. provisioned' = provisioned
  BY DEF StoreNext, Arrive, Gc, GcDies, Damage, Alter
<1>10. \/ u' = u
       \/ \E p \in Partition : Gc(p) \/ GcDies(p)
  BY DEF StoreNext, Arrive, Damage, Alter
<1>11. since' # "disturbed" => VerifyGoesOn /\ since # "disturbed"
  <2> SUFFICES ASSUME since' # "disturbed"
               PROVE  VerifyGoesOn /\ since # "disturbed"
    OBVIOUS
  <2>1. ASSUME NEW m \in Manifest, NEW S \in SUBSET Hash, Arrive(m, S)
        PROVE  VerifyGoesOn /\ since # "disturbed"
    BY <1>1, <2>1 DEF Arrive, Shared, Disturbed, VerifyGoesOn
  <2>2. ASSUME NEW p \in Partition, Gc(p)
        PROVE  VerifyGoesOn /\ since # "disturbed"
    BY <1>5, <2>2 DEF Gc, Shared
  <2> QED
    BY <2>1, <2>2 DEF StoreNext, GcDies, Damage, Alter, Disturbed
<1> QED
  BY <1>2, <1>4, <1>5, <1>6, <1>7, <1>8, <1>9, <1>10, <1>11 DEF StoreNext

\* Unpack changes itself only.
LEMMA UnpackStep ==
    ASSUME UnpackNext
    PROVE  UNCHANGED <<disk, v, report, since, wrote>>
  BY DEF UnpackNext, UnpackLoad, UnpackPath, UnpackNoManifest, UnpackOpen,
         UnpackEntry, UnpackCannotWrite, UnpackDone, UnpackError

\* The steps of the other commands.
LEMMA StoreTypes ==
    ASSUME TypeOK, StoreNext
    PROVE  TypeOK'
<1>1. /\ v' \in VerifyProcess /\ v'.scope \subseteq v'.asked
      /\ report' \in Report /\ report'.passed \subseteq report'.checked
      /\ wrote' \subseteq Hash
  <2>1. CASE VerifyGoesOn
    BY <2>1 DEF VerifyGoesOn, TypeOK, VerifyProcess
  <2>2. CASE VerifyForgotten
    <3>1. v' \in VerifyProcess
      BY <2>2, EndedTypes DEF VerifyForgotten
    <3>2. v'.scope = {}
      BY <2>2 DEF VerifyForgotten, VerifyEnded
    <3> QED
      BY <2>2, <3>1, <3>2 DEF VerifyForgotten, NoReport, Report
  <2> QED
    BY <2>1, <2>2, StoreStep
<1> DEFINE DiskType ==
             /\ blocks \in [Partition -> SUBSET Hash]
             /\ damaged \in [Partition -> SUBSET Hash]
             /\ \A p \in Partition : damaged[p] \subseteq blocks[p]
             /\ manifest \in [Manifest -> FileState]
<1>2. DiskType'
  <2> USE DEF TypeOK
  <2>1. ASSUME NEW m \in Manifest, NEW S \in SUBSET Hash, Arrive(m, S)
        PROVE  DiskType'
    BY <2>1, ShapeAssumption DEF Arrive
  <2>2. ASSUME NEW p \in Partition, Gc(p)
        PROVE  DiskType'
    BY <2>2, NeedsType DEF Gc
  <2>3. ASSUME NEW p \in Partition, GcDies(p)
        PROVE  DiskType'
    BY <2>3 DEF GcDies
  <2>4. ASSUME NEW p \in Partition, NEW h \in Hash, Damage(p, h)
        PROVE  DiskType'
    BY <2>4 DEF Damage
  <2>5. ASSUME NEW m \in Manifest, NEW how \in FileState \ {"whole"},
               Alter(m, how)
        PROVE  DiskType'
    BY <2>5 DEF Alter
  <2> QED
    BY <2>1, <2>2, <2>3, <2>4, <2>5 DEF StoreNext
<1> QED
  BY <1>1, <1>2, StoreStep DEF TypeOK

-----------------------------------------------------------------------------
(* No partition and no manifest is gone through twice.                     *)

\* Steps of the other commands, and of unpack.
LEMMA LoopOthers ==
    ASSUME TypeOK, LoopInv, StoreNext \/ UnpackNext
    PROVE  LoopInv'
<1> USE DEF LoopInv
<1>1. CASE StoreNext /\ VerifyGoesOn
  <2>1. /\ v'.pc = v.pc /\ v'.at = v.at /\ v'.scope = v.scope
        /\ v'.left = v.left /\ v'.wanted = v.wanted /\ v'.m = v.m
        /\ v'.entries = v.entries /\ v'.loaded = v.loaded
    BY <1>1 DEF VerifyGoesOn, TypeOK, VerifyProcess
  <2>2. u'.pc = u.pc /\ u'.m = u.m
    BY <1>1, StoreStep DEF TypeOK, UnpackProcess
  <2>3. report' = report /\ provisioned' = provisioned
    BY <1>1, StoreStep DEF VerifyGoesOn
  <2> QED
    BY <2>1, <2>2, <2>3 DEF AtPartition, AmongManifests
<1>2. CASE StoreNext /\ VerifyForgotten
  <2>1. v'.pc = "idle" /\ v'.scope = {} /\ report'.checked = {}
    BY <1>2 DEF VerifyForgotten, VerifyEnded, NoReport
  <2>2. u'.pc = u.pc /\ u'.m = u.m
    BY <1>2, StoreStep DEF TypeOK, UnpackProcess
  <2> QED
    BY <2>1, <2>2 DEF AtPartition, AmongManifests
<1>3. CASE UnpackNext
  <2>1. UNCHANGED <<disk, v, report>>
    BY <1>3, UnpackStep
  <2>2. u'.pc # "idle" => u'.m \in Manifest
    <3> USE DEF TypeOK, UnpackProcess
    <3>1. ASSUME NEW m \in Manifest, NEW p \in Partition, UnpackLoad(m, p)
          PROVE  u'.m \in Manifest
      BY <3>1 DEF UnpackLoad
    <3>2. ASSUME NEW m \in Manifest, UnpackPath(m)
          PROVE  u'.m \in Manifest
      BY <3>2 DEF UnpackPath
    <3>3. CASE UnpackOpen \/ \E e \in Entry : UnpackEntry(e)
      BY <3>3 DEF UnpackOpen, UnpackEntry
    <3>4. CASE \/ UnpackDone \/ UnpackError \/ UnpackCannotWrite
               \/ \E m \in Manifest, p \in Partition : UnpackNoManifest(m, p)
      BY <3>4 DEF UnpackDone, UnpackError, UnpackCannotWrite,
                  UnpackNoManifest, UnpackEnded
    <3> QED
      BY <1>3, <3>1, <3>2, <3>3, <3>4 DEF UnpackNext
  <2> QED
    BY <2>1, <2>2 DEF AtPartition, AmongManifests
<1> QED
  BY <1>1, <1>2, <1>3, StoreStep

\* Steps of verify.
LEMMA LoopVerify ==
    ASSUME TypeOK, LoopInv, VerifyNext
    PROVE  LoopInv'
<1> USE DEF LoopInv, TypeOK, AtPartition, AmongManifests, VerifyProcess
<1>u. u'.pc = u.pc /\ u'.m = u.m /\ provisioned' = provisioned
  BY DEF VerifyNext, VerifyStart, VerifyOpen, VerifyPacks, VerifyManifest,
         VerifyUnreadable, VerifyWrongLength, VerifyRechunk,
         VerifyRechunkError, VerifyManifestDone, VerifyNextPartition,
         VerifyFinish, VerifyError,
         UnpackProcess
<1>1. ASSUME NEW a \in Args, VerifyStart(a.scope, a.hash)
      PROVE  LoopInv'
  BY <1>u, <1>1 DEF VerifyStart, NoReport
<1>2. ASSUME NEW p \in Partition, VerifyOpen(p)
      PROVE  LoopInv'
  BY <1>u, <1>2 DEF VerifyOpen
<1>3. ASSUME NEW m \in Manifest, VerifyManifest(m)
      PROVE  LoopInv'
  BY <1>u, <1>3, ShapeAssumption DEF VerifyManifest, Report
<1>4. CASE VerifyPacks
  BY <1>u, <1>4, ShapeAssumption DEF VerifyPacks, Present
<1>5. CASE VerifyManifestDone
  BY <1>u, <1>5 DEF VerifyManifestDone, Report
<1>6. CASE VerifyNextPartition
  BY <1>u, <1>6 DEF VerifyNextPartition
<1>7. CASE VerifyFinish \/ VerifyError
  BY <1>u, <1>7 DEF VerifyFinish, VerifyError, VerifyEnded, NoReport
<1>8. ASSUME NEW e \in Entry, EntryStep(e)
      PROVE  LoopInv'
  <2>1. PICK good \in BOOLEAN, learnt \in SUBSET Hash :
          EntryEnds(e, good, learnt)
    BY <1>8, EntryCases
  <2>2. /\ v'.pc = "entries" /\ v.pc = "entries"
        /\ v'.at = v.at /\ v'.scope = v.scope
        /\ v'.left = v.left /\ v'.wanted = v.wanted /\ v'.m = v.m
        /\ v'.entries \subseteq v.entries /\ v'.loaded = v.loaded
        /\ report'.checked = report.checked /\ report'.passed = report.passed
    BY <1>8, <2>1, EntryCases, EntryEffect
  <2> QED
    BY <1>u, <2>2
<1> QED
  BY <1>1, <1>2, <1>3, <1>4, <1>5, <1>6, <1>7, <1>8
     DEF VerifyNext, EntryStep

-----------------------------------------------------------------------------
(* The report agrees with itself.                                          *)

\* One more failure is one of its manifest.
LEMMA FailedMore ==
    ASSUME NEW n \in Manifest, NEW x \in Entry \union {"name"},
           report'.failures = report.failures \union {<<n, x>>}
    PROVE  \A m \in Manifest : Failed(m)' <=> Failed(m) \/ m = n
  BY DEF Failed

\* The same failures are failures of the same manifests.
LEMMA FailedSame ==
    ASSUME report'.failures = report.failures
    PROVE  \A m \in Manifest : Failed(m)' <=> Failed(m)
  BY DEF Failed

\* Steps of the other commands, and of unpack.
LEMMA TallyOthers ==
    ASSUME TypeOK, LoopInv, TallyInv, StoreNext \/ UnpackNext
    PROVE  TallyInv'
<1>1. CASE StoreNext /\ VerifyGoesOn
  <2>1. /\ v'.pc = v.pc /\ v'.m = v.m /\ v'.ok = v.ok /\ v'.result = v.result
        /\ report' = report /\ wrote' = wrote
    BY <1>1 DEF VerifyGoesOn, TypeOK, VerifyProcess
  <2> QED
    BY <2>1 DEF TallyInv, Finished, Failed
<1>2. CASE StoreNext /\ VerifyForgotten
  <2>1. /\ v'.pc = "idle" /\ v'.result = "none"
        /\ report'.checked = {} /\ report'.failures = {} /\ wrote' = {}
    BY <1>2 DEF VerifyForgotten, VerifyEnded, NoReport
  <2> QED
    BY <2>1 DEF TallyInv, Finished, Failed
<1>3. CASE UnpackNext
  BY <1>3, UnpackStep DEF TallyInv, Finished, Failed
<1> QED
  BY <1>1, <1>2, <1>3, StoreStep

\* Steps of verify.
LEMMA TallyVerify ==
    ASSUME TypeOK, LoopInv, TallyInv, VerifyNext
    PROVE  TallyInv'
<1> USE DEF TypeOK, TallyInv, Finished
<1>1. ASSUME NEW a \in Args, VerifyStart(a.scope, a.hash)
      PROVE  TallyInv'
  <2>1. /\ v'.pc = "open" /\ v'.result = "none"
        /\ report'.checked = {} /\ report'.failures = {} /\ wrote' = {}
    BY <1>1 DEF VerifyStart, NoReport, VerifyProcess
  <2> QED
    BY <2>1 DEF Failed
<1>2. ASSUME NEW p \in Partition, VerifyOpen(p)
      PROVE  TallyInv'
  <2>1. v'.pc = "packs" /\ v.pc = "open" /\ UNCHANGED <<report, wrote>>
    BY <1>2 DEF VerifyOpen, VerifyProcess
  <2> QED
    BY <2>1 DEF Failed
<1>3. ASSUME NEW m \in Manifest, VerifyManifest(m)
      PROVE  TallyInv'
  <2>1. /\ v'.pc = "entries" /\ v.pc = "manifests" /\ v'.m = m
        /\ v'.ok = (manifest[m] = "whole") /\ wrote' = wrote
    BY <1>3 DEF VerifyManifest, VerifyProcess
  <2>2. m \notin report.checked /\ m \notin report.passed
    BY <1>3 DEF VerifyManifest, LoopInv, AmongManifests
  <2>3. /\ report'.checked = report.checked \union {m}
        /\ report'.passed = report.passed
        /\ report'.failures = IF manifest[m] = "whole" THEN report.failures
                              ELSE report.failures \union {<<m, "name">>}
    BY <1>3 DEF VerifyManifest, Report
  <2>4. \A n \in Manifest :
            Failed(n)' <=> Failed(n) \/ (n = m /\ manifest[m] # "whole")
    BY <2>3, FailedMore, FailedSame
  <2>5. report.checked \subseteq Manifest
    BY DEF Report
  <2> QED
    BY <2>1, <2>2, <2>3, <2>4, <2>5
<1>4. CASE VerifyPacks
  <2>1. v'.pc = "manifests" /\ v.pc = "packs" /\ UNCHANGED <<report, wrote>>
    BY <1>4 DEF VerifyPacks, VerifyProcess
  <2> QED
    BY <2>1 DEF Failed
<1>5. CASE VerifyManifestDone
  <2>1. v'.pc = "manifests" /\ v.pc = "entries" /\ wrote' = wrote
    BY <1>5 DEF VerifyManifestDone, VerifyProcess
  <2>2. /\ report'.checked = report.checked
        /\ report'.failures = report.failures
        /\ report'.passed = IF v.ok THEN report.passed \union {v.m}
                            ELSE report.passed
    BY <1>5 DEF VerifyManifestDone, Report
  <2>3. v.m \notin report.passed /\ v.m \in Manifest
    BY <2>1 DEF LoopInv, Report
  <2> QED
    BY <2>1, <2>2, <2>3, FailedSame DEF Report
<1>6. CASE VerifyNextPartition
  <2>1. v'.pc = "open" /\ v.pc = "manifests" /\ UNCHANGED <<report, wrote>>
    BY <1>6 DEF VerifyNextPartition, VerifyProcess
  <2> QED
    BY <2>1 DEF Failed
<1>7. CASE VerifyFinish
  <2>1. /\ v.pc = "open" /\ v'.pc = "idle" /\ UNCHANGED <<report, wrote>>
        /\ v'.result = IF report.failures = {} THEN "PASS" ELSE "FAIL"
    BY <1>7 DEF VerifyFinish, VerifyEnded
  <2> QED
    BY <2>1 DEF Failed
<1>8. CASE VerifyError
  <2>1. /\ v'.pc = "idle" /\ v'.result = "error"
        /\ report'.checked = {} /\ report'.failures = {}
    BY <1>8 DEF VerifyError, VerifyEnded, NoReport
  <2> QED
    BY <2>1 DEF Failed
<1>9. ASSUME NEW e \in Entry, EntryStep(e)
      PROVE  TallyInv'
  <2>1. /\ v.pc = "entries" /\ v.m \in Manifest
    BY <1>9, EntryCases
  <2>2. ASSUME NEW good \in BOOLEAN, NEW learnt \in SUBSET Hash,
               EntryEnds(e, good, learnt), good => wrote' = wrote
        PROVE  TallyInv'
    <3>1. /\ v'.pc = v.pc /\ v'.m = v.m
          /\ v'.ok <=> v.ok /\ good
          /\ report'.checked = report.checked
          /\ report'.passed = report.passed
          /\ good => report'.failures = report.failures
          /\ ~good => report'.failures = report.failures \union {<<v.m, e>>}
      BY <2>1, <2>2, EntryEffect
    <3>2. \A n \in Manifest : Failed(n)' <=> Failed(n) \/ (n = v.m /\ ~good)
      BY <2>1, <3>1, FailedMore, FailedSame
    <3>3. report.checked \subseteq Manifest
      BY DEF Report
    <3>4. \A m \in report'.checked :
              ~(v'.pc = "entries" /\ m = v'.m) =>
                  (m \in report'.passed <=> ~Failed(m)')
      BY <2>1, <3>1, <3>2, <3>3
    <3>5. v'.ok <=> ~Failed(v.m)'
      BY <2>1, <3>1, <3>2
    <3>6. \A m \in Manifest : Failed(m)' => m \in report'.checked
      BY <2>1, <3>1, <3>2 DEF LoopInv
    <3>7. report'.failures = {} => wrote' = {}
      BY <2>1, <2>2, <3>1
    <3> HIDE DEF TypeOK
    <3> QED
      BY <2>1, <3>1, <3>4, <3>5, <3>6, <3>7
  <2>3. CASE VerifyUnreadable(e) \/ VerifyWrongLength(e)
    <3>1. EntryEnds(e, FALSE, {})
      BY <2>3 DEF VerifyUnreadable, VerifyWrongLength
    <3> QED
      BY <2>2, <3>1
  <2>4. ASSUME NEW S \in SUBSET Hash, RechunkStep(e, S)
        PROVE  TallyInv'
    <3>1. EntryEnds(e, ~Drifted(e), S)
      BY <2>4 DEF RechunkStep
    <3>2. (~Drifted(e)) \in BOOLEAN
      OBVIOUS
    <3>3. ~Drifted(e) => wrote' = wrote
      BY <2>4, NothingFresh DEF RechunkStep, Puts
    <3> QED
      BY <2>2, <3>1, <3>2, <3>3
  <2> QED
    BY <1>9, <2>3, <2>4, EntryIs
<1> QED
  BY <1>1, <1>2, <1>3, <1>4, <1>5, <1>6, <1>7, <1>8, <1>9
     DEF VerifyNext, EntryStep

-----------------------------------------------------------------------------
(* What verify has checked without a failure is in the store.              *)

\* The entries of m that verify has been through.
Done(m) == Entries[m] \ Pending(m)

\* What the report vouches for of m is so.
SoundAt(m) ==
    /\ manifest[m] # "absent"
    /\ <<m, "name">> \notin report.failures => manifest[m] = "whole"
    /\ \A e \in Done(m) : <<m, e>> \notin report.failures => Intact(Home[m], e)

\* It stays so while the file stays and no block it stands on goes.
LEMMA SoundAtKept ==
    ASSUME NEW m \in Manifest, SoundAt(m),
           manifest'[m] = manifest[m],
           report.failures \subseteq report'.failures,
           \A e \in Entries[m] : Intact(Home[m], e) => Intact(Home[m], e)',
           \A e \in Done(m)' \ Done(m) :
               <<m, e>> \in report'.failures \/ Intact(Home[m], e)'
    PROVE  SoundAt(m)'
  BY DEF SoundAt, Done

\* Steps of the other commands, and of unpack.
LEMMA SoundOthers ==
    ASSUME TypeOK, LoopInv, SoundInv, StoreNext \/ UnpackNext
    PROVE  SoundInv'
<1> SUFFICES ASSUME since' # "disturbed"
             PROVE  SoundInv'
  BY DEF SoundInv
<1> USE DEF AtPartition, AmongManifests
<1>1. CASE UnpackNext
  BY <1>1, UnpackStep DEF SoundInv, Pending, Present, Intact
<1>2. ASSUME NEW n \in Manifest, NEW S \in SUBSET Hash, Arrive(n, S)
      PROVE  SoundInv'
  <2>1. /\ S = Needs(n) /\ UNCHANGED <<v, report, damaged>>
        /\ since # "disturbed" /\ manifest[n] = "absent"
    BY <1>2 DEF Arrive, Disturbed, Shared
  <2>2. /\ blocks' = [blocks EXCEPT ![Home[n]] = @ \union Needs(n)]
        /\ manifest' = [manifest EXCEPT ![n] = "whole"]
    BY <1>2, <2>1 DEF Arrive
  <2>3. /\ \A q \in Partition : blocks[q] \subseteq blocks'[q]
        /\ Needs(n) \subseteq blocks'[Home[n]]
        /\ \A m \in Manifest \ {n} : manifest'[m] = manifest[m]
    BY <2>2, ShapeAssumption DEF TypeOK
  <2>4. ASSUME AtPartition', v'.stale, NEW m \in Present(v.at)'
        PROVE  Needs(m) \subseteq blocks'[v.at]
    <3>1. v.at \in Partition
      BY <2>1, <2>4 DEF LoopInv, TypeOK
    <3>2. m = n \/ m \in Present(v.at)
      BY <2>1, <2>3, <2>4 DEF Present
    <3>3. Home[m] = v.at
      BY <2>1, <2>4 DEF Present
    <3> QED
      BY <2>1, <2>3, <2>4, <3>1, <3>2, <3>3 DEF SoundInv
  <2>5. ASSUME NEW m \in report.checked
        PROVE  SoundAt(m)'
    <3>1. m \in Manifest /\ SoundAt(m) /\ m # n
      BY <2>1 DEF SoundInv, SoundAt, Done, TypeOK, Report
    <3>2. \A e \in Entries[m] : Intact(Home[m], e) => Intact(Home[m], e)'
      BY <2>1, <2>3, <3>1, ShapeAssumption DEF Intact
    <3>3. Done(m)' = Done(m)
      BY <2>1 DEF Done, Pending
    <3> QED
      BY <2>1, <2>3, <3>1, <3>2, <3>3, SoundAtKept
  <2>6. v.pc = "entries" => v.m \in report.checked /\ v.m \in Manifest
    BY DEF LoopInv, TypeOK, Report
  <2>7. v.pc = "entries" => v'.loaded = manifest'[v'.m]
    BY <2>1, <2>3, <2>6 DEF SoundInv
  <2> QED
    BY <2>1, <2>4, <2>5, <2>7 DEF SoundInv, SoundAt, Done
<1>3. ASSUME NEW p \in Partition, Gc(p)
      PROVE  SoundInv'
  <2>1. /\ UNCHANGED <<report, manifest>> /\ since # "disturbed"
        /\ v' = OutdatedVerify(p)
        /\ blocks' = [blocks EXCEPT ![p] = Referenced(p)]
        /\ damaged' = [damaged EXCEPT ![p] = @ \intersect Referenced(p)]
    BY <1>3 DEF Gc, Shared
  <2>2. /\ v'.pc = v.pc /\ v'.at = v.at /\ v'.index = v.index
        /\ v'.m = v.m /\ v'.entries = v.entries /\ v'.loaded = v.loaded
        /\ v'.stale <=> v.stale \/ v.at = p
    BY <2>1, OutdatedKept, OutdatedTypes DEF TypeOK, VerifyProcess
  <2>3. /\ \A q \in Partition : damaged'[q] \subseteq damaged[q]
        /\ blocks'[p] = Referenced(p)
        /\ \A q \in Partition \ {p} : blocks'[q] = blocks[q]
    BY <2>1 DEF TypeOK
  <2>4. \A m \in Present(p) : Needs(m) \subseteq Referenced(p)
    BY DEF Referenced
  <2>5. \A q : Present(q)' = Present(q)
    BY <2>1 DEF Present
  <2>6. ASSUME AtPartition', v'.stale, NEW m \in Present(v.at)
        PROVE  Needs(m) \subseteq blocks'[v.at]
    <3>1. v.at \in Partition
      BY <2>2, <2>6 DEF LoopInv, TypeOK
    <3>2. CASE v.at = p
      BY <2>3, <2>4, <2>6, <3>2
    <3>3. CASE v.at # p
      BY <2>1, <2>2, <2>3, <2>6, <3>1, <3>3 DEF SoundInv
    <3> QED
      BY <3>2, <3>3
  <2>7. ASSUME NEW m \in report.checked
        PROVE  SoundAt(m)'
    <3>1. m \in Manifest /\ SoundAt(m) /\ m \in Present(Home[m])
      BY <2>1 DEF SoundInv, SoundAt, Done, TypeOK, Report, Present
    <3>2. \A e \in Entries[m] : Intact(Home[m], e) => Intact(Home[m], e)'
      <4> SUFFICES ASSUME NEW e \in Entries[m], Intact(Home[m], e)
                   PROVE  Intact(Home[m], e)'
        OBVIOUS
      <4>1. Tree[e] \subseteq Needs(m)
        BY DEF Needs
      <4>2. Home[m] \in Partition
        BY <3>1, ShapeAssumption
      <4>3. Tree[e] \subseteq blocks'[Home[m]]
        BY <2>3, <2>4, <3>1, <4>1, <4>2 DEF Intact
      <4> QED
        BY <2>3, <4>2, <4>3 DEF Intact
    <3>3. Done(m)' = Done(m)
      BY <2>2 DEF Done, Pending
    <3> QED
      BY <2>1, <3>1, <3>2, <3>3, SoundAtKept
  <2>8. v.pc = "packs" \/ AmongManifests => v.at \in Partition
    BY DEF LoopInv, TypeOK
  <2>9. /\ v'.pc = "packs" => damaged'[v'.at] \subseteq v'.index
        /\ AmongManifests' => damaged'[v'.at] = {}
    BY <2>1, <2>2, <2>3, <2>8 DEF SoundInv
  <2> QED
    BY <2>1, <2>2, <2>5, <2>6, <2>7, <2>9 DEF SoundInv, SoundAt, Done
<1> QED
  BY <1>1, <1>2, <1>3 DEF StoreNext, GcDies, Damage, Alter, Disturbed

\* Steps of verify but those at an entry.
LEMMA SoundVerify ==
    ASSUME TypeOK, LoopInv, SoundInv,
           \/ \E a \in Args : VerifyStart(a.scope, a.hash)
           \/ \E p \in Partition : VerifyOpen(p)
           \/ \E m \in Manifest : VerifyManifest(m)
           \/ VerifyPacks \/ VerifyManifestDone
           \/ VerifyNextPartition \/ VerifyFinish \/ VerifyError
    PROVE  SoundInv'
<1> USE DEF TypeOK, SoundInv, AtPartition, AmongManifests
<1>1. ASSUME NEW a \in Args, VerifyStart(a.scope, a.hash)
      PROVE  SoundInv'
  <2>1. v'.pc = "open" /\ report'.checked = {}
    BY <1>1 DEF VerifyStart, VerifyProcess, NoReport
  <2> QED
    BY <2>1
<1>2. ASSUME UNCHANGED <<disk, since>>, since # "disturbed",
             report'.checked = report.checked,
             report'.failures = report.failures,
             \A m \in report.checked : Pending(m)' = Pending(m)
      PROVE  \A m \in report'.checked : SoundAt(m)'
  BY <1>2 DEF Report, SoundAt, Done, Intact
<1>3. ASSUME NEW p \in Partition, VerifyOpen(p)
      PROVE  SoundInv'
  <2>1. /\ v.pc = "open" /\ v'.pc = "packs" /\ v'.at = p
        /\ v'.index = blocks[p] /\ v'.stale = FALSE
        /\ UNCHANGED <<disk, report, since>>
    BY <1>3 DEF VerifyOpen, VerifyProcess
  <2>2. \A m \in report.checked : Pending(m)' = Pending(m)
    BY <2>1 DEF Pending
  <2> QED
    BY <1>2, <2>1, <2>2 DEF SoundAt, Done
<1>4. ASSUME NEW m \in Manifest, VerifyManifest(m)
      PROVE  SoundInv'
  <2>1. /\ v.pc = "manifests" /\ v'.pc = "entries" /\ v'.at = v.at
        /\ v'.stale = v.stale /\ v'.m = m /\ v'.loaded = manifest[m]
        /\ v'.entries = Entries[m] /\ manifest[m] \in Parses
        /\ UNCHANGED <<disk, since>>
    BY <1>4 DEF VerifyManifest, VerifyProcess
  <2>2. /\ report'.checked = report.checked \union {m}
        /\ report'.failures = IF manifest[m] = "whole" THEN report.failures
                              ELSE report.failures \union {<<m, "name">>}
    BY <1>4 DEF VerifyManifest, Report
  <2>3. ASSUME NEW n \in report.checked, since # "disturbed"
        PROVE  n = m \/ SoundAt(n)'
    <3>1. n \in Manifest /\ SoundAt(n)
      BY <2>3 DEF Report, SoundAt, Done
    <3>2. n # m => Done(n)' = Done(n)
      BY <2>1 DEF Done, Pending
    <3>3. \A e \in Entries[n] : Intact(Home[n], e) => Intact(Home[n], e)'
      BY <2>1 DEF Intact
    <3> QED
      BY <2>1, <2>2, <3>1, <3>2, <3>3, SoundAtKept
  <2>4. SoundAt(m)'
    BY <2>1, <2>2 DEF SoundAt, Done, Pending
  <2> QED
    BY <2>1, <2>2, <2>3, <2>4 DEF SoundAt, Done, Present
<1>5. CASE VerifyPacks
  <2>1. /\ v.pc = "packs" /\ v'.pc = "manifests" /\ v'.at = v.at
        /\ v'.stale = v.stale /\ damaged[v.at] \intersect v.index = {}
        /\ UNCHANGED <<disk, report, since>>
    BY <1>5 DEF VerifyPacks, VerifyProcess
  <2>2. \A m \in report.checked : Pending(m)' = Pending(m)
    BY <2>1 DEF Pending
  <2>3. since # "disturbed" => damaged[v.at] = {}
    BY <2>1
  <2> QED
    BY <1>2, <2>1, <2>2, <2>3 DEF SoundAt, Done, Present
<1>6. CASE VerifyManifestDone
  <2>1. /\ v.pc = "entries" /\ v'.pc = "manifests" /\ v'.at = v.at
        /\ v'.stale = v.stale /\ v.entries = {} /\ UNCHANGED <<disk, since>>
    BY <1>6 DEF VerifyManifestDone, VerifyProcess
  <2>2. /\ report'.checked = report.checked
        /\ report'.failures = report.failures
    BY <1>6 DEF VerifyManifestDone, Report
  <2>3. \A m \in report.checked : Pending(m)' = Pending(m)
    BY <2>1 DEF Pending
  <2> QED
    BY <1>2, <2>1, <2>2, <2>3 DEF SoundAt, Done, Present
<1>7. CASE VerifyNextPartition
  <2>1. /\ v.pc = "manifests" /\ v'.pc = "open"
        /\ UNCHANGED <<disk, report, since>>
    BY <1>7 DEF VerifyNextPartition, VerifyProcess
  <2>2. \A m \in report.checked : Pending(m)' = Pending(m)
    BY <2>1 DEF Pending
  <2> QED
    BY <1>2, <2>1, <2>2 DEF SoundAt, Done
<1>8. CASE VerifyFinish
  <2>1. /\ v.pc = "open" /\ v'.pc = "idle"
        /\ UNCHANGED <<disk, report, since>>
    BY <1>8 DEF VerifyFinish, VerifyEnded
  <2>2. \A m \in report.checked : Pending(m)' = Pending(m)
    BY <2>1 DEF Pending
  <2> QED
    BY <1>2, <2>1, <2>2 DEF SoundAt, Done
<1>9. CASE VerifyError
  <2>1. v'.pc = "idle" /\ report'.checked = {}
    BY <1>9 DEF VerifyError, VerifyEnded, NoReport
  <2> QED
    BY <2>1
<1> QED
  BY <1>1, <1>3, <1>4, <1>5, <1>6, <1>7, <1>8, <1>9

\* Steps of verify at an entry: what verify puts into the store hides nothing,
\* and after a gc what it has just read is in the store.
LEMMA SoundEntry ==
    ASSUME TypeOK, LoopInv, SoundInv, NEW e \in Entry, EntryStep(e)
    PROVE  SoundInv'
<1> SUFFICES ASSUME since' # "disturbed"
             PROVE  SoundInv'
  BY DEF SoundInv
<1>1. /\ UNCHANGED <<manifest, damaged, since>>
      /\ \A q \in Partition : blocks[q] \subseteq blocks'[q]
  BY EntryDisk
<1>2. /\ v.pc = "entries" /\ v.m \in Manifest /\ v.at \in Partition
      /\ v.m \in report.checked /\ Home[v.m] = v.at /\ e \in Entries[v.m]
      /\ AmongManifests
  BY EntryCases DEF LoopInv, AmongManifests
<1>3. PICK good \in BOOLEAN, learnt \in SUBSET Hash :
        /\ EntryEnds(e, good, learnt)
        /\ good => MayRead(v, v.at, e)
  <2>1. CASE VerifyUnreadable(e) \/ VerifyWrongLength(e)
    <3>1. EntryEnds(e, FALSE, {})
      BY <2>1 DEF VerifyUnreadable, VerifyWrongLength
    <3> QED
      BY <3>1
  <2>2. ASSUME NEW S \in SUBSET Hash, RechunkStep(e, S)
        PROVE  \E good \in BOOLEAN, learnt \in SUBSET Hash :
                  EntryEnds(e, good, learnt) /\ (good => MayRead(v, v.at, e))
    <3>1. EntryEnds(e, ~Drifted(e), S) /\ MayRead(v, v.at, e)
      BY <2>2 DEF RechunkStep, AtBytes
    <3>2. (~Drifted(e)) \in BOOLEAN
      OBVIOUS
    <3> QED
      BY <3>1, <3>2
  <2> QED
    BY <2>1, <2>2, EntryIs
<1>4. /\ v'.pc = v.pc /\ v'.at = v.at /\ v'.m = v.m
      /\ v'.loaded = v.loaded /\ v'.stale = v.stale
      /\ v'.entries = v.entries \ {e}
      /\ report'.checked = report.checked
      /\ good => report'.failures = report.failures
      /\ ~good => report'.failures = report.failures \union {<<v.m, e>>}
  BY <1>2, <1>3, EntryEffect
<1>5. good => Intact(v.at, e)'
  <2> SUFFICES ASSUME good
               PROVE  Intact(v.at, e)'
    OBVIOUS
  <2>1. damaged[v.at] = {}
    BY <1>1, <1>2 DEF SoundInv
  <2>2. CASE v.stale
    <3>1. v.m \in Present(v.at)
      BY <1>1, <1>2 DEF SoundInv, Present
    <3>2. Needs(v.m) \subseteq blocks[v.at]
      BY <1>1, <1>2, <2>2, <3>1 DEF SoundInv, AtPartition
    <3>3. Tree[e] \subseteq Needs(v.m)
      BY <1>2 DEF Needs
    <3> QED
      BY <1>1, <1>2, <1>4, <2>1, <3>2, <3>3 DEF Intact
  <2>3. CASE ~v.stale
    BY <1>1, <1>2, <1>3, <1>4, <2>1, <2>3 DEF Intact, MayRead
  <2> QED
    BY <2>2, <2>3
<1>6. ASSUME NEW m \in report.checked
      PROVE  SoundAt(m)'
  <2>1. m \in Manifest /\ SoundAt(m)
    BY <1>1 DEF SoundInv, SoundAt, Done, TypeOK, Report
  <2>2. Done(m)' \ Done(m) \subseteq IF m = v.m THEN {e} ELSE {}
    BY <1>2, <1>4 DEF Done, Pending
  <2>3. \A x \in Entries[m] : Intact(Home[m], x) => Intact(Home[m], x)'
    BY <1>1, <2>1, ShapeAssumption DEF Intact
  <2>4. report.failures \subseteq report'.failures
    BY <1>4
  <2>5. m = v.m => <<m, e>> \in report'.failures \/ Intact(Home[m], e)'
    BY <1>2, <1>4, <1>5
  <2> QED
    BY <1>1, <2>1, <2>2, <2>3, <2>4, <2>5, SoundAtKept
<1>7. /\ damaged'[v'.at] = {}
      /\ v'.stale => \A m \in Present(v.at)' : Needs(m) \subseteq blocks'[v'.at]
      /\ v'.loaded = manifest'[v'.m]
  BY <1>1, <1>2, <1>4 DEF SoundInv, AtPartition, Present
<1> QED
  BY <1>1, <1>2, <1>4, <1>6, <1>7
     DEF SoundInv, SoundAt, Done, AtPartition, AmongManifests, Present

-----------------------------------------------------------------------------
(* A verify that runs alone reports what it should.                        *)

\* What can be bad of a manifest: its name, and its entries.
LEMMA BadIs ==
    ASSUME NEW m \in Manifest, NEW n, NEW x
    PROVE  <<n, x>> \in Bad(m) <=>
              /\ n = m
              /\ \/ x = "name" /\ manifest[m] # "whole"
                 \/ /\ x \in Entries[m]
                    /\ \/ manifest[m] = "resized" \/ Drifted(x)
                       \/ ~Intact(Home[m], x)
  BY DEF Bad

\* What is bad stays while the file and the blocks of its partition stay; what
\* is put into the store makes nothing bad.
LEMMA BadKept ==
    ASSUME NEW m \in Manifest, manifest'[m] = manifest[m],
           \A e \in Entries[m] : Intact(Home[m], e) => Intact(Home[m], e)'
    PROVE  /\ Bad(m)' \subseteq Bad(m)
           /\ UNCHANGED <<blocks, damaged>> => Bad(m)' = Bad(m)
  BY DEF Bad, Intact, Drifted

\* What verify has found of m.
FoundAt(m) ==
    /\ manifest[m] # "whole" => <<m, "name">> \in report.failures
    /\ \A e \in Done(m) : <<m, e>> \in Bad(m) => <<m, e>> \in report.failures

\* Verify has been to m.
Visited(m) ==
    /\ m \in Asked
    /\ Home[m] \in v.scope => AmongManifests /\ Home[m] = v.at /\ m \notin v.left

\* AloneInv, in the parts the proofs go by.
LEMMA AloneParts ==
    AloneInv <=>
        (since = "alone" /\ (v.pc # "idle" \/ Finished) =>
            /\ AtPartition => ~v.stale /\ v.index = blocks[v.at]
            /\ \A m \in Manifest : m \in report.checked <=> Visited(m)
            /\ \A m \in report.checked : FoundAt(m)
            /\ wrote = {} =>
                 report.failures \subseteq UNION {Bad(m) : m \in report.checked})
  BY DEF AloneInv, Visited, FoundAt, Done

\* Steps of verify but those at an entry.
LEMMA AloneVerify ==
    ASSUME TypeOK, LoopInv, SoundInv, AloneInv,
           \/ \E a \in Args : VerifyStart(a.scope, a.hash)
           \/ \E p \in Partition : VerifyOpen(p)
           \/ \E m \in Manifest : VerifyManifest(m)
           \/ VerifyPacks \/ VerifyManifestDone
           \/ VerifyNextPartition \/ VerifyFinish \/ VerifyError
    PROVE  AloneInv'
<1> USE DEF TypeOK, AtPartition, AmongManifests
<1>c. report.checked \subseteq Manifest
  BY DEF Report
<1>1. ASSUME NEW a \in Args, VerifyStart(a.scope, a.hash)
      PROVE  AloneInv'
  <2>1. /\ v'.pc = "open" /\ v'.asked = v'.scope
        /\ report'.checked = {} /\ report'.failures = {}
    BY <1>1 DEF VerifyStart, VerifyProcess, NoReport
  <2>2. \A m \in Manifest : ~Visited(m)'
    BY <2>1 DEF Visited, Asked
  <2> QED
    BY <2>1, <2>2 DEF AloneInv, Visited, FoundAt, Done
<1>2. CASE VerifyError
  <2>1. v'.pc = "idle" /\ v'.result = "error"
    BY <1>2 DEF VerifyError, VerifyEnded
  <2> QED
    BY <2>1 DEF AloneInv, Finished
<1> SUFFICES ASSUME since' = "alone", v'.pc # "idle" \/ Finished'
             PROVE  AloneInv'
  BY DEF AloneInv
<1>3. ASSUME UNCHANGED <<disk, wrote, since>>, v.pc # "idle",
             report'.checked = report.checked,
             report'.failures = report.failures,
             \A m \in Manifest : Visited(m)' <=> Visited(m),
             \A m \in report.checked : Pending(m)' = Pending(m),
             AtPartition' => ~v'.stale /\ v'.index = blocks[v'.at]
      PROVE  AloneInv'
  <2>1. /\ \A m \in Manifest : m \in report.checked <=> Visited(m)
        /\ \A m \in report.checked : FoundAt(m)
        /\ wrote = {} =>
             report.failures \subseteq UNION {Bad(m) : m \in report.checked}
    BY <1>3, AloneParts
  <2>2. \A m \in Manifest : Bad(m)' = Bad(m)
    BY <1>3 DEF Bad, Intact, Drifted
  <2>3. \A m \in report.checked : FoundAt(m)'
    BY <1>c, <1>3, <2>1, <2>2 DEF FoundAt, Done
  <2> QED
    BY <1>c, <1>3, <2>1, <2>2, <2>3 DEF AloneInv, Visited, FoundAt, Done
<1>4. ASSUME NEW p \in Partition, VerifyOpen(p)
      PROVE  AloneInv'
  <2>1. /\ v.pc = "open" /\ v'.pc = "packs" /\ v'.at = p
        /\ v'.index = blocks[p] /\ v'.stale = FALSE
        /\ v'.scope = v.scope /\ v'.asked = v.asked /\ v'.wanted = v.wanted
        /\ UNCHANGED <<disk, report, wrote, since>>
    BY <1>4 DEF VerifyOpen, VerifyProcess
  <2>2. \A m \in Manifest : Visited(m)' <=> Visited(m)
    BY <2>1 DEF Visited, Asked
  <2> QED
    BY <1>3, <2>1, <2>2 DEF Pending
<1>5. ASSUME NEW m \in Manifest, VerifyManifest(m)
      PROVE  AloneInv'
  <2>1. /\ v.pc = "manifests" /\ v'.pc = "entries" /\ v'.at = v.at
        /\ v'.stale = v.stale /\ v'.index = v.index /\ v'.m = m
        /\ v'.entries = Entries[m] /\ manifest[m] \in Parses
        /\ v'.scope = v.scope /\ v'.asked = v.asked /\ v'.wanted = v.wanted
        /\ m \in v.left /\ v'.left = v.left \ {m}
        /\ UNCHANGED <<disk, since, wrote>>
    BY <1>5 DEF VerifyManifest, VerifyProcess
  <2>2. /\ report'.checked = report.checked \union {m}
        /\ report'.failures = IF manifest[m] = "whole" THEN report.failures
                              ELSE report.failures \union {<<m, "name">>}
    BY <1>5 DEF VerifyManifest, Report
  <2>3. /\ \A n \in Manifest : n \in report.checked <=> Visited(n)
        /\ \A n \in report.checked : FoundAt(n)
        /\ wrote = {} =>
             report.failures \subseteq UNION {Bad(n) : n \in report.checked}
        /\ ~v.stale /\ v.index = blocks[v.at]
    BY <2>1, AloneParts
  <2>4. \A n \in Manifest : Bad(n)' = Bad(n)
    BY <2>1 DEF Bad, Intact, Drifted
  <2>5. \A n \in Manifest : n \in report'.checked <=> Visited(n)'
    <3>1. m \in Asked /\ Home[m] = v.at
      BY <2>1 DEF LoopInv, Asked
    <3>2. Asked' = Asked
      BY <2>1 DEF Asked
    <3> QED
      BY <2>1, <2>2, <2>3, <3>1, <3>2 DEF Visited
  <2>6. \A n \in report'.checked : FoundAt(n)'
    <3>1. FoundAt(m)'
      BY <2>1, <2>2 DEF FoundAt, Done, Pending
    <3>2. ASSUME NEW n \in report.checked \ {m}
          PROVE  FoundAt(n)'
      <4>1. Done(n)' = Done(n)
        BY <2>1 DEF Done, Pending
      <4> QED
        BY <1>c, <2>1, <2>2, <2>3, <2>4, <4>1 DEF FoundAt
    <3> QED
      BY <2>2, <3>1, <3>2
  <2>7. wrote' = {} =>
          report'.failures \subseteq UNION {Bad(n)' : n \in report'.checked}
    <3>1. manifest[m] # "whole" => <<m, "name">> \in Bad(m)'
      BY <2>1 DEF Bad
    <3> QED
      BY <1>c, <2>1, <2>2, <2>3, <2>4, <3>1
  <2> QED
    BY <2>1, <2>3, <2>5, <2>6, <2>7 DEF AloneInv, Visited, FoundAt, Done
<1>6. CASE VerifyPacks
  <2>1. /\ v.pc = "packs" /\ v'.pc = "manifests" /\ v'.at = v.at
        /\ v'.stale = v.stale /\ v'.index = v.index
        /\ v'.scope = v.scope /\ v'.asked = v.asked /\ v'.wanted = v.wanted
        /\ v'.left = {m \in Present(v.at) : v.wanted \in {None, m}}
        /\ UNCHANGED <<disk, report, since, wrote>>
    BY <1>6 DEF VerifyPacks, VerifyProcess
  <2>2. ASSUME NEW m \in Manifest
        PROVE  Visited(m)' <=> Visited(m)
    <3>1. Asked' = Asked
      BY <2>1 DEF Asked
    <3>2. m \in Asked /\ Home[m] = v.at => m \in v'.left
      BY <2>1 DEF Asked, Present
    <3> QED
      BY <2>1, <3>1, <3>2 DEF Visited
  <2>3. ~v.stale /\ v.index = blocks[v.at]
    BY <2>1 DEF AloneInv
  <2> QED
    BY <1>3, <2>1, <2>2, <2>3 DEF Pending
<1>7. CASE VerifyManifestDone
  <2>1. /\ v.pc = "entries" /\ v'.pc = "manifests" /\ v'.at = v.at
        /\ v'.stale = v.stale /\ v'.index = v.index /\ v.entries = {}
        /\ v'.scope = v.scope /\ v'.asked = v.asked /\ v'.wanted = v.wanted
        /\ v'.left = v.left /\ UNCHANGED <<disk, since, wrote>>
    BY <1>7 DEF VerifyManifestDone, VerifyProcess
  <2>2. /\ report'.checked = report.checked
        /\ report'.failures = report.failures
    BY <1>7 DEF VerifyManifestDone, Report
  <2>3. \A m \in Manifest : Visited(m)' <=> Visited(m)
    BY <2>1 DEF Visited, Asked
  <2>4. \A m \in report.checked : Pending(m)' = Pending(m)
    BY <2>1 DEF Pending
  <2>5. ~v.stale /\ v.index = blocks[v.at]
    BY <2>1 DEF AloneInv
  <2> QED
    BY <1>3, <2>1, <2>2, <2>3, <2>4, <2>5
<1>8. CASE VerifyNextPartition
  <2>1. /\ v.pc = "manifests" /\ v'.pc = "open" /\ v.left = {}
        /\ v'.scope = v.scope \ {v.at} /\ v'.asked = v.asked
        /\ v'.wanted = v.wanted
        /\ UNCHANGED <<disk, report, since, wrote>>
    BY <1>8 DEF VerifyNextPartition, VerifyProcess
  <2>2. \A m \in Manifest : Visited(m)' <=> Visited(m)
    BY <2>1 DEF Visited, Asked
  <2> QED
    BY <1>3, <2>1, <2>2 DEF Pending
<1>9. CASE VerifyFinish
  <2>1. /\ v.pc = "open" /\ v'.pc = "idle" /\ v.scope = {} /\ v'.scope = {}
        /\ v'.asked = v.asked /\ v'.wanted = v.wanted
        /\ UNCHANGED <<disk, report, since, wrote>>
    BY <1>9 DEF VerifyFinish, VerifyEnded
  <2>2. \A m \in Manifest : Visited(m)' <=> Visited(m)
    BY <2>1 DEF Visited, Asked
  <2> QED
    BY <1>3, <2>1, <2>2 DEF Pending
<1> QED
  BY <1>1, <1>2, <1>4, <1>5, <1>6, <1>7, <1>8, <1>9

\* Steps of verify at an entry: with the index of a store that nobody else
\* changes, an entry fails to be read only if it is bad.
LEMMA AloneEntry ==
    ASSUME TypeOK, LoopInv, SoundInv, AloneInv, NEW e \in Entry, EntryStep(e)
    PROVE  AloneInv'
<1> SUFFICES ASSUME since' = "alone"
             PROVE  AloneInv'
  BY DEF AloneInv
<1> USE DEF AtPartition, AmongManifests
<1>c. report.checked \subseteq Manifest
  BY DEF TypeOK, Report
<1>1. /\ UNCHANGED <<manifest, damaged>> /\ since = "alone"
      /\ \A q \in Partition : blocks[q] \subseteq blocks'[q]
  BY EntryDisk
<1>2. /\ v.pc = "entries" /\ v.m \in Manifest /\ v.at \in Partition
      /\ v.m \in report.checked /\ Home[v.m] = v.at /\ e \in Entries[v.m]
      /\ v.loaded = manifest[v.m] /\ ~v.stale /\ v.index = blocks[v.at]
  BY <1>1, EntryCases DEF LoopInv, SoundInv, AloneInv
<1>3. /\ \A m \in Manifest : m \in report.checked <=> Visited(m)
      /\ \A m \in report.checked : FoundAt(m)
      /\ wrote = {} =>
           report.failures \subseteq UNION {Bad(m) : m \in report.checked}
  BY <1>1, <1>2, AloneParts
<1>4. PICK good \in BOOLEAN, learnt \in SUBSET Hash :
        /\ EntryEnds(e, good, learnt)
        /\ blocks'[v.at] = blocks[v.at] \union learnt
        /\ \A q \in Partition \ {v.at} : blocks'[q] = blocks[q]
        /\ wrote' = {} => wrote = {} /\ UNCHANGED blocks
        /\ good => manifest[v.m] # "resized" /\ ~Drifted(e) /\ Intact(v.at, e)
        /\ ~good => \/ manifest[v.m] = "resized" \/ Drifted(e)
                    \/ ~Intact(v.at, e)
  <2> DEFINE Ending == \E good \in BOOLEAN, learnt \in SUBSET Hash :
        /\ EntryEnds(e, good, learnt)
        /\ blocks'[v.at] = blocks[v.at] \union learnt
        /\ \A q \in Partition \ {v.at} : blocks'[q] = blocks[q]
        /\ wrote' = {} => wrote = {} /\ UNCHANGED blocks
        /\ good => manifest[v.m] # "resized" /\ ~Drifted(e) /\ Intact(v.at, e)
        /\ ~good => \/ manifest[v.m] = "resized" \/ Drifted(e)
                    \/ ~Intact(v.at, e)
  <2>2. CASE VerifyUnreadable(e)
    <3>1. ~Intact(v.at, e)
      BY <1>2, <2>2 DEF VerifyUnreadable, MayFail, Intact
    <3>2. EntryEnds(e, FALSE, {}) /\ UNCHANGED <<blocks, wrote>>
      BY <2>2 DEF VerifyUnreadable
    <3> QED
      BY <3>1, <3>2
  <2>3. CASE VerifyWrongLength(e)
    <3>1. EntryEnds(e, FALSE, {}) /\ UNCHANGED <<blocks, wrote>>
      BY <2>3 DEF VerifyWrongLength
    <3>2. manifest[v.m] = "resized"
      BY <1>2, <2>3 DEF VerifyWrongLength
    <3> QED
      BY <3>1, <3>2
  <2>4. ASSUME NEW S \in SUBSET Hash, RechunkStep(e, S)
        PROVE  Ending
    <3>1. EntryEnds(e, ~Drifted(e), S) /\ (~Drifted(e)) \in BOOLEAN
      BY <2>4 DEF RechunkStep
    <3>2. Intact(v.at, e) /\ manifest[v.m] # "resized"
      BY <1>2, <2>4 DEF RechunkStep, AtBytes, MayRead
    <3>3. /\ blocks' = [blocks EXCEPT ![v.at] = @ \union S]
          /\ wrote' = wrote \union S
      BY <1>2, <2>4 DEF RechunkStep, Puts
    <3>4. /\ blocks'[v.at] = blocks[v.at] \union S
          /\ \A q \in Partition \ {v.at} : blocks'[q] = blocks[q]
      BY <1>2, <3>3 DEF TypeOK
    <3>5. wrote' = {} => wrote = {} /\ UNCHANGED blocks
      BY <1>2, <3>3 DEF TypeOK
    <3> QED
      BY <3>1, <3>2, <3>4, <3>5
  <2> QED
    BY <2>2, <2>3, <2>4, EntryIs
<1>5. /\ v'.pc = v.pc /\ v'.at = v.at /\ v'.m = v.m
      /\ v'.scope = v.scope /\ v'.asked = v.asked /\ v'.left = v.left
      /\ v'.wanted = v.wanted /\ v'.stale = v.stale
      /\ v'.entries = v.entries \ {e} /\ v'.index = v.index \union learnt
      /\ report'.checked = report.checked
      /\ good => report'.failures = report.failures
      /\ ~good => report'.failures = report.failures \union {<<v.m, e>>}
  BY <1>2, <1>4, EntryEffect
<1>6. ASSUME NEW m \in Manifest
      PROVE  /\ Visited(m)' <=> Visited(m)
             /\ Bad(m)' \subseteq Bad(m)
             /\ wrote' = {} => Bad(m)' = Bad(m)
  <2>1. Visited(m)' <=> Visited(m)
    BY <1>1, <1>5 DEF Visited, Asked
  <2>2. \A x \in Entries[m] : Intact(Home[m], x) => Intact(Home[m], x)'
    BY <1>1, ShapeAssumption DEF Intact
  <2> QED
    BY <1>1, <1>4, <2>1, <2>2, BadKept
<1>7. good => <<v.m, e>> \notin Bad(v.m) \/ <<v.m, e>> \in report.failures
  BY <1>2, <1>3, <1>4, BadIs DEF FoundAt
<1>8. ASSUME NEW m \in report.checked
      PROVE  FoundAt(m)'
  <2>1. manifest'[m] # "whole" => <<m, "name">> \in report'.failures
    BY <1>1, <1>3, <1>5 DEF FoundAt
  <2>2. ASSUME NEW x \in Done(m)', <<m, x>> \in Bad(m)'
        PROVE  <<m, x>> \in report'.failures
    <3>1. x \in Done(m) \/ (m = v.m /\ x = e)
      BY <1>2, <1>5, <2>2 DEF Done, Pending
    <3>2. <<m, x>> \in Bad(m)
      BY <1>c, <1>6, <2>2
    <3> QED
      BY <1>3, <1>5, <1>7, <3>1, <3>2 DEF FoundAt
  <2> QED
    BY <2>1, <2>2 DEF FoundAt
<1>9. wrote' = {} =>
        report'.failures \subseteq UNION {Bad(m)' : m \in report'.checked}
  <2> SUFFICES ASSUME wrote' = {}
               PROVE  report'.failures \subseteq
                          UNION {Bad(m) : m \in report.checked}
    BY <1>c, <1>5, <1>6
  <2>1. ~good => <<v.m, e>> \in Bad(v.m)
    BY <1>2, <1>4, BadIs
  <2> QED
    BY <1>2, <1>3, <1>4, <1>5, <2>1
<1>10. ~v'.stale /\ v'.index = blocks'[v'.at]
  BY <1>2, <1>4, <1>5
<1> QED
  BY <1>c, <1>3, <1>5, <1>6, <1>8, <1>9, <1>10
     DEF AloneInv, Visited, FoundAt, Done

\* Steps of the other commands, and of unpack.
LEMMA AloneOthers ==
    ASSUME TypeOK, AloneInv, StoreNext \/ UnpackNext
    PROVE  AloneInv'
<1>1. CASE StoreNext
  BY <1>1, StoreStep DEF AloneInv
<1>2. CASE UnpackNext
  BY <1>2, UnpackStep
     DEF AloneInv, Finished, AtPartition, AmongManifests, Asked, Bad, Pending,
         Intact, Drifted
<1> QED
  BY <1>1, <1>2

-----------------------------------------------------------------------------
(* An unpack of what was verified.                                         *)

\* A verdict of PASS can be believed.
LEMMA PassMeans ==
    ASSUME TypeOK, LoopInv, TallyInv, SoundInv, Finished, v.result = "PASS",
           since # "disturbed", NEW m \in report.checked
    PROVE  /\ Home[m] \in provisioned
           /\ manifest[m] = "whole"
           /\ \A e \in Entries[m] : Intact(Home[m], e)
<1>1. report.failures = {}
  BY DEF TallyInv
<1> QED
  BY <1>1 DEF SoundInv, Pending, Finished, LoopInv

\* What the last verify has vouched for can be read to the end.
LEMMA UnpackInvNext ==
    ASSUME IInv, Next
    PROVE  UnpackInv'
<1> USE DEF IInv
<1>1. CASE VerifyNext
  <2>1. ASSUME NEW a \in Args, VerifyStart(a.scope, a.hash)
        PROVE  UnpackInv'
    <3>1. u'.vouched = FALSE
      BY <2>1 DEF VerifyStart, TypeOK, UnpackProcess
    <3> QED
      BY <3>1 DEF UnpackInv
  <2>2. CASE ~ \E a \in Args : VerifyStart(a.scope, a.hash)
    <3>1. v.pc # "idle" /\ UNCHANGED <<u, since>>
      BY <1>1, <2>2
         DEF VerifyNext, VerifyOpen, VerifyPacks, VerifyManifest,
             VerifyUnreadable, VerifyWrongLength, VerifyRechunk,
             VerifyRechunkError, AtBytes, AtEntry, VerifyManifestDone,
             VerifyNextPartition, VerifyFinish, VerifyError
    <3> QED
      BY <3>1 DEF UnpackInv
  <2> QED
    BY <2>1, <2>2
<1>2. CASE StoreNext
  <2> SUFFICES ASSUME u'.vouched, since' # "disturbed"
               PROVE  UnpackInv'
    BY DEF UnpackInv
  <2>1. u' = u /\ since # "disturbed"
    BY <1>2, StoreStep DEF StillVouched
  <2>2. VerifyGoesOn
    BY <1>2, StoreStep
  <2>3. v'.pc = v.pc /\ v'.result = v.result /\ report' = report
    BY <2>2 DEF VerifyGoesOn, TypeOK, VerifyProcess
  <2> QED
    BY <2>1, <2>3 DEF UnpackInv
<1>3. CASE UnpackNext
  <2> SUFFICES ASSUME u'.vouched, since' # "disturbed"
               PROVE  UnpackInv'
    BY DEF UnpackInv
  <2>1. UNCHANGED <<disk, v, report, since>> /\ since # "disturbed"
    BY <1>3, UnpackStep
  <2>2. ASSUME v.pc = "idle", v.result = "PASS", NEW m \in report.checked
        PROVE  /\ Home[m] \in provisioned
               /\ manifest[m] = "whole"
               /\ \A e \in Entries[m] : Intact(Home[m], e)
    <3>1. Finished
      BY <2>2 DEF Finished
    <3> QED
      BY <2>1, <2>2, <3>1, PassMeans
  <2>3. ASSUME NEW m \in Manifest, NEW p \in Partition, UnpackLoad(m, p)
        PROVE  UnpackInv'
    <3>1. /\ u'.vouched = Vouched(m) /\ u'.pc = "open" /\ u'.m = m
          /\ u'.loaded = manifest[m] /\ u'.result = "none" /\ v.pc = "idle"
      BY <2>3 DEF UnpackLoad, ReadersApart, TypeOK, UnpackProcess
    <3>2. v.result = "PASS" /\ m \in report.checked
      BY <3>1 DEF Vouched, TypeOK
    <3> QED
      BY <2>1, <2>2, <3>1, <3>2 DEF UnpackInv
  <2>4. ASSUME NEW m \in Manifest, UnpackPath(m)
        PROVE  UnpackInv'
    <3>1. /\ u'.vouched = Vouched(m) /\ u'.pc = "open" /\ u'.m = m
          /\ u'.loaded = "whole" /\ u'.result = "none" /\ v.pc = "idle"
      BY <2>4 DEF UnpackPath, ReadersApart, TypeOK, UnpackProcess
    <3>2. v.result = "PASS" /\ m \in report.checked
      BY <3>1 DEF Vouched, TypeOK
    <3> QED
      BY <2>1, <3>1, <3>2 DEF UnpackInv
  <2>5. ASSUME NEW m \in Manifest, NEW p \in Partition, UnpackNoManifest(m, p)
        PROVE  UnpackInv'
    <3>1. /\ u'.vouched = (Home[m] = p /\ Vouched(m)) /\ v.pc = "idle"
          /\ Home[m] = p => manifest[m] \notin Parses
      BY <2>5 DEF UnpackNoManifest, UnpackEnded, ReadersApart
    <3>2. Home[m] = p /\ v.result = "PASS" /\ m \in report.checked
      BY <3>1 DEF Vouched, TypeOK
    <3> QED
      BY <2>2, <3>1, <3>2
  <2>6. CASE UnpackOpen
    <3>1. /\ u.pc = "open" /\ u'.pc = "entries" /\ u'.m = u.m
          /\ u'.loaded = u.loaded /\ u'.vouched = u.vouched
          /\ u'.result = u.result /\ u'.stale = FALSE
          /\ u'.index = blocks[Home[u.m]] /\ u'.left = Entries[u.m]
      BY <2>6 DEF UnpackOpen, TypeOK, UnpackProcess
    <3>2. Needs(u.m) \subseteq blocks[Home[u.m]]
      BY <2>1, <2>2, <3>1 DEF UnpackInv, Needs, Intact
    <3> QED
      BY <2>1, <3>1, <3>2 DEF UnpackInv
  <2>7. ASSUME NEW e \in Entry, UnpackEntry(e)
        PROVE  UnpackInv'
    <3>1. /\ u.pc = "entries" /\ u'.pc = "entries" /\ u'.m = u.m
          /\ u'.loaded = u.loaded /\ u'.vouched = u.vouched
          /\ u'.result = u.result /\ u'.stale = u.stale
          /\ u'.index = u.index /\ u'.left = u.left \ {e}
      BY <2>7 DEF UnpackEntry, UnpackReads, TypeOK, UnpackProcess
    <3> QED
      BY <2>1, <3>1 DEF UnpackInv
  <2>8. CASE UnpackDone \/ UnpackCannotWrite
    <3>1. /\ u'.pc = "idle" /\ u'.vouched = u.vouched
          /\ u'.result \in {"restored", "unwritable"}
      <4>1. CASE UnpackDone
        BY <4>1 DEF UnpackDone, UnpackEnded
      <4>2. CASE UnpackCannotWrite
        BY <4>2 DEF UnpackCannotWrite, UnpackEnded
      <4> QED
        BY <2>8, <4>1, <4>2
    <3> QED
      BY <2>1, <3>1 DEF UnpackInv
  <2>9. CASE UnpackError
    <3>1. u.vouched /\ u.pc # "idle"
      BY <2>9 DEF UnpackError, UnpackEnded
    <3>2. /\ v.pc = "idle" /\ v.result = "PASS" /\ u.m \in report.checked
          /\ u.loaded = "whole"
      BY <2>1, <3>1 DEF UnpackInv
    <3>3. CASE u.pc = "open"
      BY <2>2, <2>9, <3>2, <3>3 DEF UnpackError
    <3>4. CASE u.pc = "entries"
      <4>1. /\ ~u.stale /\ Needs(u.m) \subseteq u.index
            /\ u.left \subseteq Entries[u.m]
        BY <2>1, <3>1, <3>4 DEF UnpackInv
      <4>2. \A e \in u.left : Tree[e] \subseteq u.index
        BY <4>1 DEF Needs
      <4> QED
        BY <2>2, <2>9, <3>2, <3>4, <4>1, <4>2 DEF UnpackError, MayFail
    <3> QED
      BY <2>9, <3>3, <3>4 DEF UnpackError
  <2> QED
    BY <1>3, <2>3, <2>4, <2>5, <2>6, <2>7, <2>8, <2>9 DEF UnpackNext
<1> QED
  BY <1>1, <1>2, <1>3 DEF Next

-----------------------------------------------------------------------------
(* The theorems.                                                           *)

\* No step breaks the invariant.
LEMMA InvStep ==
    ASSUME IInv, [Next]_vars
    PROVE  IInv'
<1> USE DEF IInv
<1>1. CASE UNCHANGED vars
  <2>1. TypeOK' /\ LoopInv' /\ TallyInv'
    BY <1>1 DEF TypeOK, LoopInv, TallyInv, AtPartition, AmongManifests, Failed,
                Finished
  <2>2. SoundInv' /\ AloneInv' /\ UnpackInv'
    BY <1>1 DEF SoundInv, AloneInv, UnpackInv, AtPartition, AmongManifests,
                Finished, Asked, Bad, Pending, Intact, Drifted, Present
  <2> QED
    BY <2>1, <2>2
<1>2. CASE VerifyNext
  <2> DEFINE AtAnEntry == \E e \in Entry : EntryStep(e)
  <2>1. LoopInv' /\ TallyInv'
    BY <1>2, LoopVerify, TallyVerify
  <2>2. CASE AtAnEntry
    BY <2>2, EntryTypes, SoundEntry, AloneEntry, <2>1, <1>2, UnpackInvNext
       DEF Next
  <2>3. CASE ~AtAnEntry
    <3>1. \/ \E a \in Args : VerifyStart(a.scope, a.hash)
          \/ \E p \in Partition : VerifyOpen(p)
          \/ \E m \in Manifest : VerifyManifest(m)
          \/ VerifyPacks \/ VerifyManifestDone
          \/ VerifyNextPartition \/ VerifyFinish \/ VerifyError
      BY <1>2, <2>3 DEF VerifyNext, EntryStep
    <3> QED
      BY <3>1, <2>1, <1>2, VerifyTypes, SoundVerify, AloneVerify, UnpackInvNext
         DEF Next
  <2> QED
    BY <2>2, <2>3
<1>3. CASE UnpackNext
  BY <1>3, UnpackTypes, LoopOthers, TallyOthers, SoundOthers, AloneOthers,
     UnpackInvNext DEF Next
<1>4. CASE StoreNext
  BY <1>4, StoreTypes, LoopOthers, TallyOthers, SoundOthers, AloneOthers,
     UnpackInvNext DEF Next
<1> QED
  BY <1>1, <1>2, <1>3, <1>4 DEF Next

\* The invariant holds in every state that any number of readers, packs,
\* transfers, gcs, crashes and faults leads to.
THEOREM Inductive == Spec => []IInv
<1>1. Init => IInv
  <2> SUFFICES ASSUME Init
               PROVE  IInv
    OBVIOUS
  <2>1. /\ v.pc = "idle" /\ v.result = "none" /\ v.scope = {} /\ v.asked = {}
        /\ u.pc = "idle" /\ u.vouched = FALSE
        /\ report.checked = {} /\ report.passed = {} /\ report.failures = {}
    BY DEF Init, VerifyEnded, UnpackEnded, NoReport
  <2>2. TypeOK
    <3>1. v \in VerifyProcess /\ u \in UnpackProcess
      BY EndedTypes DEF Init
    <3>2. report \in Report
      BY DEF Init, NoReport, Report
    <3> QED
      BY <2>1, <3>1, <3>2 DEF Init, TypeOK
  <2>3. LoopInv /\ TallyInv /\ SoundInv /\ AloneInv /\ UnpackInv
    BY <2>1 DEF LoopInv, TallyInv, SoundInv, AloneInv, UnpackInv, AtPartition,
                AmongManifests, Finished, Failed
  <2> QED
    BY <2>2, <2>3 DEF IInv
<1>2. IInv /\ [Next]_vars => IInv'
  BY InvStep
<1> QED
  BY <1>1, <1>2, PTL DEF Spec

\* The processes, the report and the store keep their types; verify stays in
\* the scope it was asked for, and what passed was checked.
THEOREM TypeCorrect == Spec => []TypeOK
<1>1. IInv => TypeOK
  BY DEF IInv
<1> QED
  BY <1>1, Inductive, PTL

\* PASS can be believed, for all that packs, complete transfers and gcs do
\* beside the verify.
THEOREM PassIsBelieved == Spec => []PassIsSound
<1>1. IInv => PassIsSound
  BY PassMeans DEF IInv, PassIsSound
<1> QED
  BY <1>1, Inductive, PTL

\* A verify that ran alone reports every bad entry of every manifest in scope
\* and, if it wrote nothing, no others.
THEOREM ReportsAllOfIt == Spec => []ReportIsComplete
<1>1. IInv => ReportIsComplete
  <2> SUFFICES ASSUME IInv, Finished, since = "alone"
               PROVE  /\ report.checked = Asked
                      /\ UNION {Bad(m) : m \in Asked} \subseteq report.failures
                      /\ wrote = {} =>
                           report.failures = UNION {Bad(m) : m \in Asked}
    BY DEF ReportIsComplete
  <2> USE DEF IInv
  <2>1. /\ \A m \in Manifest : m \in report.checked <=> Visited(m)
        /\ \A m \in report.checked : FoundAt(m)
        /\ wrote = {} =>
             report.failures \subseteq UNION {Bad(m) : m \in report.checked}
    BY AloneParts
  <2>2. report.checked \subseteq Manifest
    BY DEF TypeOK, Report
  <2>3. v.scope = {}
    BY DEF LoopInv, Finished
  <2>4. report.checked = Asked
    BY <2>1, <2>2, <2>3 DEF Visited, Asked
  <2>5. ASSUME NEW m \in Asked
        PROVE  Bad(m) \subseteq report.failures
    <3>1. m \in Manifest /\ Done(m) = Entries[m]
      BY DEF Asked, Done, Pending, Finished
    <3>2. FoundAt(m)
      BY <2>1, <2>4
    <3> QED
      BY <3>1, <3>2 DEF FoundAt, Bad
  <2> QED
    BY <2>1, <2>4, <2>5
<1> QED
  BY <1>1, Inductive, PTL

\* The counts and the verdict of every report agree.
THEOREM Tally == Spec => []TallyAgrees
<1>1. IInv => TallyAgrees
  <2> SUFFICES ASSUME IInv, Finished
               PROVE  (v.result = "PASS") <=> (report.passed = report.checked)
    BY DEF TallyAgrees
  <2>1. \A m \in report.checked : m \in report.passed <=> ~Failed(m)
    BY DEF IInv, TallyInv, Finished
  <2>2. report.failures = {} <=> \A m \in report.checked : ~Failed(m)
    <3>1. \A m \in Manifest : Failed(m) => m \in report.checked
      BY DEF IInv, TallyInv
    <3>2. \A f \in report.failures :
              \E m \in Manifest, x \in Entry \union {"name"} : f = <<m, x>>
      BY DEF IInv, TypeOK, Report
    <3>3. report.failures # {} => \E m \in Manifest : Failed(m)
      BY <3>2 DEF Failed
    <3>4. report.failures = {} => \A m \in report.checked : ~Failed(m)
      BY DEF Failed
    <3> QED
      BY <3>1, <3>3, <3>4
  <2> QED
    BY <2>1, <2>2 DEF IInv, TallyInv, TypeOK
<1> QED
  BY <1>1, Inductive, PTL

\* A verify that passes has put nothing into the store.
THEOREM WritesNothing == Spec => []PassWritesNothing
<1>1. IInv => PassWritesNothing
  BY DEF IInv, TallyInv, PassWritesNothing
<1> QED
  BY <1>1, Inductive, PTL

\* What verify has vouched for, unpack can read to the end, for all that packs,
\* complete transfers and gcs do; unless a gc swaps its open store.
THEOREM Restores == Spec => []VerifiedUnpacks
<1>1. IInv => VerifiedUnpacks
  BY DEF IInv, UnpackInv, VerifiedUnpacks
<1> QED
  BY <1>1, Inductive, PTL
=============================================================================
