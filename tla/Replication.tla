----------------------------- MODULE Replication -----------------------------
(***************************************************************************)
(* `push` and `pull` of one partition: cli/transfer.rs copies the sealed   *)
(* packs of a source store into a destination store, then its manifests,   *)
(* file by file, in place, with no lock on either side.  Around it the     *)
(* source is packed and collected, manifests are deleted on both sides,    *)
(* the destination is provisioned, collected and written by a transfer     *)
(* from another store, and the copy may die.                               *)
(*                                                                         *)
(* A pack is the set of blocks in it (its id is a hash of its content).    *)
(* The .pack file and the .idx file copied right after it are one file     *)
(* here, which is cut short when either is.                                *)
(***************************************************************************)
EXTENDS Naturals, FiniteSets

CONSTANTS Hash,      \* content addresses
          Manifest,  \* manifests
          Blocks     \* Blocks[m]: the set of hashes in m's fragment trees

ASSUME BlocksAssumption == Blocks \in [Manifest -> SUBSET Hash]

Pack == (SUBSET Hash) \ {{}}

VARIABLES srcPacks,      \* sealed packs of the source
          srcManifests,  \* manifests of the source
          record,        \* does the destination have a partition.json
          packFile,      \* the destination's file of each pack
          manifestFile,  \* the destination's file of each manifest
          phase,         \* where the transfer is
          packsLeft,     \* packs it listed and has not begun to copy
          manifestsLeft, \* manifests it listed and has not begun to copy
          outcome,       \* how the last transfer ended
          promised       \* history: the packs that transfers copied, or have
                         \* still to copy, since another command last ran

source == <<srcPacks, srcManifests>>
files == <<packFile, manifestFile>>
transfer == <<phase, packsLeft, manifestsLeft, outcome>>
vars == <<source, record, files, transfer, promised>>

\* A file is absent or whole, or fs::copy, which truncates it first, is
\* filling it, or a copy that died left it cut short.
FileState == {"absent", "whole", "copying", "torn"}

Ended(s) == IF s = "copying" THEN "whole" ELSE s
Died(s) == IF s = "copying" THEN "torn" ELSE s

NothingCopying ==
    /\ \A k \in Pack : packFile[k] # "copying"
    /\ \A m \in Manifest : manifestFile[m] # "copying"

Kept(M) == UNION {Blocks[m] : m \in M}
Served == UNION {k \in Pack : packFile[k] = "whole"}
Present == {m \in Manifest : manifestFile[m] # "absent"}
Whole == {m \in Manifest : manifestFile[m] = "whole"}

Init ==
    /\ srcPacks = {} /\ srcManifests = {}
    /\ record \in BOOLEAN
    /\ packFile = [k \in Pack |-> "absent"]
    /\ manifestFile = [m \in Manifest |-> "absent"]
    /\ phase = "idle"
    /\ packsLeft = {} /\ manifestsLeft = {}
    /\ outcome = "none"
    /\ promised = {}

-----------------------------------------------------------------------------
(* push / pull.                                                            *)

\* copy_packs lists the source's packs, shard by shard (see Relisted); --pack
\* keeps only the named ones.
Start(only) ==
    /\ phase = "idle"
    /\ phase' = "packs"
    /\ packsLeft' = IF only = {} THEN srcPacks ELSE srcPacks \intersect only
    /\ promised' = promised \union packsLeft'
    /\ outcome' = "none"
    /\ UNCHANGED <<source, record, files, manifestsLeft>>

\* Slip: a pack file that already exists, even cut short, is skipped.
CopyPack_SkipsExisting(k) ==
    /\ phase = "packs"
    /\ NothingCopying
    /\ k \in packsLeft \intersect srcPacks
    /\ packFile' = [packFile EXCEPT ![k] = IF @ = "absent" THEN "copying" ELSE @]
    /\ packsLeft' = packsLeft \ {k}
    /\ UNCHANGED <<source, record, manifestFile, phase, manifestsLeft,
                   outcome, promised>>

\* fs::copy opens the destination for writing and truncates it.
CopyPack(k) ==
    /\ phase = "packs"
    /\ NothingCopying
    /\ k \in packsLeft \intersect srcPacks
    /\ packFile' = [packFile EXCEPT ![k] = "copying"]
    /\ packsLeft' = packsLeft \ {k}
    /\ UNCHANGED <<source, record, manifestFile, phase, manifestsLeft,
                   outcome, promised>>

\* Slip: the manifests are copied while packs are still missing.
ListManifests_Early ==
    /\ phase = "packs"
    /\ NothingCopying
    /\ phase' = "manifests"
    /\ manifestsLeft' = srcManifests
    /\ UNCHANGED <<source, record, files, packsLeft, outcome, promised>>

\* copy_manifests lists the manifests only when the packs are done.
ListManifests ==
    /\ phase = "packs"
    /\ NothingCopying
    /\ packsLeft = {}
    /\ phase' = "manifests"
    /\ manifestsLeft' = srcManifests
    /\ UNCHANGED <<source, record, files, packsLeft, outcome, promised>>

CopyManifest(m) ==
    /\ phase = "manifests"
    /\ NothingCopying
    /\ m \in manifestsLeft \intersect srcManifests
    /\ manifestFile' = [manifestFile EXCEPT ![m] = "copying"]
    /\ manifestsLeft' = manifestsLeft \ {m}
    /\ UNCHANGED <<source, record, packFile, phase, packsLeft, outcome, promised>>

\* The last byte of the file that is being copied is written.
EndCopy ==
    /\ ~NothingCopying
    /\ packFile' = [k \in Pack |-> Ended(packFile[k])]
    /\ manifestFile' = [m \in Manifest |-> Ended(manifestFile[m])]
    /\ UNCHANGED <<source, record, transfer, promised>>

Finish ==
    /\ phase = "manifests"
    /\ NothingCopying
    /\ manifestsLeft = {}
    /\ phase' = "idle"
    /\ outcome' = "copied"
    /\ UNCHANGED <<source, record, files, packsLeft, manifestsLeft, promised>>

\* A kill or an I/O error, among them a listed file that is gone (`?`).
Crash ==
    /\ phase # "idle"
    /\ phase' = "idle"
    /\ packFile' = [k \in Pack |-> Died(packFile[k])]
    /\ manifestFile' = [m \in Manifest |-> Died(manifestFile[m])]
    /\ packsLeft' = {} /\ manifestsLeft' = {}
    /\ outcome' = "failed"
    /\ promised' = promised \ (packsLeft \union
                               {k \in Pack : packFile[k] = "copying"})
    /\ UNCHANGED <<source, record>>

-----------------------------------------------------------------------------
(* Other commands, on either side, at any time.                            *)

Disturb == promised' = {}

\* A directory is read while its files are copied: of what is left of a
\* listing, it may miss what goes, and it may meet what comes.
Met(left, before, after) ==
    {L \in SUBSET (left \union (after \ before)) : left \intersect after \subseteq L}

\* What a change of the source does to a listing under way.
Relisted ==
    /\ packsLeft' \in IF phase = "packs"
                      THEN Met(packsLeft, srcPacks, srcPacks')
                      ELSE {packsLeft}
    /\ manifestsLeft' \in IF phase = "manifests"
                          THEN Met(manifestsLeft, srcManifests, srcManifests')
                          ELSE {manifestsLeft}
    /\ UNCHANGED <<phase, outcome>>

\* Slip: a pack that had nothing to put seals an empty pack.
SrcPack_SealsEmpty(m) ==
    /\ srcPacks' = srcPacks \union {Blocks[m] \ UNION srcPacks}
    /\ srcManifests' = srcManifests \union {m}
    /\ Disturb
    /\ UNCHANGED <<record, files>>
    /\ Relisted

\* `pack` on the source seals what the store lacks, then adds a manifest.
SrcPack(m) ==
    /\ LET fresh == Blocks[m] \ UNION srcPacks
       IN  srcPacks' = srcPacks \union ({fresh} \ {{}})
    /\ srcManifests' = srcManifests \union {m}
    /\ Disturb
    /\ UNCHANGED <<record, files>>
    /\ Relisted

SrcForget(m) ==
    /\ m \in srcManifests
    /\ srcManifests' = srcManifests \ {m}
    /\ Disturb
    /\ UNCHANGED <<srcPacks, record, files>>
    /\ Relisted

\* A completed gc of the source: its packs are replaced by a live one.
SrcGc ==
    /\ srcPacks' = {Kept(srcManifests)} \ {{}}
    /\ Disturb
    /\ UNCHANGED <<srcManifests, record, files>>
    /\ Relisted

\* `init` of the partition in the destination store.
DstInit ==
    /\ ~record
    /\ record' = TRUE
    /\ Disturb
    /\ UNCHANGED <<source, files, transfer>>

DstForget(m) ==
    /\ manifestFile[m] # "absent"
    /\ manifestFile' = [manifestFile EXCEPT ![m] = "absent"]
    /\ Disturb
    /\ UNCHANGED <<source, record, packFile, transfer>>

\* A completed gc of the destination: it opens the partition, parses every
\* manifest and reads every live block, or it fails and changes nothing.
DstGc ==
    /\ record
    /\ Present = Whole
    /\ Kept(Whole) \subseteq Served
    /\ packFile' = [k \in Pack |-> IF k = Kept(Whole) THEN "whole" ELSE "absent"]
    /\ Disturb
    /\ UNCHANGED <<source, record, manifestFile, transfer>>

\* Another transfer into the same partition, from any store, truncates a
\* file, perhaps the one being copied, and fills it, dies, or is not done yet.
RivalPack(k, s) ==
    /\ packFile' = [packFile EXCEPT ![k] = s]
    /\ Disturb
    /\ UNCHANGED <<source, record, manifestFile, transfer>>

RivalManifest(m, s) ==
    /\ manifestFile' = [manifestFile EXCEPT ![m] = s]
    /\ Disturb
    /\ UNCHANGED <<source, record, packFile, transfer>>

-----------------------------------------------------------------------------

Next ==
    \/ \E only \in SUBSET srcPacks : Start(only)
    \/ \E k \in Pack : CopyPack(k)
    \/ ListManifests
    \/ \E m \in Manifest : CopyManifest(m)
    \/ EndCopy
    \/ Finish
    \/ Crash
    \/ \E m \in Manifest : SrcPack(m) \/ SrcForget(m) \/ DstForget(m)
    \/ SrcGc
    \/ DstInit
    \/ DstGc
    \/ \E s \in {"whole", "torn"} :
        \/ \E k \in Pack : RivalPack(k, s)
        \/ \E m \in Manifest : RivalManifest(m, s)

Spec == Init /\ [][Next]_vars

-----------------------------------------------------------------------------
(* Properties.                                                             *)

TypeOK ==
    /\ srcPacks \subseteq Pack
    /\ srcManifests \subseteq Manifest
    /\ record \in BOOLEAN
    /\ packFile \in [Pack -> FileState]
    /\ manifestFile \in [Manifest -> FileState]
    /\ phase \in {"idle", "packs", "manifests"}
    /\ packsLeft \subseteq Pack
    /\ manifestsLeft \subseteq Manifest
    /\ outcome \in {"none", "copied", "failed"}
    /\ promised \subseteq Pack

\* The transfers that were made since another command last ran, with
\* whatever --pack, cover all packs of the source.  (A source without packs
\* has no manifests.)
Complete == srcPacks # {} /\ srcPacks \subseteq promised

\* Packs go before manifests: when in such a transfer a manifest file becomes
\* whole at the destination, so are all its packs, whatever earlier
\* transfers were filtered, cut short, disturbed or overlapped.
ManifestsComeLast ==
    [][\A m \in Manifest :
        (Complete /\ manifestFile[m] = "copying" /\ manifestFile'[m] = "whole")
            => Blocks[m] \subseteq Served']_vars

\* Retrying until each pack went through undisturbed, in one transfer or in
\* several filtered ones, repairs all the damage of earlier transfers and of
\* rivals: when the last of them ends, each manifest of the source is whole
\* at the destination and each of its blocks is in a whole pack there.
TransferMirrors ==
    [][(Complete /\ outcome # "copied" /\ outcome' = "copied")
        => /\ srcManifests \subseteq Whole
           /\ Kept(srcManifests) \subseteq Served]_vars

-----------------------------------------------------------------------------
(* The inductive invariant.                                                *)

\* Only the transfer copies: packs, then manifests; what it listed is copied
\* before it goes on.
PhaseInv ==
    /\ phase = "idle" => packsLeft = {} /\ manifestsLeft = {} /\ NothingCopying
    /\ phase = "packs" =>
         manifestsLeft = {} /\ \A m \in Manifest : manifestFile[m] # "copying"
    /\ phase = "manifests" =>
         packsLeft = {} /\ \A k \in Pack : packFile[k] # "copying"

\* A promised pack is at the destination, or on its way.
PromiseInv ==
    \A k \in promised : k \in packsLeft \/ packFile[k] \in {"copying", "whole"}

\* The packs of the source have the blocks of its manifests.
SourceInv == Kept(srcManifests) \subseteq UNION srcPacks

\* While promised covers the source, its manifests are those that were
\* listed: each is left, on its way, or there, and no other is on its way.
ListingInv ==
    phase = "manifests" /\ Complete =>
        /\ \A m \in srcManifests :
              m \in manifestsLeft \/ manifestFile[m] \in {"copying", "whole"}
        /\ \A m \in Manifest : manifestFile[m] = "copying" => m \in srcManifests

IInv == TypeOK /\ PhaseInv /\ PromiseInv /\ SourceInv /\ ListingInv

-----------------------------------------------------------------------------
(* What the repository's documents say of push and pull; the code differs. *)

\* "so a `pull`ed store can resolve `unpack <hash>` the same way the source
\* could": a destination that a transfer went through to, and that has a
\* manifest with all its blocks, has the partition record unpack needs to
\* open the partition.
PulledStoreUnpacks ==
    (phase = "idle" /\ Complete /\ outcome = "copied"
        /\ \E m \in Whole : Blocks[m] \subseteq Served)
            => record
=============================================================================
