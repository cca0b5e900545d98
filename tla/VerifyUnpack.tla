---------------------------- MODULE VerifyUnpack ----------------------------
(***************************************************************************)
(* The two readers of a store: `verify` (cli/verify.rs), which goes through *)
(* partitions, manifests and entries and makes a report, and `unpack`      *)
(* (cli/unpack.rs), which restores the entries of one manifest.  Around    *)
(* them packs, transfers and gcs run to completion, a gc may die in its    *)
(* swap, a bit may flip in a pack, and the owner changes manifest files.   *)
(*                                                                         *)
(* A read of a block is hash-checked by storage-kit: it gives the right    *)
(* bytes or an error.  When a gc has swapped the directories under an open *)
(* store, a read through the old index may succeed or fail: it depends on  *)
(* whether storage-kit holds the old pack file open.                       *)
(***************************************************************************)
EXTENDS FiniteSets, Naturals

CONSTANTS Hash,       \* content addresses of leaves and list-nodes
          Partition,  \* partitions under the store root
          Manifest,   \* manifests
          Entry,      \* manifest entries
          Home,       \* Home[m]: the partition_id recorded in m
          Entries,    \* Entries[m]: the entries of m
          Tree,       \* Tree[e]: the hashes under e's recorded root
          Rebuilt,    \* Rebuilt[e]: those that chunking e's bytes again, with
                      \* its recorded profile, yields in this release
          None,       \* no <hash> argument
          Args,       \* arguments of verify: its scope, and a <hash> or None
          Bounded     \* bounds: see NoFaultYet and Disturbed

ASSUME ShapeAssumption ==
    /\ Home \in [Manifest -> Partition]
    /\ Entries \in [Manifest -> SUBSET Entry]
    /\ Tree \in [Entry -> SUBSET Hash]
    /\ Rebuilt \in [Entry -> SUBSET Hash]
    /\ None \notin Manifest \union Partition
    /\ Args \subseteq [scope : SUBSET Partition, hash : Manifest \union {None}]
    /\ Bounded \in BOOLEAN

VARIABLES provisioned, \* partitions that have a partition.json
          blocks,      \* blocks[p]: what the packs of p hold
          damaged,     \* damaged[p]: those of them with flipped bits
          manifest,    \* state of each manifest file
          v,           \* the verify process
          report,      \* its VerifyReport
          u,           \* the unpack process
          since,       \* history: what has run since the last verify began
          wrote        \* history: blocks the last verify has put

disk == <<provisioned, blocks, damaged, manifest>>
vars == <<disk, v, report, u, since, wrote>>

\* A file may parse but not hash to its name: with another context, say
\* ("relabelled"), with other recorded lengths ("resized"), or with root
\* hashes that are none ("unhashed").
Parses == {"whole", "relabelled", "resized", "unhashed"}
FileState == Parses \union {"absent", "torn"}

Drifted(e) == Rebuilt[e] # Tree[e]
Needs(m) == UNION {Tree[e] : e \in Entries[m]}
Present(p) == {m \in Manifest : Home[m] = p /\ manifest[m] # "absent"}
Referenced(p) == UNION {Needs(m) : m \in Present(p)}
Intact(p, e) == Tree[e] \subseteq blocks[p] \ damaged[p]

\* What read_fragment_tree may answer to reader r of partition p.
MayRead(r, p, e) == Tree[e] \subseteq r.index /\ (r.stale \/ Intact(p, e))
MayFail(r, p, e) == ~(Tree[e] \subseteq r.index) \/ r.stale \/ ~Intact(p, e)

NoReport == [checked |-> {}, passed |-> {}, failures |-> {}]

\* A process that has ended, with what it was asked and how it ended.
VerifyEnded(asked, wanted, result) ==
    [pc |-> "idle", asked |-> asked, wanted |-> wanted, result |-> result,
     scope |-> {}, at |-> None, index |-> {}, stale |-> FALSE, left |-> {},
     m |-> None, loaded |-> "absent", entries |-> {}, ok |-> TRUE]

UnpackEnded(vouched, result) ==
    [pc |-> "idle", vouched |-> vouched, result |-> result, m |-> None,
     loaded |-> "absent", index |-> {}, stale |-> FALSE, left |-> {}]

Init ==
    /\ provisioned \in (SUBSET Partition) \ {{}}
    /\ blocks = [p \in Partition |-> {}]
    /\ damaged = [p \in Partition |-> {}]
    /\ manifest = [m \in Manifest |-> "absent"]
    /\ v = VerifyEnded({}, None, "none")
    /\ report = NoReport
    /\ u = UnpackEnded(FALSE, "none")
    /\ since = "alone"
    /\ wrote = {}

\* A bound: a reader starts when the other has ended.  Unpack changes nothing
\* in the store, and verify at most adds blocks to it.
ReadersApart == v.pc = "idle" /\ u.pc = "idle"

-----------------------------------------------------------------------------
(* bitchain verify [<hash>] [--partition <p> | --all].                     *)

VerifyStart(scope, wanted) ==
    /\ v.pc = "idle"
    /\ ReadersApart
    /\ v' = [v EXCEPT !.pc = "open", !.asked = scope, !.scope = scope,
                      !.wanted = wanted, !.result = "none"]
    /\ report' = NoReport
    /\ since' = "alone"
    /\ wrote' = {}
    /\ u' = [u EXCEPT !.vouched = FALSE]
    /\ UNCHANGED disk

VerifyOpen(p) ==
    /\ v.pc = "open"
    /\ p \in v.scope \intersect provisioned
    /\ v' = [v EXCEPT !.pc = "packs", !.at = p, !.index = blocks[p],
                      !.stale = FALSE]
    /\ UNCHANGED <<disk, report, u, since, wrote>>

\* verify_all passes; then one manifest is looked up, or all are listed.
VerifyPacks ==
    /\ v.pc = "packs"
    /\ damaged[v.at] \intersect v.index = {}
    /\ v' = [v EXCEPT !.pc = "manifests",
                !.left = {m \in Present(v.at) : v.wanted \in {None, m}}]
    /\ UNCHANGED <<disk, report, u, since, wrote>>

\* Slip: manifests_checked is not counted.
VerifyManifest_Uncounted(m) ==
    /\ v.pc = "manifests"
    /\ m \in v.left
    /\ manifest[m] \in Parses
    /\ v' = [v EXCEPT !.pc = "entries", !.left = @ \ {m}, !.m = m,
                      !.loaded = manifest[m], !.entries = Entries[m],
                      !.ok = (manifest[m] = "whole")]
    /\ UNCHANGED <<disk, report, u, since, wrote>>

\* Slip: the manifest's own hash is not compared with its name.
VerifyManifest_Nameless(m) ==
    /\ v.pc = "manifests"
    /\ m \in v.left
    /\ manifest[m] \in Parses
    /\ v' = [v EXCEPT !.pc = "entries", !.left = @ \ {m}, !.m = m,
                      !.loaded = manifest[m], !.entries = Entries[m],
                      !.ok = TRUE]
    /\ report' = [report EXCEPT !.checked = @ \union {m}]
    /\ UNCHANGED <<disk, u, since, wrote>>

\* The manifest is read and parsed, and its hash compared with its name.
VerifyManifest(m) ==
    /\ v.pc = "manifests"
    /\ m \in v.left
    /\ manifest[m] \in Parses
    /\ v' = [v EXCEPT !.pc = "entries", !.left = @ \ {m}, !.m = m,
                      !.loaded = manifest[m], !.entries = Entries[m],
                      !.ok = (manifest[m] = "whole")]
    /\ report' = [report EXCEPT
          !.checked = @ \union {m},
          !.failures = IF manifest[m] = "whole" THEN @
                       ELSE @ \union {<<m, "name">>}]
    /\ UNCHANGED <<disk, u, since, wrote>>

AtEntry(e) == v.pc = "entries" /\ e \in v.entries

\* Entry e is done with; the index has learnt of the blocks it has put.
EntryEnds(e, good, learnt) ==
    /\ v' = [v EXCEPT !.entries = @ \ {e}, !.index = @ \union learnt,
                      !.ok = @ /\ good]
    /\ report' = IF good THEN report
                 ELSE [report EXCEPT !.failures = @ \union {<<v.m, e>>}]

\* Slip: an entry that cannot be read is passed over.
VerifyUnreadable_Skips(e) ==
    /\ AtEntry(e) /\ v.loaded # "unhashed"
    /\ MayFail(v, v.at, e)
    /\ EntryEnds(e, TRUE, {})
    /\ UNCHANGED <<disk, u, since, wrote>>

\* Slip: the first entry that cannot be read ends its manifest.
VerifyUnreadable_Stops(e) ==
    /\ AtEntry(e) /\ v.loaded # "unhashed"
    /\ MayFail(v, v.at, e)
    /\ v' = [v EXCEPT !.entries = {}, !.ok = FALSE]
    /\ report' = [report EXCEPT !.failures = @ \union {<<v.m, e>>}]
    /\ UNCHANGED <<disk, u, since, wrote>>

VerifyUnreadable(e) ==
    /\ AtEntry(e) /\ v.loaded # "unhashed"
    /\ MayFail(v, v.at, e)
    /\ EntryEnds(e, FALSE, {})
    /\ UNCHANGED <<disk, u, since, wrote>>

VerifyWrongLength(e) ==
    /\ AtEntry(e)
    /\ MayRead(v, v.at, e)
    /\ v.loaded = "resized"
    /\ EntryEnds(e, FALSE, {})
    /\ UNCHANGED <<disk, u, since, wrote>>

AtBytes(e) ==
    /\ AtEntry(e) /\ v.loaded \in {"whole", "relabelled"}
    /\ MayRead(v, v.at, e)

\* What the index lacks of the rebuilt tree.
Fresh(e) == Rebuilt[e] \ v.index

\* build_fragment_tree puts S into the partition, or, after a swap, perhaps
\* into a directory that is gone.
Puts(S) ==
    /\ \/ blocks' = [blocks EXCEPT ![v.at] = @ \union S]
       \/ v.stale /\ UNCHANGED blocks
    /\ wrote' = wrote \union S

\* Slip: the tree that comes out is not compared with the recorded one.
VerifyRechunk_Unnoticed(e) ==
    /\ AtBytes(e)
    /\ Puts(Fresh(e))
    /\ EntryEnds(e, TRUE, Fresh(e))
    /\ UNCHANGED <<provisioned, damaged, manifest, u, since>>

\* Slip: a tree that differs is reported, but `ok` stays true.
VerifyRechunk_KeepsOk(e) ==
    /\ AtBytes(e)
    /\ Puts(Fresh(e))
    /\ v' = [v EXCEPT !.entries = @ \ {e}, !.index = @ \union Fresh(e)]
    /\ report' = IF Drifted(e)
                 THEN [report EXCEPT !.failures = @ \union {<<v.m, e>>}]
                 ELSE report
    /\ UNCHANGED <<provisioned, damaged, manifest, u, since>>

\* The determinism check: chunk the bytes again and compare the trees.
VerifyRechunk(e) ==
    /\ AtBytes(e)
    /\ Puts(Fresh(e))
    /\ EntryEnds(e, ~Drifted(e), Fresh(e))
    /\ UNCHANGED <<provisioned, damaged, manifest, u, since>>

\* A put() of something new fails, after S went well: the disk is full.
VerifyRechunkError(e, S) ==
    /\ AtBytes(e)
    /\ S \subseteq Fresh(e) /\ S # Fresh(e)
    /\ Puts(S)
    /\ EntryEnds(e, FALSE, S)
    /\ UNCHANGED <<provisioned, damaged, manifest, u, since>>

VerifyManifestDone ==
    /\ v.pc = "entries"
    /\ v.entries = {}
    /\ v' = [v EXCEPT !.pc = "manifests", !.m = None, !.loaded = "absent",
                      !.ok = TRUE]
    /\ report' = IF v.ok THEN [report EXCEPT !.passed = @ \union {v.m}]
                 ELSE report
    /\ UNCHANGED <<disk, u, since, wrote>>

VerifyNextPartition ==
    /\ v.pc = "manifests"
    /\ v.left = {}
    /\ v' = [v EXCEPT !.pc = "open", !.scope = @ \ {v.at}, !.at = None,
                      !.index = {}, !.stale = FALSE]
    /\ UNCHANGED <<disk, report, u, since, wrote>>

VerifyFinish ==
    /\ v.pc = "open"
    /\ v.scope = {}
    /\ v' = VerifyEnded(v.asked, v.wanted,
                        IF report.failures = {} THEN "PASS" ELSE "FAIL")
    /\ UNCHANGED <<disk, report, u, since, wrote>>

\* Where a `?` of run ends it without a report.
VerifyError ==
    /\ \/ v.pc = "open" /\ ~(v.scope \subseteq provisioned)
       \/ v.pc = "packs" /\ (v.stale \/ damaged[v.at] \intersect v.index # {})
       \/ v.pc = "manifests" /\ \E m \in v.left : manifest[m] \notin Parses
       \/ v.pc = "entries" /\ v.entries # {} /\ v.loaded = "unhashed"
    /\ v' = VerifyEnded({}, None, "error")
    /\ report' = NoReport
    /\ UNCHANGED <<disk, u, since, wrote>>

-----------------------------------------------------------------------------
(* bitchain unpack <hash or path> <output_path> [--partition <p>].         *)

\* The last verify passed, and m with it.  (u.vouched is a history: so it was
\* when the unpack began, and no gc has swapped its store since.)
Vouched(m) == v.result = "PASS" /\ m \in report.passed

\* The manifest is looked up in the partition named by the caller.
UnpackLoad(m, p) ==
    /\ u.pc = "idle"
    /\ ReadersApart
    /\ Home[m] = p
    /\ manifest[m] \in Parses
    /\ u' = [u EXCEPT !.pc = "open", !.m = m, !.loaded = manifest[m],
                      !.result = "none", !.vouched = Vouched(m)]
    /\ UNCHANGED <<disk, v, report, since, wrote>>

\* An intact copy of the manifest that the caller has on hand is given as a
\* path: what became of the file in the store does not matter.
UnpackPath(m) ==
    /\ u.pc = "idle"
    /\ ReadersApart
    /\ u' = [u EXCEPT !.pc = "open", !.m = m, !.loaded = "whole",
                      !.result = "none", !.vouched = Vouched(m)]
    /\ UNCHANGED <<disk, v, report, since, wrote>>

\* It is not there, or does not parse.
UnpackNoManifest(m, p) ==
    /\ u.pc = "idle"
    /\ ReadersApart
    /\ Home[m] = p => manifest[m] \notin Parses
    /\ u' = UnpackEnded(Home[m] = p /\ Vouched(m), "unreadable")
    /\ UNCHANGED <<disk, v, report, since, wrote>>

\* The store of the partition the manifest records is opened.
UnpackOpen ==
    /\ u.pc = "open"
    /\ Home[u.m] \in provisioned
    /\ u' = [u EXCEPT !.pc = "entries", !.index = blocks[Home[u.m]],
                      !.stale = FALSE, !.left = Entries[u.m]]
    /\ UNCHANGED <<disk, v, report, since, wrote>>

\* The next entry is e, and it is read and has the recorded length.
UnpackReads(e) ==
    /\ u.pc = "entries" /\ e \in u.left
    /\ MayRead(u, Home[u.m], e)
    /\ u.loaded \notin {"resized", "unhashed"}

\* Its file is written.
UnpackEntry(e) ==
    /\ UnpackReads(e)
    /\ u' = [u EXCEPT !.left = @ \ {e}]
    /\ UNCHANGED <<disk, v, report, since, wrote>>

\* Or it cannot be: create_dir_all of the output directory, before the first
\* entry, or of the file's parent, or write fails.  RoundTrip has an output
\* directory and tells when.
UnpackCannotWrite ==
    /\ \/ u.pc = "entries" /\ u.left = Entries[u.m]
       \/ \E e \in Entry : UnpackReads(e)
    /\ u' = UnpackEnded(u.vouched, "unwritable")
    /\ UNCHANGED <<disk, v, report, since, wrote>>

UnpackDone ==
    /\ u.pc = "entries"
    /\ u.left = {}
    /\ u' = UnpackEnded(u.vouched, "restored")
    /\ UNCHANGED <<disk, v, report, since, wrote>>

\* The first entry that cannot be read, or has another length, ends it; the
\* files written so far stay.
UnpackError ==
    /\ \/ u.pc = "open" /\ Home[u.m] \notin provisioned
       \/ /\ u.pc = "entries"
          /\ \E e \in u.left :
                \/ u.loaded \in {"resized", "unhashed"}
                \/ MayFail(u, Home[u.m], e)
    /\ u' = UnpackEnded(u.vouched, "unreadable")
    /\ UNCHANGED <<disk, v, report, since, wrote>>

-----------------------------------------------------------------------------
(* What else happens to the store.                                         *)

\* A command that keeps what verify vouches for.
Shared ==
    /\ since' = IF since = "alone" THEN "shared" ELSE since
    /\ UNCHANGED <<report, wrote>>

\* An event that need not: the verdict of a verify that is over is forgotten.
\* Bounded: none happens while a reader runs if one already has since the
\* last verify began.
Disturbed(verify) ==
    /\ Bounded => ReadersApart \/ since # "disturbed"
    /\ since' = "disturbed"
    /\ v' = IF v.pc = "idle" THEN VerifyEnded({}, None, "none") ELSE verify
    /\ report' = IF v.pc = "idle" THEN NoReport ELSE report
    /\ wrote' = IF v.pc = "idle" THEN {} ELSE wrote

\* Readers that have partition p open read through an old index from now on.
OutdatedVerify(p) == [v EXCEPT !.stale = @ \/ (v.at = p)]
OutdatedUnpack(p) ==
    LET under == u.pc = "entries" /\ Home[u.m] = p
    IN  [u EXCEPT !.stale = @ \/ under, !.vouched = @ /\ ~under]

\* A completed pack, or a transfer: with --pack it brings only some blocks.
Arrive(m, S) ==
    /\ manifest[m] = "absent"
    /\ S \subseteq Needs(m)
    /\ blocks' = [blocks EXCEPT ![Home[m]] = @ \union S]
    /\ manifest' = [manifest EXCEPT ![m] = "whole"]
    /\ IF S = Needs(m) THEN Shared /\ UNCHANGED v ELSE Disturbed(v)
    /\ UNCHANGED <<provisioned, damaged, u>>

\* What gc needs to get to its swap.
Collectable(p) ==
    /\ p \in provisioned
    /\ \A m \in Present(p) : manifest[m] \in Parses \ {"unhashed"}
    /\ Referenced(p) \subseteq blocks[p]

\* A completed gc.
Gc(p) ==
    /\ Collectable(p)
    /\ blocks' = [blocks EXCEPT ![p] = Referenced(p)]
    /\ damaged' = [damaged EXCEPT ![p] = @ \intersect Referenced(p)]
    /\ v' = OutdatedVerify(p)
    /\ u' = OutdatedUnpack(p)
    /\ Shared
    /\ UNCHANGED <<provisioned, manifest>>

\* A gc that dies when it has moved packs/ aside.
GcDies(p) ==
    /\ Collectable(p)
    /\ blocks' = [blocks EXCEPT ![p] = {}]
    /\ damaged' = [damaged EXCEPT ![p] = {}]
    /\ u' = OutdatedUnpack(p)
    /\ Disturbed(OutdatedVerify(p))
    /\ UNCHANGED <<provisioned, manifest>>

\* Bounded: at most one block or one manifest file is bad at a time (any
\* number of blocks can be missing).
NoFaultYet ==
    /\ \A p \in Partition : damaged[p] = {}
    /\ \A m \in Manifest : manifest[m] \in {"whole", "absent"}

\* A bit flips in a pack.
Damage(p, h) ==
    /\ Bounded => NoFaultYet
    /\ h \in blocks[p]
    /\ damaged' = [damaged EXCEPT ![p] = @ \union {h}]
    /\ Disturbed(v)
    /\ UNCHANGED <<provisioned, blocks, manifest, u>>

\* A manifest file is deleted, edited or cut short.
Alter(m, how) ==
    /\ manifest[m] # "absent"
    /\ Bounded /\ how # "absent" => NoFaultYet
    /\ manifest' = [manifest EXCEPT ![m] = how]
    /\ Disturbed(v)
    /\ UNCHANGED <<provisioned, blocks, damaged, u>>

-----------------------------------------------------------------------------

VerifyNext ==
    \/ \E a \in Args : VerifyStart(a.scope, a.hash)
    \/ \E p \in Partition : VerifyOpen(p)
    \/ VerifyPacks
    \/ \E m \in Manifest : VerifyManifest(m)
    \/ \E e \in Entry : VerifyUnreadable(e)
    \/ \E e \in Entry : VerifyWrongLength(e)
    \/ \E e \in Entry : VerifyRechunk(e)
    \/ \E e \in Entry, S \in SUBSET Hash : VerifyRechunkError(e, S)
    \/ VerifyManifestDone
    \/ VerifyNextPartition
    \/ VerifyFinish
    \/ VerifyError

UnpackNext ==
    \/ \E m \in Manifest, p \in Partition : UnpackLoad(m, p)
    \/ \E m \in Manifest : UnpackPath(m)
    \/ \E m \in Manifest, p \in Partition : UnpackNoManifest(m, p)
    \/ UnpackOpen
    \/ \E e \in Entry : UnpackEntry(e)
    \/ UnpackCannotWrite
    \/ UnpackDone
    \/ UnpackError

StoreNext ==
    \/ \E m \in Manifest, S \in SUBSET Hash : Arrive(m, S)
    \/ \E p \in Partition : Gc(p)
    \/ \E p \in Partition : GcDies(p)
    \/ \E p \in Partition, h \in Hash : Damage(p, h)
    \/ \E m \in Manifest, how \in FileState \ {"whole"} : Alter(m, how)

Next == VerifyNext \/ UnpackNext \/ StoreNext

Spec == Init /\ [][Next]_vars

-----------------------------------------------------------------------------
(* Properties.                                                             *)

Verdict == {"PASS", "FAIL"}
Finished == v.pc = "idle" /\ v.result \in Verdict

VerifyProcess ==
    [pc : {"idle", "open", "packs", "manifests", "entries"},
     asked : SUBSET Partition, wanted : Manifest \union {None},
     result : Verdict \union {"none", "error"},
     scope : SUBSET Partition, at : Partition \union {None},
     index : SUBSET Hash, stale : BOOLEAN, left : SUBSET Manifest,
     m : Manifest \union {None}, loaded : FileState,
     entries : SUBSET Entry, ok : BOOLEAN]

Report ==
    [checked : SUBSET Manifest, passed : SUBSET Manifest,
     failures : SUBSET (Manifest \X (Entry \union {"name"}))]

UnpackProcess ==
    [pc : {"idle", "open", "entries"}, vouched : BOOLEAN,
     result : {"none", "restored", "unreadable", "unwritable"}, m : Manifest \union {None},
     loaded : FileState, index : SUBSET Hash, stale : BOOLEAN,
     left : SUBSET Entry]

\* Damaged blocks are on disk, verify is in the scope it was asked for, and
\* what the report says has passed was checked.
TypeOK ==
    /\ provisioned \subseteq Partition
    /\ blocks \in [Partition -> SUBSET Hash]
    /\ damaged \in [Partition -> SUBSET Hash]
    /\ \A p \in Partition : damaged[p] \subseteq blocks[p]
    /\ manifest \in [Manifest -> FileState]
    /\ v \in VerifyProcess
    /\ v.scope \subseteq v.asked
    /\ report \in Report
    /\ report.passed \subseteq report.checked
    /\ u \in UnpackProcess
    /\ since \in {"alone", "shared", "disturbed"}
    /\ wrote \subseteq Hash

\* PASS can be believed, even if packs, complete transfers and gcs ran
\* during the verify: each manifest it checked hashes to its name and all
\* its entries are in the store, undamaged.
PassIsSound ==
    (Finished /\ v.result = "PASS" /\ since # "disturbed") =>
        \A m \in report.checked :
            /\ manifest[m] = "whole"
            /\ \A e \in Entries[m] : Intact(Home[m], e)

\* What a verify that ran alone should have reported.
Asked == {m \in Manifest :
            /\ Home[m] \in v.asked /\ v.wanted \in {None, m}
            /\ manifest[m] # "absent"}

Bad(m) ==
    {<<m, "name">> : x \in {manifest[m]} \ {"whole"}} \union
    {<<m, e>> : e \in {e \in Entries[m] :
        manifest[m] = "resized" \/ Drifted(e) \/ ~Intact(Home[m], e)}}

\* The check of the manifests is no fail-fast one: a verify that ran alone
\* and ends with a verdict has looked at every manifest in scope and reports
\* every bad entry of each; and without drift it raises no false alarm.
ReportIsComplete ==
    (Finished /\ since = "alone") =>
        /\ report.checked = Asked
        /\ UNION {Bad(m) : m \in Asked} \subseteq report.failures
        /\ wrote = {} => report.failures = UNION {Bad(m) : m \in Asked}

\* The counts and the verdict of the report agree.
TallyAgrees ==
    Finished => (v.result = "PASS") = (report.passed = report.checked)

\* A verify that passes has written nothing: the put()s of the determinism
\* check are no-ops then, whatever runs beside it.
PassWritesNothing == (Finished /\ v.result = "PASS") => wrote = {}

\* What verify has vouched for, unpack can read to the end, by hash or from a
\* copy of the manifest, though packs, complete transfers and gcs run in
\* between; unless a gc swaps the directories under the store it has open.
\* Whether it can also write it is up to the output directory.
VerifiedUnpacks ==
    (u.vouched /\ since # "disturbed") => u.result # "unreadable"

-----------------------------------------------------------------------------
(* The inductive invariant.                                                *)

AtPartition == v.pc \in {"packs", "manifests", "entries"}
AmongManifests == v.pc \in {"manifests", "entries"}

\* The entries of m that verify has not come to yet, if it is at m.
Pending(m) == IF v.pc = "entries" /\ v.m = m THEN v.entries ELSE {}

Failed(m) == \E x \in Entry \union {"name"} : <<m, x>> \in report.failures

\* No partition and no manifest is gone through twice.
LoopInv ==
    /\ v.pc = "idle" => v.scope = {}
    /\ AtPartition => v.at \in v.scope \intersect provisioned
    /\ AmongManifests => \A m \in v.left :
         Home[m] = v.at /\ v.wanted \in {None, m} /\ m \notin report.checked
    /\ v.pc = "entries" =>
         /\ v.m \in report.checked \ report.passed
         /\ Home[v.m] = v.at
         /\ v.entries \subseteq Entries[v.m]
         /\ v.loaded \in Parses
    /\ \A m \in report.checked :
         /\ Home[m] \in provisioned
         /\ Home[m] \in v.scope => AmongManifests /\ Home[m] = v.at
    /\ u.pc # "idle" => u.m \in Manifest

\* A manifest that verify is done with has passed or has a failure, and what
\* verify put into the store shows as a failure.
TallyInv ==
    /\ \A m \in Manifest : Failed(m) => m \in report.checked
    /\ \A m \in report.checked :
         ~(v.pc = "entries" /\ m = v.m) => (m \in report.passed <=> ~Failed(m))
    /\ v.pc = "entries" => (v.ok <=> ~Failed(v.m))
    /\ Finished => (v.result = "PASS" <=> report.failures = {})
    /\ v.pc # "idle" \/ Finished => (report.failures = {} => wrote = {})

\* What verify has checked without a failure is in the store, undamaged,
\* while only packs, complete transfers and gcs run beside it: a gc keeps it,
\* and after a gc the store has all that the manifests need.
SoundInv ==
    since # "disturbed" =>
        /\ v.pc = "packs" => damaged[v.at] \subseteq v.index
        /\ AmongManifests => damaged[v.at] = {}
        /\ AtPartition /\ v.stale =>
             \A m \in Present(v.at) : Needs(m) \subseteq blocks[v.at]
        /\ v.pc = "entries" => v.loaded = manifest[v.m]
        /\ \A m \in report.checked :
             /\ manifest[m] # "absent"
             /\ <<m, "name">> \notin report.failures => manifest[m] = "whole"
             /\ \A e \in Entries[m] \ Pending(m) :
                  <<m, e>> \notin report.failures => Intact(Home[m], e)

\* A verify that runs alone sees the disk as it is: it has checked the
\* manifests it came by, and knows what is bad of them.
AloneInv ==
    since = "alone" /\ (v.pc # "idle" \/ Finished) =>
        /\ AtPartition => ~v.stale /\ v.index = blocks[v.at]
        /\ \A m \in Manifest :
             m \in report.checked <=>
                 /\ m \in Asked
                 /\ Home[m] \in v.scope =>
                      AmongManifests /\ Home[m] = v.at /\ m \notin v.left
        /\ \A m \in report.checked :
             /\ manifest[m] # "whole" => <<m, "name">> \in report.failures
             /\ \A e \in Entries[m] \ Pending(m) :
                  <<m, e>> \in Bad(m) => <<m, e>> \in report.failures
        /\ wrote = {} =>
             report.failures \subseteq UNION {Bad(m) : m \in report.checked}

\* An unpack of what was verified finds what verify has found.
UnpackInv ==
    u.vouched /\ since # "disturbed" =>
        /\ v.pc = "idle" /\ v.result = "PASS"
        /\ u.result # "unreadable"
        /\ u.pc # "idle" => u.m \in report.checked /\ u.loaded = "whole"
        /\ u.pc = "entries" =>
             /\ ~u.stale /\ Needs(u.m) \subseteq u.index
             /\ u.left \subseteq Entries[u.m]

IInv ==
    /\ TypeOK /\ LoopInv /\ TallyInv
    /\ SoundInv /\ AloneInv /\ UnpackInv

-----------------------------------------------------------------------------
(* What the repository's documents say of verify; the code differs.        *)

\* "With a <hash>: resolve it to a manifest (same lookup unpack uses)": a
\* verify of a hash that passes has checked that manifest.
PassChecksTheHash ==
    (Finished /\ v.result = "PASS" /\ v.wanted # None) =>
        v.wanted \in report.checked
=============================================================================
