----------------------------- MODULE PartitionGc -----------------------------
(***************************************************************************)
(* One partition of a bitchain store and the two commands that rewrite it: *)
(* `pack` (cli/pack.rs) and `gc` (cli/gc.rs, gc.rs).  The state is the     *)
(* partition's directory tree and, per running command, its program        *)
(* counter and its memory.  One action is one step of the code between two *)
(* accesses to the disk that another command, or a crash, can come between. *)
(*                                                                         *)
(* A block is its hash; a directory is the set of blocks its packs hold,   *)
(* and a missing directory is an empty one.  PartitionStore (storage-kit)  *)
(* is modelled from its use here: open() reads an index of the blocks on   *)
(* disk, put() appends what the index lacks to the active pack,            *)
(* seal_active() moves the active pack into packs/, get_raw() needs the    *)
(* block both in the index and on disk.                                    *)
(***************************************************************************)
EXTENDS Naturals, FiniteSets

CONSTANTS Hash,      \* content addresses of leaves and list-nodes
          Manifest,  \* manifests that `pack` may write
          Blocks,    \* Blocks[m]: every hash walk_hashes collects for m
          Lists,     \* Lists[m]: those it must read (list-nodes, not leaves)
          PackProc,  \* processes that run `bitchain pack`
          GcProc,    \* processes that run `bitchain gc`
          Target,    \* Target[g]: the --target-utilization of g, in percent
          Isolation  \* which commands may run at the same time, see MayOpen

Proc == PackProc \union GcProc

ASSUME StoreAssumption ==
    /\ IsFiniteSet(Hash)
    /\ Manifest # {}
    /\ Blocks \in [Manifest -> SUBSET Hash]
    /\ Lists \in [Manifest -> SUBSET Hash]
    /\ \A m \in Manifest : Lists[m] \subseteq Blocks[m]

ASSUME ProcAssumption ==
    /\ PackProc \intersect GcProc = {}
    /\ Target \in [GcProc -> Nat]
    /\ Isolation \in {"command", "none"}

VARIABLES files,     \* the directories of the partition and its staging copy
          manifests, \* manifests[m]: is m.json absent, whole, or unreadable
          pc,        \* where each process is in its command
          man,       \* the manifest a pack process builds
          index,     \* the in-memory index of the store a process opened
          todo,      \* blocks a process has still to put or to copy
          live,      \* the live set a gc process marked
          outcome    \* how the last command of a process ended

memory == <<index, todo, live>>
vars == <<files, manifests, pc, man, memory, outcome>>

Dir == {"packs", "active", "packs.pre-gc", "active.pre-gc",
        "staged packs", "staged active"}

Swap == {"movePacks", "moveActive", "placePacks", "placeActive", "cleanup"}
PC == {"idle", "put", "manifest",
       "open", "mark", "stage", "copy", "clear"} \union Swap

\* The blocks PartitionStore can serve: sealed packs and the active pack.
Store == files["packs"] \union files["active"]

Whole == {m \in Manifest : manifests[m] = "whole"}
Present == {m \in Manifest : manifests[m] # "absent"}
Referenced == UNION {Blocks[m] : m \in Whole}

Init ==
    /\ files = [d \in Dir |-> {}]
    /\ manifests = [m \in Manifest |-> "absent"]
    /\ pc = [p \in Proc |-> "idle"]
    /\ man = [p \in PackProc |-> CHOOSE m \in Manifest : TRUE]
    /\ index = [p \in Proc |-> {}]
    /\ todo = [p \in Proc |-> {}]
    /\ live = [g \in GcProc |-> {}]
    /\ outcome = [p \in Proc |-> "none"]

-----------------------------------------------------------------------------
(* Steps every command shares.                                             *)

Goto(p, label) == pc' = [pc EXCEPT ![p] = label]

\* The command ends: its process and all it had in memory are gone.
Exit(p, result) ==
    /\ Goto(p, "idle")
    /\ outcome' = [outcome EXCEPT ![p] = result]
    /\ index' = [index EXCEPT ![p] = {}]
    /\ todo' = [todo EXCEPT ![p] = {}]
    /\ live' = [g \in GcProc |-> IF g = p THEN {} ELSE live[g]]
    /\ UNCHANGED man

\* The code takes no lock.  "command": the operator runs one command at a
\* time.  "none": whoever opens the store may, whatever else has it open.
MayOpen(p) ==
    Isolation = "command" => \A q \in Proc \ {p} : pc[q] = "idle"

Sealed == [files EXCEPT !["packs"] = Store, !["active"] = {}]

\* fs::rename of a directory: fails if the target exists and is not empty.
CanRename(dst) == files[dst] = {}
Renamed(src, dst) == [files EXCEPT ![dst] = files[src], ![src] = {}]

\* Slip: the source is removed where it should be renamed.
MoveAside_Deletes(src, dst) ==
    files' = [files EXCEPT ![src] = {}]

\* `if src.exists() { fs::rename(src, dst)? }`
MoveAside(src, dst) ==
    \/ files[src] = {} /\ UNCHANGED files
    \/ files[src] # {} /\ CanRename(dst) /\ files' = Renamed(src, dst)

\* `fs::remove_dir_all(dir).ok()` of both backups: on an error, which is
\* ignored, or when the process dies in it, any part of them is left.
RemoveBackups(rest) ==
    \E a \in SUBSET files["packs.pre-gc"], b \in SUBSET files["active.pre-gc"] :
        files' = [d \in Dir |-> CASE d = "packs.pre-gc" -> a
                                  [] d = "active.pre-gc" -> b
                                  [] OTHER -> rest[d]]

-----------------------------------------------------------------------------
(* bitchain pack: ingest a tree, seal, write the manifest.                 *)

PackOpen(p, m) ==
    /\ pc[p] = "idle"
    /\ MayOpen(p)
    /\ Goto(p, "put")
    /\ man' = [man EXCEPT ![p] = m]
    /\ index' = [index EXCEPT ![p] = Store]
    /\ todo' = [todo EXCEPT ![p] = Blocks[m]]
    /\ UNCHANGED <<files, manifests, live, outcome>>

\* build_fragment_tree puts one node; put() skips what the index has.
PackPut(p, h) ==
    /\ pc[p] = "put"
    /\ h \in todo[p]
    /\ files' = IF h \in index[p] THEN files
                ELSE [files EXCEPT !["active"] = @ \union {h}]
    /\ index' = [index EXCEPT ![p] = @ \union {h}]
    /\ todo' = [todo EXCEPT ![p] = @ \ {h}]
    /\ UNCHANGED <<manifests, pc, man, live, outcome>>

\* Slip: the tree is sealed and published before all of it is put.
PackSeal_Early(p) ==
    /\ pc[p] = "put"
    /\ files' = Sealed
    /\ Goto(p, "manifest")
    /\ UNCHANGED <<manifests, man, memory, outcome>>

PackSeal(p) ==
    /\ pc[p] = "put"
    /\ todo[p] = {}
    /\ files' = Sealed
    /\ Goto(p, "manifest")
    /\ UNCHANGED <<manifests, man, memory, outcome>>

PackManifest(p) ==
    /\ pc[p] = "manifest"
    /\ manifests' = [manifests EXCEPT ![man[p]] = "whole"]
    /\ Exit(p, "packed")
    /\ UNCHANGED files

\* The process dies while it writes the manifest: the file is cut short.
PackTearsManifest(p) ==
    /\ pc[p] = "manifest"
    /\ manifests' = [manifests EXCEPT ![man[p]] = "torn"]
    /\ Exit(p, "failed")
    /\ UNCHANGED files

-----------------------------------------------------------------------------
(* bitchain gc: measure, and above the target leave alone, else collect.   *)

\* Slip: a manifest that does not parse is passed over.
CanMark_Lenient(readable) ==
    \A m \in Whole : Lists[m] \subseteq readable

\* mark_live_set: every manifest parses and every list-node can be read.
CanMark(readable) ==
    /\ Present = Whole
    /\ \A m \in Whole : Lists[m] \subseteq readable

\* cli/gc.rs skips a partition whose live/total percentage is at the target;
\* the code's division is multiplied out, an empty partition counts as 100%.
AtTarget(g) ==
    IF Store = {} THEN 100 >= Target[g]
    ELSE Cardinality(Referenced) * 100 >= Target[g] * Cardinality(Store)

GcSkip(g) ==
    /\ pc[g] = "idle"
    /\ MayOpen(g)
    /\ CanMark(Store)
    /\ AtTarget(g)
    /\ outcome' = [outcome EXCEPT ![g] = "skipped"]
    /\ UNCHANGED <<files, manifests, pc, man, memory>>

GcGoAhead(g) ==
    /\ pc[g] = "idle"
    /\ MayOpen(g)
    /\ CanMark(Store)
    /\ ~AtTarget(g)
    /\ Goto(g, "open")
    /\ UNCHANGED <<files, manifests, man, memory, outcome>>

GcUtilizationError(g) ==
    /\ pc[g] = "idle"
    /\ MayOpen(g)
    /\ ~CanMark(Store)
    /\ outcome' = [outcome EXCEPT ![g] = "failed"]
    /\ UNCHANGED <<files, manifests, pc, man, memory>>

\* collect: open the store and seal the active pack.
GcOpen(g) ==
    /\ pc[g] = "open"
    /\ MayOpen(g)
    /\ files' = Sealed
    /\ index' = [index EXCEPT ![g] = Store]
    /\ Goto(g, "mark")
    /\ UNCHANGED <<manifests, man, todo, live, outcome>>

Readable(g) == index[g] \intersect Store

\* Slip: the manifests' own names are marked, not the hashes under them.
GcMark_Names(g) ==
    /\ pc[g] = "mark"
    /\ CanMark(Readable(g))
    /\ live' = [live EXCEPT ![g] = Whole]
    /\ Goto(g, "stage")
    /\ UNCHANGED <<files, manifests, man, index, todo, outcome>>

GcMark(g) ==
    /\ pc[g] = "mark"
    /\ CanMark(Readable(g))
    /\ live' = [live EXCEPT ![g] = Referenced]
    /\ Goto(g, "stage")
    /\ UNCHANGED <<files, manifests, man, index, todo, outcome>>

\* Slip: a staging directory left by a gc that died is used again.
GcStage_Resumes(g) ==
    /\ pc[g] = "stage"
    /\ todo' = [todo EXCEPT ![g] = live[g]]
    /\ Goto(g, "copy")
    /\ UNCHANGED <<files, manifests, man, index, live, outcome>>

\* Slip: all indexed blocks are repacked, not the live ones.
GcStage_RepacksAll(g) ==
    /\ pc[g] = "stage"
    /\ files' = [files EXCEPT !["staged packs"] = {}, !["staged active"] = {}]
    /\ todo' = [todo EXCEPT ![g] = index[g]]
    /\ Goto(g, "copy")
    /\ UNCHANGED <<manifests, man, index, live, outcome>>

\* An old staging directory is removed, a new one provisioned and opened.
GcStage(g) ==
    /\ pc[g] = "stage"
    /\ files' = [files EXCEPT !["staged packs"] = {}, !["staged active"] = {}]
    /\ todo' = [todo EXCEPT ![g] = live[g]]
    /\ Goto(g, "copy")
    /\ UNCHANGED <<manifests, man, index, live, outcome>>

GcCopy(g, h) ==
    /\ pc[g] = "copy"
    /\ h \in todo[g] \intersect Readable(g)
    /\ files' = [files EXCEPT !["staged active"] = @ \union {h}]
    /\ todo' = [todo EXCEPT ![g] = @ \ {h}]
    /\ UNCHANGED <<manifests, pc, man, index, live, outcome>>

\* The staged copy is sealed and the store is closed: drop(store).
GcSealStaged(g) ==
    /\ pc[g] = "copy"
    /\ todo[g] = {}
    /\ files' = [files EXCEPT
                    !["staged packs"] = @ \union files["staged active"],
                    !["staged active"] = {}]
    /\ Goto(g, "clear")
    /\ UNCHANGED <<manifests, man, memory, outcome>>

-----------------------------------------------------------------------------
(* swap_in_staged_partition, one step per file-system call.                *)

GcClearBackups(g) ==
    /\ pc[g] = "clear"
    /\ RemoveBackups(files)
    /\ Goto(g, "movePacks")
    /\ UNCHANGED <<manifests, man, memory, outcome>>

GcMovePacks(g) ==
    /\ pc[g] = "movePacks"
    /\ MoveAside("packs", "packs.pre-gc")
    /\ Goto(g, "moveActive")
    /\ UNCHANGED <<manifests, man, memory, outcome>>

GcMoveActive(g) ==
    /\ pc[g] = "moveActive"
    /\ MoveAside("active", "active.pre-gc")
    /\ Goto(g, "placePacks")
    /\ UNCHANGED <<manifests, man, memory, outcome>>

\* create_dir_all(staged_packs) makes the source exist, if only empty.
GcPlacePacks(g) ==
    /\ pc[g] = "placePacks"
    /\ CanRename("packs")
    /\ files' = Renamed("staged packs", "packs")
    /\ Goto(g, "placeActive")
    /\ UNCHANGED <<manifests, man, memory, outcome>>

GcPlaceActive(g) ==
    /\ pc[g] = "placeActive"
    /\ files["staged active"] # {} => CanRename("active")
    /\ files' = IF files["staged active"] = {} THEN files
                ELSE Renamed("staged active", "active")
    /\ Goto(g, "cleanup")
    /\ UNCHANGED <<manifests, man, memory, outcome>>

\* The backups and the staging directory go, and the report is made.
GcCleanup(g) ==
    /\ pc[g] = "cleanup"
    /\ RemoveBackups([files EXCEPT !["staged packs"] = {},
                                   !["staged active"] = {}])
    /\ Exit(g, "collected")
    /\ UNCHANGED manifests

\* Slip: the operands of the saturating subtraction are swapped.
ReclaimedCount_Swapped(g) ==
    IF Cardinality(live[g]) > Cardinality(index[g])
    THEN Cardinality(live[g]) - Cardinality(index[g])
    ELSE 0

\* GcReport.reclaimed_count, whose total was counted right after the mark.
ReclaimedCount(g) ==
    IF Cardinality(index[g]) > Cardinality(live[g])
    THEN Cardinality(index[g]) - Cardinality(live[g])
    ELSE 0

\* Where a `?` of collect returns early, with whatever is on disk by then.
Blocked(g) ==
    \/ pc[g] = "mark" /\ ~CanMark(Readable(g))
    \/ pc[g] = "copy" /\ ~ (todo[g] \subseteq Readable(g))
    \/ pc[g] = "movePacks" /\ files["packs"] # {} /\ ~CanRename("packs.pre-gc")
    \/ pc[g] = "moveActive" /\ files["active"] # {} /\ ~CanRename("active.pre-gc")
    \/ pc[g] = "placePacks" /\ ~CanRename("packs")
    \/ pc[g] = "placeActive" /\ files["staged active"] # {} /\ ~CanRename("active")

GcError(g) ==
    /\ Blocked(g)
    /\ Exit(g, "failed")
    /\ UNCHANGED <<files, manifests>>

-----------------------------------------------------------------------------
(* The environment.                                                        *)

\* A kill, a power cut or an I/O error ends the command where it is.
Crash(p) ==
    /\ pc[p] # "idle"
    /\ Exit(p, "failed")
    /\ UNCHANGED <<files, manifests>>

\* The owner deletes a manifest file: how content becomes garbage.
Forget(m) ==
    /\ manifests[m] # "absent"
    /\ manifests' = [manifests EXCEPT ![m] = "absent"]
    /\ UNCHANGED <<files, pc, man, memory, outcome>>

-----------------------------------------------------------------------------

PackStep(p) ==
    \/ \E h \in Hash : PackPut(p, h)
    \/ PackSeal(p)
    \/ PackManifest(p)

GcStep(g) ==
    \/ GcOpen(g)
    \/ GcMark(g)
    \/ GcStage(g)
    \/ \E h \in Hash : GcCopy(g, h)
    \/ GcSealStaged(g)
    \/ GcClearBackups(g)
    \/ GcMovePacks(g)
    \/ GcMoveActive(g)
    \/ GcPlacePacks(g)
    \/ GcPlaceActive(g)
    \/ GcCleanup(g)
    \/ GcError(g)

Next ==
    \/ \E p \in PackProc :
        \/ \E m \in Manifest : PackOpen(p, m)
        \/ PackStep(p)
        \/ PackTearsManifest(p)
    \/ \E g \in GcProc :
        \/ GcSkip(g)
        \/ GcGoAhead(g)
        \/ GcUtilizationError(g)
        \/ GcStep(g)
    \/ \E p \in Proc : Crash(p)
    \/ \E m \in Manifest : Forget(m)

Spec == Init /\ [][Next]_vars

\* A command that was started is scheduled until it ends.
FairSpec ==
    /\ Spec
    /\ \A p \in PackProc : WF_vars(PackStep(p))
    /\ \A g \in GcProc : WF_vars(GcStep(g))
-----------------------------------------------------------------------------
(* Properties.                                                             *)

\* The directories, manifests and process memories stay of their kinds.
TypeOK ==
    /\ files \in [Dir -> SUBSET Hash]
    /\ manifests \in [Manifest -> {"absent", "whole", "torn"}]
    /\ pc \in [Proc -> PC]
    /\ man \in [PackProc -> Manifest]
    /\ index \in [Proc -> SUBSET Hash]
    /\ todo \in [Proc -> SUBSET Hash]
    /\ live \in [GcProc -> SUBSET Hash]
    /\ outcome \in
         [Proc -> {"none", "packed", "skipped", "collected", "failed"}]

\* What can be found in the partition by hand, between and after commands.
Retrievable == Store \union files["packs.pre-gc"]

\* Whatever gc was doing when it died, and whatever ran after it, each block
\* of each manifest file in the partition, even of one gc cannot parse, is in
\* packs/, active/ or packs.pre-gc/: nothing referenced is ever destroyed
\* (swap_in_staged_partition removes backups before it has anything new).
Recoverable == \A m \in Present : Blocks[m] \subseteq Retrievable

\* The swap displaces exactly the blocks that were indexed when the live set
\* was marked, and leaves exactly that live set, which still has every block
\* a manifest needs: no garbage survives a completed collect, no leftover of
\* an older staging directory comes in, no later manifest is missed.
SwapIsExact ==
    \A g \in GcProc :
        /\ pc[g] = "movePacks" => Store = index[g]
        /\ pc[g] = "cleanup" => Store = live[g] /\ Referenced \subseteq Store

\* The counts collect reports add up to what was there, so the
\* saturating_sub in its report never saturates.
ReportIsTrue ==
    \A g \in GcProc :
        pc[g] = "cleanup" =>
            ReclaimedCount(g) + Cardinality(Store) = Cardinality(index[g])

\* The partition, through every crash and retry, implements the abstract
\* store: gc only drops unreferenced blocks, pack publishes a manifest only
\* over blocks that are there.
Abstract == INSTANCE ContentStore WITH refs <- Present, stored <- Retrievable
ImplementsContentStore == Abstract!Spec

\* A collect that got as far as marking ends, and unless it failed the
\* garbage it saw is then no longer in the store.
GarbageGoes ==
    \A g \in GcProc, h \in Hash :
        (pc[g] = "stage" /\ h \notin live[g])
            ~> (pc[g] = "idle" /\ (outcome[g] = "failed" \/ h \notin Store))

-----------------------------------------------------------------------------
(* The inductive invariant of commands that run one at a time.             *)

OneCommand ==
    \A p, q \in Proc : p # q => pc[p] = "idle" \/ pc[q] = "idle"

\* What a pack has put is in its index, and its index is on disk.
PackPhase(p) ==
    /\ pc[p] = "put" =>
         /\ Blocks[man[p]] \subseteq todo[p] \union index[p]
         /\ index[p] \subseteq Store
    /\ pc[p] = "manifest" => Blocks[man[p]] \subseteq Store

PackInv == \A p \in PackProc : PackPhase(p)

\* From the mark on, the live set covers the manifests; it is copied from
\* the indexed packs, is staged before anything is removed, is then in the
\* backup, and at last in the packs.
GcPhase(g) ==
    /\ pc[g] \in {"mark", "stage", "copy", "clear"} \union Swap =>
         files["active"] = {}
    /\ pc[g] \in {"mark", "stage", "copy", "clear", "movePacks"} =>
         files["packs"] = index[g]
    /\ pc[g] \in {"stage", "copy", "clear"} \union Swap =>
         \A m \in Present : Blocks[m] \subseteq live[g]
    /\ pc[g] = "copy" =>
         /\ files["staged packs"] = {}
         /\ files["staged active"] \union todo[g] = live[g]
         /\ files["staged active"] \subseteq index[g]
    /\ pc[g] \in {"clear", "movePacks", "moveActive", "placePacks"} =>
         files["staged packs"] = live[g]
    /\ pc[g] \in {"clear"} \union Swap =>
         /\ files["staged active"] = {}
         /\ live[g] \subseteq index[g]
    /\ pc[g] \in {"moveActive", "placePacks"} =>
         live[g] \subseteq files["packs.pre-gc"]
    /\ pc[g] \in {"placeActive", "cleanup"} =>
         files["packs"] = live[g]

GcInv == \A g \in GcProc : GcPhase(g)

\* TypeOK, the three and Recoverable are preserved by every step.
IInv == TypeOK /\ OneCommand /\ PackInv /\ GcInv /\ Recoverable

-----------------------------------------------------------------------------
(* What the repository's documents say of gc; it fails on the code.        *)

\* "then atomically swap the staged packs/active directories in": at rest,
\* whatever happened, each whole manifest can be read from packs/ and active/.
SwapIsAtomic ==
    (\A p \in Proc : pc[p] = "idle") =>
        \A m \in Whole : Blocks[m] \subseteq Store
=============================================================================
