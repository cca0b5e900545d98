------------------------------ MODULE StoreRoot ------------------------------
(***************************************************************************)
(* A whole store: several partitions, and the commands that walk over all  *)
(* of them or over the one they are given: `gc` (cli/gc.rs), and `pull`    *)
(* from a remote store (cli/pull.rs; `push` is the same loop seen from the *)
(* other side).  Both may run at once, and both stop at the first          *)
(* partition that fails.  Beside them partitions are provisioned, both     *)
(* stores are packed, manifests are deleted, the remote is collected, and  *)
(* a pull dies: at most MaxEvents times in all.                            *)
(*                                                                         *)
(* One partition is as PartitionGc and Replication show it in detail: here *)
(* a gc looks, opens, marks, copies and swaps, with the two renames of     *)
(* packs/ apart; a pull copies packs one by one, then all manifests.       *)
(***************************************************************************)
EXTENDS Naturals, FiniteSets

CONSTANTS Partition, \* the partition ids of some subjects
          Hash,      \* content addresses
          Manifest,  \* manifests
          Blocks,    \* Blocks[m]: the hashes in m's fragment trees
          Lists,     \* Lists[m]: those of them that are list nodes
          Targets,   \* values of --target-utilization
          Classes,   \* the retention classes in use
          NoPart,    \* not a partition
          MaxEvents  \* bound: see Event

\* A partition's directory can be missing, have no record ("bare"), or be of
\* one of the retention classes that `init` makes its caller choose from.
Class == {"ephemeral", "standard", "durable"}
Mode == {"plaintext", "sealed-required"}

ASSUME StoreRootAssumption ==
    /\ Blocks \in [Manifest -> SUBSET Hash]
    /\ Lists \in [Manifest -> SUBSET Hash]
    /\ \A m \in Manifest : Lists[m] \subseteq Blocks[m]
    /\ Classes \subseteq Class
    /\ NoPart \notin Partition
    /\ Targets \subseteq Nat /\ MaxEvents \in Nat

VARIABLES record,   \* record[p]: retention class in the local p/partition.json
          sealed,   \* partitions whose record requires sealed content
          local,    \* what the local store has of each partition
          remote,   \* what the remote store has of each partition
          target,   \* --target-utilization of the gc
          gcLeft,   \* partitions the gc has, or had, still to settle
          gcAt,     \* the one it is at
          gcPc,     \* what it does there next
          index,    \* the blocks that the store it has open knows of
          live,     \* the live set it has marked
          gcResult, \* how the gc is doing, or how the last one ended
          exempt,   \* history: partitions that the last gc need not settle:
                    \* out of its scope, or changed since it began
          pulling,  \* does a pull run
          pullLeft, \* partitions it has still to copy
          pullAt,   \* the one it is at
          pullTodo, \* packs there that it has listed and not yet copied
          events    \* events so far

gcVars == <<target, gcLeft, gcAt, gcPc, index, live, gcResult>>
pullVars == <<pulling, pullLeft, pullAt, pullTodo>>
vars == <<record, sealed, local, remote, gcVars, exempt, pullVars, events>>

Provisioned == {p \in Partition : record[p] \in Class}
Listed == {p \in Partition : record[p] # "absent"}

Kept(M) == UNION {Blocks[m] : m \in M}
Copy == [whole : SUBSET Manifest, torn : SUBSET Manifest, stored : SUBSET Hash]
Of(M) == [whole |-> M, torn |-> {}, stored |-> Kept(M)]

Init ==
    /\ record \in [Partition -> Classes \union {"absent"}]
    /\ sealed = {}
    /\ local = [p \in Partition |-> Of({})]
    /\ remote \in [Partition -> {Of(M) : M \in SUBSET Manifest}]
    /\ target \in Targets /\ gcLeft = {} /\ gcResult = "none"
    /\ gcAt = NoPart /\ gcPc = "next" /\ index = {} /\ live = {}
    /\ exempt = Partition
    /\ pulling = FALSE /\ pullLeft = {} /\ pullAt = NoPart /\ pullTodo = {}
    /\ events = 0

\* resolve_partition: an id is itself, any other string the id derived of it;
\* without an argument, a command walks over what list_partitions finds.
Scopes(all) == {all} \union {{p} : p \in Partition}

Exempt(p) == exempt' = exempt \union {p}

-----------------------------------------------------------------------------
(* gc.                                                                     *)

GcRuns == gcResult = "running"

\* list_manifests and walk_hashes succeed with a store that was opened when
\* it had `known`: they read the manifests and the list nodes, no leaf.
Walks(p, known) ==
    /\ local[p].torn = {}
    /\ UNION {Lists[m] : m \in local[p].whole} \subseteq known \intersect local[p].stored

\* The percentage that utilization finds in a store that was opened when it
\* had `known` is the target or more; an empty store counts as 100%.
AtTarget(p, known) ==
    IF known = {} THEN 100 >= target
    ELSE Cardinality(Kept(local[p].whole)) * 100 >= target * Cardinality(known)

\* Whether a directory without a record is listed is up to storage-kit.
GcStart ==
    /\ ~GcRuns
    /\ \E all \in SUBSET Listed :
        /\ Provisioned \subseteq all
        /\ gcLeft' \in Scopes(all)
    /\ target' \in Targets
    /\ exempt' = Partition \ gcLeft'
    /\ gcResult' = "running"
    /\ UNCHANGED <<record, sealed, local, remote, gcAt, gcPc, index, live,
                   pullVars, events>>

\* utilization opens the store.
GcLook(p) ==
    /\ GcRuns /\ gcAt = NoPart /\ p \in gcLeft \intersect Provisioned
    /\ gcAt' = p /\ gcPc' = "look"
    /\ index' = local[p].stored
    /\ UNCHANGED <<record, sealed, local, remote, target, gcLeft, live, gcResult,
                   exempt, pullVars, events>>

\* Slip: `return` for `continue`.
GcSkip_Returns ==
    /\ gcPc = "look" /\ Walks(gcAt, index)
    /\ AtTarget(gcAt, index)
    /\ gcLeft' = {}
    /\ gcAt' = NoPart /\ gcPc' = "next" /\ index' = {}
    /\ UNCHANGED <<record, sealed, local, remote, target, live, gcResult, exempt,
                   pullVars, events>>

GcSkip ==
    /\ gcPc = "look" /\ Walks(gcAt, index)
    /\ AtTarget(gcAt, index)
    /\ gcLeft' = gcLeft \ {gcAt}
    /\ gcAt' = NoPart /\ gcPc' = "next" /\ index' = {}
    /\ UNCHANGED <<record, sealed, local, remote, target, live, gcResult, exempt,
                   pullVars, events>>

\* One step of gc at its partition that changes no more than `index` or `live`.
GcGoes(to) ==
    /\ gcPc' = to
    /\ UNCHANGED <<record, sealed, local, remote, target, gcLeft, gcAt, gcResult,
                   exempt, pullVars, events>>

GcGoAhead ==
    /\ gcPc = "look" /\ Walks(gcAt, index)
    /\ ~AtTarget(gcAt, index)
    /\ GcGoes("open")
    /\ UNCHANGED <<index, live>>

\* collect opens the store again and seals what is active.
GcOpen ==
    /\ gcPc = "open"
    /\ index' = local[gcAt].stored
    /\ GcGoes("mark")
    /\ UNCHANGED live

GcMark ==
    /\ gcPc = "mark" /\ Walks(gcAt, index)
    /\ live' = Kept(local[gcAt].whole)
    /\ GcGoes("copy")
    /\ UNCHANGED index

\* Every live block is found and staged; drop(store).
GcCopy ==
    /\ gcPc = "copy"
    /\ live \subseteq index \intersect local[gcAt].stored
    /\ GcGoes("swap")
    /\ UNCHANGED <<index, live>>

\* The swap: packs/ becomes packs.pre-gc, with what was added since ...
GcMoveAside ==
    /\ gcPc = "swap"
    /\ local' = [local EXCEPT ![gcAt].stored = {}]
    /\ gcPc' = "moved"
    /\ UNCHANGED <<record, sealed, remote, target, gcLeft, gcAt, index, live,
                   gcResult, exempt, pullVars, events>>

\* ... and the staged packs become packs/, if there is no other one by now.
GcPlace ==
    /\ gcPc = "moved"
    /\ local[gcAt].stored = {}
    /\ local' = [local EXCEPT ![gcAt].stored = live]
    /\ gcLeft' = gcLeft \ {gcAt}
    /\ gcAt' = NoPart /\ gcPc' = "next" /\ index' = {} /\ live' = {}
    /\ UNCHANGED <<record, sealed, remote, target, gcResult, exempt, pullVars,
                   events>>

GcDone ==
    /\ GcRuns /\ gcLeft = {}
    /\ gcResult' = "done"
    /\ UNCHANGED <<record, sealed, local, remote, target, gcLeft, gcAt, gcPc, index,
                   live, exempt, pullVars, events>>

\* The partitions it was not past are left as they are: the one it was at
\* without packs/, if that was moved aside.
GcEnds(result) ==
    /\ gcResult' = result
    /\ gcAt' = NoPart /\ gcPc' = "next" /\ index' = {} /\ live' = {}
    /\ UNCHANGED <<record, sealed, local, remote, target, gcLeft, exempt, pullVars,
                   events>>

\* `?` of any step leaves the loop; the staging store may refuse what is not
\* sealed.
GcFails ==
    /\ GcRuns
    /\ \/ gcAt = NoPart /\ ~(gcLeft \subseteq Provisioned)
       \/ gcPc \in {"look", "mark"} /\ ~Walks(gcAt, index)
       \/ /\ gcPc = "copy"
          /\ \/ ~(live \subseteq index \intersect local[gcAt].stored)
             \/ gcAt \in sealed
       \/ gcPc = "moved" /\ local[gcAt].stored # {}
    /\ GcEnds("failed")

\* Killed, or stopped by an error of the file system.
GcDies == GcRuns /\ GcEnds("killed")

-----------------------------------------------------------------------------
(* pull.                                                                   *)

PullStart ==
    /\ ~pulling
    /\ pulling' = TRUE
    /\ pullLeft' = Partition
    /\ UNCHANGED <<record, sealed, local, remote, gcVars, exempt, pullAt, pullTodo,
                   events>>

\* A transfer makes the directory, but never a record, and reads none.
PullList(p) ==
    /\ pulling /\ pullAt = NoPart /\ p \in pullLeft
    /\ record' = [record EXCEPT ![p] = IF @ = "absent" THEN "bare" ELSE @]
    /\ pullAt' = p
    /\ pullTodo' = remote[p].stored
    /\ Exempt(p)
    /\ UNCHANGED <<sealed, local, remote, gcVars, pulling, pullLeft, events>>

PullPack(h) ==
    /\ h \in pullTodo /\ h \in remote[pullAt].stored
    /\ local' = [local EXCEPT ![pullAt].stored = @ \union {h}]
    /\ pullTodo' = pullTodo \ {h}
    /\ Exempt(pullAt)
    /\ UNCHANGED <<record, sealed, remote, gcVars, pulling, pullLeft, pullAt, events>>

\* Slip: a copy goes on after the last byte of a file that was cut short.
PullManifests_Appends ==
    /\ pullAt # NoPart /\ pullTodo = {}
    /\ local' = [local EXCEPT ![pullAt].whole = @ \union remote[pullAt].whole]
    /\ pullLeft' = pullLeft \ {pullAt}
    /\ pullAt' = NoPart
    /\ Exempt(pullAt)
    /\ UNCHANGED <<record, sealed, remote, gcVars, pulling, pullTodo, events>>


\* copy_manifests.
PullManifests ==
    /\ pullAt # NoPart /\ pullTodo = {}
    /\ local' = [local EXCEPT ![pullAt].whole = @ \union remote[pullAt].whole,
                              ![pullAt].torn = @ \ remote[pullAt].whole]
    /\ pullLeft' = pullLeft \ {pullAt}
    /\ pullAt' = NoPart
    /\ Exempt(pullAt)
    /\ UNCHANGED <<record, sealed, remote, gcVars, pulling, pullTodo, events>>

PullEnds ==
    /\ pulling' = FALSE
    /\ pullLeft' = {} /\ pullAt' = NoPart /\ pullTodo' = {}

PullDone ==
    /\ pulling /\ pullLeft = {}
    /\ PullEnds
    /\ UNCHANGED <<record, sealed, local, remote, gcVars, exempt, events>>

\* A pack that was listed is gone, or its shard is: the remote was collected.
PullFails ==
    /\ pullAt # NoPart
    /\ ~(pullTodo \subseteq remote[pullAt].stored)
    /\ PullEnds
    /\ UNCHANGED <<record, sealed, local, remote, gcVars, exempt, events>>

-----------------------------------------------------------------------------
(* Everything else that happens to the two stores.                         *)

Event == events < MaxEvents /\ events' = events + 1

\* pull of the partition it is given.
PullOne(p) ==
    /\ Event
    /\ ~pulling
    /\ pulling' = TRUE
    /\ pullLeft' = {p}
    /\ UNCHANGED <<record, sealed, local, remote, gcVars, exempt, pullAt, pullTodo>>

\* cli/init.rs: a second init of a subject changes nothing.
Provision(p, class, mode) ==
    /\ Event
    /\ p \notin Provisioned
    /\ record' = [record EXCEPT ![p] = class]
    /\ sealed' = IF mode = "sealed-required" THEN sealed \union {p} ELSE sealed
    /\ Exempt(p)
    /\ UNCHANGED <<local, remote, gcVars, pullVars>>

\* A completed pack; into a partition that requires sealed content it fails.
LocalPack(p, m) ==
    /\ Event
    /\ p \in Provisioned \ sealed
    /\ local' = [local EXCEPT ![p].whole = @ \union {m}, ![p].torn = @ \ {m},
                              ![p].stored = @ \union Blocks[m]]
    /\ Exempt(p)
    /\ UNCHANGED <<record, sealed, remote, gcVars, pullVars>>

LocalForget(p, m) ==
    /\ Event
    /\ m \in local[p].whole \union local[p].torn
    /\ local' = [local EXCEPT ![p].whole = @ \ {m}, ![p].torn = @ \ {m}]
    /\ Exempt(p)
    /\ UNCHANGED <<record, sealed, remote, gcVars, pullVars>>

\* The remote is packed, or a manifest of it is deleted.  A pull that reads
\* the directories of the partition meanwhile may come across the new packs.
RemoteChanges(p) ==
    /\ Event
    /\ \E m \in Manifest :
        \/ /\ m \in remote[p].whole
           /\ remote' = [remote EXCEPT ![p].whole = @ \ {m}]
           /\ UNCHANGED pullTodo
        \/ /\ m \notin remote[p].whole
           /\ remote' = [remote EXCEPT ![p].whole = @ \union {m},
                                       ![p].stored = @ \union Blocks[m]]
           /\ \/ UNCHANGED pullTodo
              \/ /\ pullAt = p /\ pullTodo # {}
                 /\ pullTodo' = pullTodo \union (Blocks[m] \ remote[p].stored)
    /\ UNCHANGED <<record, sealed, local, gcVars, exempt, pulling, pullLeft, pullAt>>

\* The remote is collected, with some manifests deleted before.  Such a pull may
\* come too late to list what is gone.
RemoteGc(p) ==
    /\ Event
    /\ \E M \in SUBSET remote[p].whole :
        /\ remote[p] # Of(M)
        /\ remote' = [remote EXCEPT ![p] = Of(M)]
        /\ \/ UNCHANGED pullTodo
           \/ pullAt = p /\ pullTodo' = pullTodo \intersect Kept(M)
    /\ UNCHANGED <<record, sealed, local, gcVars, exempt, pulling, pullLeft, pullAt>>

\* A pull dies between two files; or a pack, or a manifest among those that
\* arrived, is cut short, also one that was whole.
PullDies ==
    /\ Event
    /\ pulling
    /\ PullEnds
    /\ \/ UNCHANGED <<local, exempt>>
       \/ /\ pullAt # NoPart
          /\ \E h \in pullTodo \intersect remote[pullAt].stored :
                local' = [local EXCEPT ![pullAt].stored = @ \ {h}]
          /\ Exempt(pullAt)
       \/ /\ pullAt # NoPart /\ pullTodo = {}
          /\ \E m \in remote[pullAt].whole, got \in SUBSET remote[pullAt].whole :
                local' = [local EXCEPT ![pullAt].whole = (@ \union got) \ {m},
                                       ![pullAt].torn = (@ \ got) \union {m}]
          /\ Exempt(pullAt)
    /\ UNCHANGED <<record, sealed, remote, gcVars>>

-----------------------------------------------------------------------------

PullStep ==
    \/ PullStart
    \/ \E p \in Partition : PullList(p)
    \/ \E h \in Hash : PullPack(h)
    \/ PullManifests
    \/ PullDone
    \/ PullFails

GcStep ==
    \/ GcStart
    \/ \E p \in Partition : GcLook(p)
    \/ GcSkip
    \/ GcGoAhead
    \/ GcOpen
    \/ GcMark
    \/ GcCopy
    \/ GcMoveAside
    \/ GcPlace
    \/ GcDone
    \/ GcFails
    \/ GcDies

Next ==
    \/ PullStep
    \/ GcStep
    \/ \E p \in Partition :
        \/ PullOne(p)
        \/ \E class \in Classes, mode \in Mode : Provision(p, class, mode)
        \/ \E m \in Manifest : LocalPack(p, m) \/ LocalForget(p, m)
        \/ RemoteChanges(p)
        \/ RemoteGc(p)
    \/ PullDies

Spec == Init /\ [][Next]_vars

\* A pull that runs goes on, and the operator starts another one after it.
\* Nothing is supposed of the gc.
FairSpec == Spec /\ WF_vars(PullStep)

-----------------------------------------------------------------------------
(* Properties.                                                             *)

\* Records are of a class or missing; a manifest file is whole or cut short;
\* the commands are where their loops can be.
TypeOK ==
    /\ record \in [Partition -> Class \union {"absent", "bare"}]
    /\ sealed \subseteq Provisioned
    /\ local \in [Partition -> Copy]
    /\ \A p \in Partition : local[p].whole \intersect local[p].torn = {}
    /\ remote \in [Partition -> Copy]
    /\ target \in Nat
    /\ gcLeft \subseteq Partition
    /\ gcAt \in gcLeft \union {NoPart}
    /\ gcPc \in {"next", "look", "open", "mark", "copy", "swap", "moved"}
    /\ index \subseteq Hash /\ live \subseteq Hash
    /\ gcResult \in {"none", "running", "done", "failed", "killed"}
    /\ exempt \subseteq Partition
    /\ pulling \in BOOLEAN
    /\ pullLeft \subseteq Partition
    /\ pullAt \in pullLeft \union {NoPart}
    /\ pullTodo \subseteq Hash
    /\ events \in 0 .. MaxEvents

\* Nothing of p is garbage, or not enough of it to repack.
Settled(p) ==
    /\ p \in Provisioned
    /\ Walks(p, local[p].stored)
    /\ AtTarget(p, local[p].stored) \/ local[p].stored = Kept(local[p].whole)

\* However a gc goes, it has settled every partition that it was past, except
\* where another command came in between, whatever it met in the others; and
\* it is past all of them when it ends well.  What it has still to settle when
\* it fails or dies is all that is not settled.
GcOfAllSettlesAll ==
    /\ gcResult = "done" => gcLeft = {}
    /\ \A p \in Provisioned \ (exempt \union gcLeft) : Settled(p)


-----------------------------------------------------------------------------
(* The inductive invariant.                                                *)

\* A command that does not run is at no partition, and one that is at none
\* holds nothing.
LoopInv ==
    /\ ~GcRuns => gcAt = NoPart
    /\ gcAt = NoPart <=> gcPc = "next"
    /\ gcAt # NoPart => gcAt \in Provisioned
    /\ ~pulling => pullLeft = {} /\ pullAt = NoPart
    /\ pullAt = NoPart => pullTodo = {}

\* In a partition that no other command has changed, the store a gc has open
\* is not stale, and what it has marked is live.
GcInv ==
    gcAt \notin exempt \union {NoPart} =>
        /\ gcPc \in {"look", "mark"} => index = local[gcAt].stored
        /\ gcPc \in {"copy", "swap", "moved"} =>
             /\ local[gcAt].torn = {}
             /\ live = Kept(local[gcAt].whole)

IInv == TypeOK /\ LoopInv /\ GcInv /\ GcOfAllSettlesAll

-----------------------------------------------------------------------------
(* What the repository's documents say; the code differs.                  *)

\* "`durable` never drops content, referenced or not": the packs that a gc
\* puts in place of those of a durable partition have all that was there when
\* collect opened it.
DurableDropsNothing ==
    [][\A p \in Partition :
        record[p] = "durable" /\ gcAt = p /\ GcPlace
            => index \subseteq local'[p].stored]_vars

\* `sealed-required` "makes every write into this partition fail closed": no
\* step adds a block to a partition whose record requires sealed content,
\* unless gc puts back what was there.
SealedTakesNoPlaintext ==
    [][\A p \in sealed :
        GcPlace \/ local'[p].stored \subseteq local[p].stored]_vars
=============================================================================
