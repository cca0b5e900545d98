---------------------------- MODULE ContentStore ----------------------------
(***************************************************************************)
(* What a bitchain partition promises, with no packs, no directories and   *)
(* no processes: a set of manifests, a set of stored blocks (leaves and    *)
(* list-nodes of fragment trees), and the promise that every block of a    *)
(* manifest the partition holds is stored.  `pack` adds blocks and then    *)
(* one manifest, a manifest file may be deleted, `gc` drops blocks.        *)
(***************************************************************************)
EXTENDS FiniteSets

CONSTANTS Hash,      \* content addresses
          Manifest,  \* manifests
          Blocks     \* Blocks[m]: the set of hashes in m's fragment trees

VARIABLES refs,      \* the manifests the partition holds
          stored     \* the blocks that can be found in it

vars == <<refs, stored>>

Kept(R) == UNION {Blocks[m] : m \in R}

Init == refs = {} /\ stored = {}

AddBlocks(S) ==
    /\ stored' = stored \union S
    /\ UNCHANGED refs

\* A manifest is published only over blocks that are already stored.
AddRef(m) ==
    /\ Blocks[m] \subseteq stored
    /\ refs' = refs \union {m}
    /\ UNCHANGED stored

DropRef(m) ==
    /\ refs' = refs \ {m}
    /\ UNCHANGED stored

\* Garbage collection drops what no manifest needs, and nothing else.
Reclaim(S) ==
    /\ S \intersect Kept(refs) = {}
    /\ stored' = stored \ S
    /\ UNCHANGED refs

Next ==
    \/ \E S \in SUBSET Hash : AddBlocks(S) \/ Reclaim(S)
    \/ \E m \in Manifest : AddRef(m) \/ DropRef(m)

Spec == Init /\ [][Next]_vars
=============================================================================
