-------------------------- MODULE MCSmallPartition --------------------------
(* The blocks, manifests and processes of the small partitions TLC checks. *)
EXTENDS TLC

CONSTANTS h1, h2, h3, m1, m2, g1, g2

\* Two manifests share h2.  m1 is a tree: list-node h1 over leaf h2, so gc
\* must read h1 to walk it.  m2 is two files of one leaf each.
MCBlocks == (m1 :> {h1, h2}) @@ (m2 :> {h2, h3})
MCLists == (m1 :> {h1}) @@ (m2 :> {})

\* The same with m2 a single leaf, for commands that overlap.
MCFewBlocks == (m1 :> {h1, h2}) @@ (m2 :> {h2})
=============================================================================
