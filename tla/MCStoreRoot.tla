---------------------------- MODULE MCStoreRoot ----------------------------
EXTENDS StoreRoot, TLC

CONSTANTS h1, m1

\* One manifest of one leaf: partitions are what there must be several of.
MCBlocks == m1 :> {h1}
MCLists == m1 :> {}

\* A target that a store with one live block meets, and one that it does not:
\* gcs drop what is not live, and repack what is.
MCTargets == {60, 101}
=============================================================================
