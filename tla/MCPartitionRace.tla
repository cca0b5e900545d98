--------------------------- MODULE MCPartitionRace ---------------------------
EXTENDS PartitionRace, MCSmallPartition

MCTarget == [g \in GcProc |-> 101]

\* States that differ in how commands have ended are one: no step reads that.
MCView == <<files, manifests, pc, man, memory, overlapped>>

\* The two gcs have one target: they can be exchanged.
MCGcSymmetry == Permutations({g1, g2})
=============================================================================
