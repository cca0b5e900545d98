---------------------------- MODULE MCPartitionGc ----------------------------
EXTENDS PartitionGc, MCSmallPartition

\* No utilization reaches 101%: g1 repacks whatever is live.  g2 at 60%.
MCTarget == [g \in GcProc |-> IF g = g1 THEN 101 ELSE 60]
=============================================================================
