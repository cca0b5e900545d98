---------------------------- MODULE MCReplication ----------------------------
EXTENDS Replication, MCSmallPartition
=============================================================================
