-------------------------- MODULE MCParallelShards --------------------------
EXTENDS ParallelShards, TLC
=============================================================================
