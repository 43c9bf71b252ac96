-------------------------- MODULE MCCacheGeneration --------------------------
(* Instances for TLC: the leased uploads with a session or a request, and     *)
(* beside them one writer that takes no lease.                                *)
EXTENDS CacheGeneration
=============================================================================
