--------------------------- MODULE MCRedisService ---------------------------
(* Small instances of RedisService: jobs and clients are model values.      *)
EXTENDS RedisService, TLC

Symmetry == Permutations(JobId) \cup Permutations(Client)
=============================================================================
