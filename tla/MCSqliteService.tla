-------------------------- MODULE MCSqliteService ---------------------------
(* Small instances of SqliteService: jobs and clients are model values.     *)
EXTENDS SqliteService, TLC

Symmetry == Permutations(JobId) \cup Permutations(Client)
=============================================================================
