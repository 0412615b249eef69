--------------------------- MODULE MCConfigReload ---------------------------
(* Small instances of ConfigReload: threads are model values.               *)
EXTENDS ConfigReload, TLC

Symmetry == Permutations(Thread)
=============================================================================
