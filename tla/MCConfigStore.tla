---------------------------- MODULE MCConfigStore ---------------------------
(* Small instances of ConfigStore: texts and clients are model values.      *)
EXTENDS ConfigStore
=============================================================================
