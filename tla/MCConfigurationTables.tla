------------------------- MODULE MCConfigurationTables -------------------------
(* Small instances of ConfigurationTables. *)
EXTENDS ConfigurationTables, TLC

Symmetry == Permutations(Name) \union Permutations(Slot)
=============================================================================
