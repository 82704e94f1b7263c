------------------------------- MODULE MCVault --------------------------------
(* Module Vault and its refinement for TLC. *)
EXTENDS VaultRefinement, TLC

\* Records are interchangeable, and so are their contents.
RecordSymmetry == Permutations(RecordIDs) \cup Permutations(Payloads)
===============================================================================
