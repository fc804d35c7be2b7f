--------------------------- MODULE MCCaseCreation ---------------------------
(* Small instances of CaseCreation for TLC. *)
EXTENDS CaseCreation, TLC

Symmetry == Permutations(Clients)
=============================================================================
