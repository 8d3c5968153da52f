--------------------------- MODULE MCProvisioning ---------------------------
(* Provisioning for TLC: three runs of init that may overlap.              *)
EXTENDS Provisioning, TLC

RunSymmetry == Permutations(Run)
=============================================================================
