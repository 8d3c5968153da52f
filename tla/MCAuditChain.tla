---------------------------- MODULE MCAuditChain ----------------------------
(* AuditChain for TLC: three events that say one of two things, and two    *)
(* changes by others.                                                      *)
EXTENDS AuditChain, TLC

ValueSymmetry == Permutations(Value)
=============================================================================
