--------------------------- MODULE MCVaultCustody ---------------------------
(* VaultCustody for TLC: two events and a verification, two identities.    *)
EXTENDS VaultCustody, TLC

CONSTANTS n1, k1

Plain(op) == [ op |-> op, name |-> None, expected |-> 0, key |-> None ]

CustodyCalls ==
  { Plain("record_security_event"), Plain("verify_audit_checkpoint") }

TaskSymmetry == Permutations(Task)
=============================================================================
