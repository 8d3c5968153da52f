---------------------------- MODULE MCKeyRotation ----------------------------
(* KeyRotation for TLC: writes, deletion and rekeying of one name, two keys. *)
EXTENDS KeyRotation, TLC

CONSTANTS n1

Named(op, expected) == [ op |-> op, name |-> n1, expected |-> expected, key |-> None ]

RotationCalls ==
  { Named("create", 0), Named("update", 1), Named("delete", 1) } \cup
  { [ op |-> "rekey_all", name |-> None, expected |-> 0, key |-> k ] : k \in Key }

RotationSymmetry == Permutations(Task) \cup Permutations(Key)
=============================================================================
