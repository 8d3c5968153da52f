---------------------------- MODULE MCVaultStore ----------------------------
(* VaultStore for TLC: a name, two keys, and one call of every kind.       *)
EXTENDS VaultStore, TLC

CONSTANTS n1

Nameless(op) == [ op |-> op, name |-> None, expected |-> 0, key |-> None ]
Named(op, expected) == [ op |-> op, name |-> n1, expected |-> expected, key |-> None ]
Rekey(k) == [ op |-> "rekey_all", name |-> None, expected |-> 0, key |-> k ]

EveryCall ==
  { Rekey(k) : k \in Key } \cup
  { Named("create", 0), Named("update", 1), Named("delete", 1),
    Named("get", 0), Named("list_versions", 0),
    Nameless("list_metadata"), Nameless("record_security_event"),
    Nameless("verify_audit_checkpoint"), Nameless("verify_audit_chain") }

StoreSymmetry == Permutations(Task) \cup Permutations(Key)
=============================================================================
